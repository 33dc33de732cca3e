---------------------------- MODULE ToolCatalogue ----------------------------
(***************************************************************************)
(* The tools of src/tools, one definition per registration file or part of *)
(* one: for each tool the annotations it is registered with, the requests  *)
(* its handler sends through the client, in order, and the ways in which   *)
(* the handler ends without one.  Titles, descriptions, the fields of the  *)
(* schemas and the formatting of the answers are left out.                 *)
(***************************************************************************)
EXTENDS Sequences, TLC

Hints(readOnly, destructive, idempotent, openWorld) ==
  [ readOnly |-> readOnly, destructive |-> destructive,
    idempotent |-> idempotent, openWorld |-> openWorld ]

READ_ONLY_ANNOTATIONS == Hints(TRUE, FALSE, TRUE, FALSE)
CREATE_ANNOTATIONS == Hints(FALSE, FALSE, FALSE, FALSE)
UPDATE_ANNOTATIONS == Hints(FALSE, FALSE, TRUE, FALSE)
DELETE_ANNOTATIONS == Hints(FALSE, TRUE, TRUE, FALSE)

(***************************************************************************)
(* A step of a handler sends one of the requests of "methods"; the errors  *)
(* in "forgives" (a 404, or all of them) do not end the handler.           *)
(***************************************************************************)
Must(methods) == [ methods |-> methods, forgives |-> "nothing" ]
IfFound(method) == [ methods |-> {method}, forgives |-> "missing" ]
Again(method) == [ methods |-> {method}, forgives |-> "everything" ]

(***************************************************************************)
(* A tool.  "confirm": "none", or how the handler answers a call without   *)
(* confirm=true ("flagged" with confirmationRequiredError, "plain" without *)
(* the flag).  "on404": what becomes of a 404 of its last request.         *)
(* "refuses": the handler may end the call with an error of its own,       *)
(* "before" its first request or "after" its last one too.                 *)
(***************************************************************************)
Tool(hints, sends) ==
  [ hints |-> hints, sends |-> sends, confirm |-> "none",
    on404 |-> "error", refuses |-> "never" ]

With(tool, confirm, on404, refuses) ==
  [ hints |-> tool.hints, sends |-> tool.sends, confirm |-> confirm,
    on404 |-> on404, refuses |-> refuses ]

One(hints, method) == Tool(hints, << Must({method}) >>)
Reads(method) == One(READ_ONLY_ANNOTATIONS, method)
Creates(method) == One(CREATE_ANNOTATIONS, method)
Updates(method) == One(UPDATE_ANNOTATIONS, method)
Deletes(method) == One(DELETE_ANNOTATIONS, method)

Flagged(tool) == With(tool, "flagged", tool.on404, tool.refuses)
Plain(tool) == With(tool, "plain", tool.on404, tool.refuses)
Refusing(tool) == With(tool, tool.confirm, tool.on404, "before")
Checking(tool) == With(tool, tool.confirm, tool.on404, "after")
\* withBackendGuard: only a 404 that names NOT_FOUND is a missing record.
Guarded(tool) == With(tool, tool.confirm, "ambiguous", tool.refuses)
\* unavailableResult: every 404 means that the route is not served.
Unserved(tool) == With(tool, tool.confirm, "unserved", tool.refuses)
\* verifactu_status: a 404 may be the answer that nothing was submitted.
Answering(tool) == With(tool, tool.confirm, "answer", tool.refuses)
\* notDeployedError: the handler sends nothing.
NotDeployed(hints) == Tool(hints, << >>)

PeriodTools ==  \* accountingClose.ts
  [ period_close_status |-> Guarded(Reads("getCurrentPeriod")),
    period_close |-> Plain(Guarded(Deletes("closePeriod"))),
    period_reopen |->
        Plain(Guarded(One(Hints(FALSE, TRUE, FALSE, FALSE), "reopenPeriod"))) ]

LedgerTools ==  \* audit_gl.ts
  [ frihet_gl_entry_approve |-> Guarded(Updates("approveGLEntry")),
    frihet_gl_entry_reject |-> Guarded(Updates("rejectGLEntry")),
    frihet_gl_entry_audit_log |-> Guarded(Reads("getGLEntryAuditLog")) ]

BankRuleTools ==  \* bank_rules.ts
  [ frihet_bank_rules_list |-> Guarded(Reads("listBankRules")),
    frihet_bank_rule_create |-> Guarded(Creates("createBankRule")) ]

BankingTools ==  \* banking.ts
  [ list_bank_accounts |-> Reads("listBankAccounts"),
    get_bank_account |-> Reads("getBankAccount"),
    list_transactions |-> Reads("listTransactions"),
    categorize_transaction |-> Updates("categorizeTransaction") ]

ReconciliationTools ==  \* banking.ts
  [ match_transaction_to_invoice |->
        Flagged(Updates("matchTransactionToDocument")) ]

ClientListTools ==  \* clients.ts
  [ list_clients |-> Checking(Tool(READ_ONLY_ANNOTATIONS,
         << Must({"listClients"}), Again("listClients") >>)) ]

ClientTools ==  \* clients.ts
  [ get_client |-> Reads("getClient"),
    create_client |-> Creates("createClient"),
    update_client |-> Updates("updateClient"),
    delete_client |-> Deletes("deleteClient") ]

ContactTools ==  \* crm.ts
  [ list_client_contacts |-> Reads("listClientContacts"),
    create_client_contact |-> Creates("createClientContact"),
    delete_client_contact |-> Deletes("deleteClientContact"),
    list_client_activities |-> Reads("listClientActivities"),
    log_client_activity |-> Creates("logClientActivity") ]

NoteTools ==  \* crm.ts
  [ list_client_notes |-> Reads("listClientNotes"),
    create_client_note |-> Creates("createClientNote"),
    delete_client_note |-> Deletes("deleteClientNote") ]

DepositTools ==  \* deposits.ts
  [ list_deposits |-> Reads("listDeposits"),
    get_deposit |-> Reads("getDeposit"),
    create_deposit |-> Refusing(Creates("createDeposit")) ]

DepositActionTools ==  \* deposits.ts
  [ update_deposit |-> Refusing(Updates("updateDeposit")),
    delete_deposit |-> Deletes("deleteDeposit"),
    apply_deposit |-> Refusing(Updates("applyDeposit")),
    refund_deposit |->
        Flagged(One(Hints(FALSE, TRUE, FALSE, FALSE), "refundDeposit")) ]

EInvoiceDispatchTools ==  \* einvoice.ts
  [ send_einvoice |-> Unserved(Creates("sendEInvoice")),
    get_einvoice_status |-> Unserved(Reads("getEInvoiceStatus")) ]

EInvoiceFileTools ==  \* einvoice.ts
  [ validate_einvoice_xml |-> Unserved(Reads("validateEInvoiceXml")),
    export_datev |-> Unserved(Reads("exportDatev")) ]

EInvoiceExportTools ==  \* einvoice.ts
  [ einvoice_export |-> Unserved(Updates("exportEInvoice")),
    face_submit |-> Plain(Unserved(Creates("faceSubmit"))) ]

FaceAndTicketbaiTools ==  \* einvoice.ts
  [ face_status |-> Unserved(Reads("faceStatus")),
    ticketbai_submit |-> Plain(Unserved(Creates("ticketbaiSubmit"))) ]

TicketbaiAndKsefTools ==  \* einvoice.ts
  [ ticketbai_status |-> Unserved(Reads("ticketbaiStatus")),
    ksef_submit |-> NotDeployed(CREATE_ANNOTATIONS) ]

ExpenseTools ==  \* expenses.ts
  [ list_expenses |-> Reads("listExpenses"),
    get_expense |-> Reads("getExpense"),
    create_expense |-> Creates("createExpense"),
    update_expense |-> Updates("updateExpense") ]

ExpenseDeleteTools ==  \* expenses.ts
  [ delete_expense |-> Deletes("deleteExpense") ]

ModeloTools ==  \* fiscal.ts
  [ get_modelo_303_summary |->
        Guarded(Checking(Reads("getFiscalModeloSummary"))),
    get_modelo_130_summary |->
        Guarded(Checking(Reads("getFiscalModeloSummary"))),
    get_modelo_390_summary |->
        Guarded(Checking(Reads("getFiscalModeloSummary"))),
    get_modelo_180_summary |-> NotDeployed(READ_ONLY_ANNOTATIONS),
    get_modelo_347_summary |->
        Guarded(Checking(Reads("getFiscalModeloSummary"))) ]

VerifactuTools ==  \* fiscal.ts
  [ verifactu_status |-> Answering(Reads("getVerifactuStatus")),
    verifactu_resubmit |-> Flagged(Guarded(Updates("resubmitVerifactu"))) ]

GestoriaMessageTools ==  \* gestoria.ts
  [ gestoria_message_send |-> Guarded(Creates("sendGestoriaMessage")),
    gestoria_messages_list |-> Guarded(Reads("listGestoriaMessages")) ]

GestoriaTemplateTools ==  \* gestoria.ts
  [ gestoria_template_create |-> Guarded(Creates("createGestoriaTemplate")),
    gestoria_template_bulk_send |->
        Guarded(Creates("bulkSendGestoriaTemplate")) ]

GestoriaAgingTools ==  \* gestoria.ts
  [ gestoria_aging_consolidated |->
        Guarded(Reads("getGestoriaAgingConsolidated")) ]

LeaveTools ==  \* hr.ts
  [ leave_request_create |-> Guarded(Creates("createLeaveRequest")),
    leave_approve |-> Guarded(Updates("approveLeave")),
    leave_reject |-> Guarded(Updates("rejectLeave")),
    leave_cancel |-> Guarded(Updates("cancelLeave")) ]

AttendanceTools ==  \* hr.ts
  [ leave_list |-> Guarded(Reads("listLeaves")),
    attendance_clock_in |-> Guarded(Creates("attendanceClockIn")),
    attendance_clock_out |-> Guarded(Updates("attendanceClockOut")),
    overtime_report |-> Guarded(Reads("getOvertimeReport")) ]

AnomalyTools ==  \* hr.ts
  [ anomaly_list |-> Guarded(Reads("listAnomalies")) ]

IgicTools ==  \* igic.ts
  [ frihet_modelo_415_summary |-> NotDeployed(READ_ONLY_ANNOTATIONS),
    frihet_modelo_425_summary |-> NotDeployed(READ_ONLY_ANNOTATIONS),
    frihet_modelo_418_summary |-> NotDeployed(READ_ONLY_ANNOTATIONS),
    frihet_aiem_calculate |-> NotDeployed(READ_ONLY_ANNOTATIONS) ]

CorporateTaxTools ==  \* impuesto_sociedades.ts
  [ frihet_modelo_200_summary |-> NotDeployed(READ_ONLY_ANNOTATIONS),
    frihet_modelo_202_summary |-> NotDeployed(READ_ONLY_ANNOTATIONS) ]

SummaryTools ==  \* intelligence.ts
  [ get_business_context |-> Reads("getBusinessContext"),
    get_monthly_summary |-> Reads("getMonthlySummary"),
    get_quarterly_taxes |-> Reads("getQuarterlyTaxes") ]

DuplicateInvoiceTools ==  \* intelligence.ts
  [ duplicate_invoice |-> Refusing(Tool(CREATE_ANNOTATIONS,
           << Must({"getInvoice"}), Must({"createInvoice"}) >>)) ]

InvoiceReadTools ==  \* invoices.ts
  [ list_invoices |-> Reads("listInvoices"),
    get_invoice |-> Reads("getInvoice") ]

InvoiceWriteTools ==  \* invoices.ts
  [ create_invoice |-> Creates("createInvoice"),
    update_invoice |-> Updates("updateInvoice") ]

InvoiceDeleteTools ==  \* invoices.ts
  [ delete_invoice |-> Flagged(Deletes("deleteInvoice")),
    search_invoices |->
        Tool(READ_ONLY_ANNOTATIONS,
             << Must({"searchInvoices", "listInvoices"}) >>) ]

InvoiceSendTools ==  \* invoices.ts
  [ send_invoice |-> Flagged(Refusing(Tool(UPDATE_ANNOTATIONS,
         << Must({"getInvoice"}), IfFound("getClient"),
            Must({"sendInvoice"}) >>))) ]

InvoiceDocumentTools ==  \* invoices.ts
  [ mark_invoice_paid |-> Updates("markInvoicePaid"),
    get_invoice_pdf |-> Reads("getInvoicePdf"),
    get_invoice_einvoice |-> Reads("getInvoiceEInvoice") ]

CreditNoteTools ==  \* invoices.ts
  [ create_credit_note |-> Creates("createCreditNote"),
    apply_late_fee |-> Creates("applyLateFee") ]

KitchenTools ==  \* kitchen.ts
  [ list_kitchen_tickets |-> Reads("listKitchenTickets"),
    get_kitchen_ticket |-> Reads("getKitchenTicket"),
    update_kitchen_ticket |-> Updates("updateKitchenTicket"),
    list_kitchen_stations |-> Reads("listKitchenStations") ]

MenuTools ==  \* kitchen.ts
  [ list_menu_items |-> Reads("listMenuItems") ]

KitchenFlowTools ==  \* kitchen.ts
  [ kitchen_flow_summary |-> Tool(READ_ONLY_ANNOTATIONS,
           << Must({"listKitchenTickets"}), Must({"listKitchenStations"}) >>) ]

OnboardTools ==  \* onboard_vies.ts
  [ frihet_portal_onboard_link_generate |->
        Guarded(Creates("generatePortalOnboardLink")),
    frihet_tax_id_vies_lookup |-> Guarded(Reads("lookupTaxIdViaVIES")) ]

PayrollTools ==  \* payroll.ts
  [ payroll_export |-> Guarded(Reads("exportPayroll")),
    payroll_checklist |-> Guarded(Reads("getPayrollChecklist")) ]

PermissionTools ==  \* permissions.ts
  [ permissions_matrix |-> Guarded(Reads("getPermissionsMatrix")),
    permissions_me |-> Guarded(Reads("getMyPermissions")) ]

PortalDomainTools ==  \* portal_domain.ts
  [ frihet_portal_domain_add |-> Guarded(Creates("addCustomPortalDomain")),
    frihet_portal_domain_verify |->
        Guarded(Reads("verifyCustomPortalDomain")),
    frihet_portal_domain_remove |->
        Guarded(Deletes("removeCustomPortalDomain")) ]

PosReadTools ==  \* pos.ts
  [ list_terminals |-> Reads("listTerminals"),
    get_sale |-> Reads("getSale"),
    list_sales |-> Reads("listSales") ]

PosRefundTools ==  \* pos.ts
  [ refund_sale |-> Plain(Deletes("refundSale")) ]

ProductTools ==  \* products.ts
  [ list_products |-> Reads("listProducts"),
    get_product |-> Reads("getProduct"),
    create_product |-> Creates("createProduct"),
    update_product |-> Updates("updateProduct") ]

ProductDeleteTools ==  \* products.ts
  [ delete_product |-> Deletes("deleteProduct") ]

QuoteTools ==  \* quotes.ts
  [ list_quotes |-> Reads("listQuotes"),
    get_quote |-> Reads("getQuote"),
    create_quote |-> Creates("createQuote") ]

QuoteEditTools ==  \* quotes.ts
  [ update_quote |-> Updates("updateQuote"),
    delete_quote |-> Flagged(Deletes("deleteQuote")) ]

QuoteSendTools ==  \* quotes.ts
  [ send_quote |-> Plain(Refusing(Tool(UPDATE_ANNOTATIONS,
         << Must({"getQuote"}), IfFound("getClient"),
            Must({"sendQuote"}) >>))) ]

RecurringTools ==  \* recurring.ts
  [ list_recurring_invoices |-> Reads("listRecurringInvoices"),
    get_recurring_invoice |-> Reads("getRecurringInvoice"),
    create_recurring_invoice |-> Creates("createRecurringInvoice"),
    update_recurring_invoice |-> Updates("updateRecurringInvoice") ]

RecurringActionTools ==  \* recurring.ts
  [ pause_recurring_invoice |-> Updates("pauseRecurringInvoice"),
    resume_recurring_invoice |-> Updates("resumeRecurringInvoice"),
    delete_recurring_invoice |-> Flagged(Deletes("deleteRecurringInvoice")),
    run_recurring_now |->
        Flagged(One(Hints(FALSE, TRUE, FALSE, TRUE), "runRecurringNow")) ]

SearchTools ==  \* search.ts
  [ global_search |-> Reads("globalSearch") ]

ReservationTools ==  \* stay.ts
  [ list_reservations |-> Reads("listReservations"),
    get_reservation |-> Reads("getReservation"),
    create_reservation |-> Creates("createReservation") ]

PropertyTools ==  \* stay.ts
  [ list_properties |-> Reads("listProperties"),
    sync_channel |-> Updates("syncChannel") ]

TeamTools ==  \* team.ts
  [ list_team_members |-> Reads("listTeamMembers"),
    invite_team_member |-> Creates("inviteTeamMember"),
    update_team_member_role |-> Updates("updateTeamMemberRole"),
    remove_team_member |-> Flagged(Deletes("removeTeamMember")) ]

TimeTools ==  \* time.ts
  [ list_time_entries |-> Reads("listTimeEntries"),
    get_time_entry |-> Reads("getTimeEntry"),
    create_time_entry |-> Creates("createTimeEntry"),
    update_time_entry |-> Updates("updateTimeEntry") ]

TimeDeleteTools ==  \* time.ts
  [ delete_time_entry |-> Flagged(Deletes("deleteTimeEntry")),
    get_time_summary |-> Reads("getTimeSummary") ]

VendorReadTools ==  \* vendors.ts
  [ list_vendors |-> Checking(Tool(READ_ONLY_ANNOTATIONS,
         << Must({"listVendors"}), Again("listVendors") >>)),
    get_vendor |-> Reads("getVendor") ]

VendorTools ==  \* vendors.ts
  [ create_vendor |-> Creates("createVendor"),
    update_vendor |-> Updates("updateVendor"),
    delete_vendor |-> Deletes("deleteVendor") ]

WebhookTools ==  \* webhooks.ts
  [ list_webhooks |-> Reads("listWebhooks"),
    get_webhook |-> Reads("getWebhook"),
    create_webhook |-> Creates("createWebhook"),
    update_webhook |-> Updates("updateWebhook"),
    delete_webhook |-> Deletes("deleteWebhook") ]

WebhookTestTools ==  \* webhooks.ts
  [ test_webhook |-> One(Hints(FALSE, FALSE, FALSE, TRUE), "testWebhook") ]

Catalogue ==
  PeriodTools @@ LedgerTools @@ BankRuleTools @@ BankingTools @@
  ReconciliationTools @@ ClientListTools @@ ClientTools @@ ContactTools @@
  NoteTools @@ DepositTools @@ DepositActionTools @@
  EInvoiceDispatchTools @@ EInvoiceFileTools @@ EInvoiceExportTools @@
  FaceAndTicketbaiTools @@ TicketbaiAndKsefTools @@ ExpenseTools @@
  ExpenseDeleteTools @@ ModeloTools @@ VerifactuTools @@
  GestoriaMessageTools @@ GestoriaTemplateTools @@ GestoriaAgingTools @@
  LeaveTools @@ AttendanceTools @@ AnomalyTools @@ IgicTools @@
  CorporateTaxTools @@ SummaryTools @@ DuplicateInvoiceTools @@
  InvoiceReadTools @@ InvoiceWriteTools @@ InvoiceDeleteTools @@
  InvoiceSendTools @@ InvoiceDocumentTools @@ CreditNoteTools @@
  KitchenTools @@ MenuTools @@ KitchenFlowTools @@ OnboardTools @@
  PayrollTools @@ PermissionTools @@ PortalDomainTools @@ PosReadTools @@
  PosRefundTools @@ ProductTools @@ ProductDeleteTools @@ QuoteTools @@
  QuoteEditTools @@ QuoteSendTools @@ RecurringTools @@
  RecurringActionTools @@ SearchTools @@ ReservationTools @@
  PropertyTools @@ TeamTools @@ TimeTools @@ TimeDeleteTools @@
  VendorReadTools @@ VendorTools @@ WebhookTools @@ WebhookTestTools
==============================================================================
