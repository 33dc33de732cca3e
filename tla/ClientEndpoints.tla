--------------------------- MODULE ClientEndpoints ---------------------------
(***************************************************************************)
(* The requests of FrihetClient: for each method of the client the HTTP    *)
(* verb it sends and what the ERP does with the resource it names.  The    *)
(* effect is the ERP's side, which the repository only states in its tool  *)
(* annotations and comments: a request that adds something adds once more  *)
(* every time, one that sets or removes leaves a repeat nothing to do in   *)
(* the ERP itself (what it sends out of the ERP is ToolSurface's).         *)
(* Paths, bodies and the shape of the answers are left out.                *)
(***************************************************************************)
EXTENDS TLC

Endpoint(verb, resource, effect) ==
  [ verb |-> verb, resource |-> resource, effect |-> effect ]

Get(resource) == Endpoint("GET", resource, "none")
\* POST that adds a record, a delivery or a movement each time.
Post(resource) == Endpoint("POST", resource, "adds")
\* POST that puts a record in a state.
Act(resource) == Endpoint("POST", resource, "sets")
\* POST that only computes its answer.
Compute(resource) == Endpoint("POST", resource, "none")
Patch(resource) == Endpoint("PATCH", resource, "sets")
Delete(resource) == Endpoint("DELETE", resource, "removes")

InvoiceEndpoints ==
  [ listInvoices |-> Get("invoices"), getInvoice |-> Get("invoices"),
    createInvoice |-> Post("invoices"), updateInvoice |-> Patch("invoices"),
    deleteInvoice |-> Delete("invoices"), searchInvoices |-> Get("invoices") ]

ExpenseAndClientEndpoints ==
  [ listExpenses |-> Get("expenses"), getExpense |-> Get("expenses"),
    createExpense |-> Post("expenses"), updateExpense |-> Patch("expenses"),
    deleteExpense |-> Delete("expenses"), listClients |-> Get("clients"),
    getClient |-> Get("clients"), createClient |-> Post("clients"),
    updateClient |-> Patch("clients"), deleteClient |-> Delete("clients") ]

ProductAndQuoteEndpoints ==
  [ listProducts |-> Get("products"), getProduct |-> Get("products"),
    createProduct |-> Post("products"), updateProduct |-> Patch("products"),
    deleteProduct |-> Delete("products"), listQuotes |-> Get("quotes"),
    getQuote |-> Get("quotes"), createQuote |-> Post("quotes"),
    updateQuote |-> Patch("quotes"), deleteQuote |-> Delete("quotes") ]

VendorEndpoints ==
  [ listVendors |-> Get("vendors"), getVendor |-> Get("vendors"),
    createVendor |-> Post("vendors"), updateVendor |-> Patch("vendors"),
    deleteVendor |-> Delete("vendors") ]

InvoiceActionEndpoints ==
  [ sendInvoice |-> Post("invoices"), markInvoicePaid |-> Act("invoices"),
    getInvoicePdf |-> Get("invoices"), getInvoiceEInvoice |-> Get("invoices"),
    createCreditNote |-> Post("invoices"), applyLateFee |-> Act("invoices") ]

WebhookAndSearchEndpoints ==
  [ sendQuote |-> Post("quotes"), listWebhooks |-> Get("webhooks"),
    getWebhook |-> Get("webhooks"), createWebhook |-> Post("webhooks"),
    updateWebhook |-> Patch("webhooks"), deleteWebhook |-> Delete("webhooks"),
    globalSearch |-> Get("search") ]

CrmEndpoints ==
  [ listClientContacts |-> Get("contacts"),
    createClientContact |-> Post("contacts"),
    deleteClientContact |-> Delete("contacts"),
    listClientActivities |-> Get("activities"),
    logClientActivity |-> Post("activities"),
    listClientNotes |-> Get("notes"), createClientNote |-> Post("notes"),
    deleteClientNote |-> Delete("notes") ]

DepositEndpoints ==
  [ listDeposits |-> Get("deposits"), getDeposit |-> Get("deposits"),
    createDeposit |-> Post("deposits"), updateDeposit |-> Patch("deposits"),
    deleteDeposit |-> Delete("deposits"), applyDeposit |-> Post("deposits"),
    refundDeposit |-> Post("deposits") ]

EInvoiceEndpoints ==
  [ sendEInvoice |-> Post("einvoice"), getEInvoiceStatus |-> Get("einvoice"),
    validateEInvoiceXml |-> Compute("einvoice"),
    exportDatev |-> Compute("einvoice"), exportEInvoice |-> Act("invoices"),
    faceSubmit |-> Act("invoices"), faceStatus |-> Get("invoices"),
    ticketbaiSubmit |-> Act("invoices"), ticketbaiStatus |-> Get("invoices") ]

HospitalityEndpoints ==
  [ listReservations |-> Get("reservations"),
    getReservation |-> Get("reservations"),
    createReservation |-> Post("reservations"),
    listProperties |-> Get("properties"), syncChannel |-> Act("channels"),
    listTerminals |-> Get("terminals"), getSale |-> Get("sales"),
    listSales |-> Get("sales"), refundSale |-> Post("sales"),
    listKitchenTickets |-> Get("tickets"),
    getKitchenTicket |-> Get("tickets"),
    updateKitchenTicket |-> Patch("tickets"),
    listKitchenStations |-> Get("stations"), listMenuItems |-> Get("menu") ]

BankingAndFiscalEndpoints ==
  [ getBusinessContext |-> Get("context"),
    getMonthlySummary |-> Get("context"),
    getQuarterlyTaxes |-> Get("context"),
    listBankAccounts |-> Get("accounts"), getBankAccount |-> Get("accounts"),
    listTransactions |-> Get("transactions"),
    categorizeTransaction |-> Patch("transactions"),
    matchTransactionToDocument |-> Act("transactions"),
    getFiscalModeloSummary |-> Get("fiscal"),
    getVerifactuStatus |-> Get("verifactu"),
    resubmitVerifactu |-> Act("verifactu"),
    getTicketbaiStatus |-> Get("fiscal") ]

TimeAndRecurringEndpoints ==
  [ listTimeEntries |-> Get("entries"), getTimeEntry |-> Get("entries"),
    createTimeEntry |-> Post("entries"), updateTimeEntry |-> Patch("entries"),
    deleteTimeEntry |-> Delete("entries"), getTimeSummary |-> Get("entries"),
    listRecurringInvoices |-> Get("recurring"),
    getRecurringInvoice |-> Get("recurring"),
    createRecurringInvoice |-> Post("recurring"),
    updateRecurringInvoice |-> Patch("recurring"),
    pauseRecurringInvoice |-> Act("recurring"),
    resumeRecurringInvoice |-> Act("recurring"),
    deleteRecurringInvoice |-> Delete("recurring"),
    runRecurringNow |-> Post("recurring") ]

TeamAndGestoriaEndpoints ==
  [ listTeamMembers |-> Get("members"), inviteTeamMember |-> Post("members"),
    updateTeamMemberRole |-> Patch("members"),
    removeTeamMember |-> Delete("members"),
    sendGestoriaMessage |-> Post("messages"),
    listGestoriaMessages |-> Get("messages"),
    createGestoriaTemplate |-> Post("templates"),
    bulkSendGestoriaTemplate |-> Post("templates"),
    getGestoriaAgingConsolidated |-> Compute("gestoria"),
    approveGLEntry |-> Act("gl"), rejectGLEntry |-> Act("gl"),
    getGLEntryAuditLog |-> Get("gl") ]

PortalAndRuleEndpoints ==
  [ addCustomPortalDomain |-> Post("portal"),
    verifyCustomPortalDomain |-> Act("portal"),
    removeCustomPortalDomain |-> Delete("portal"),
    generatePortalOnboardLink |-> Post("portal"),
    lookupTaxIdViaVIES |-> Get("vies"),
    getIgicModeloSummary |-> Get("fiscal"),
    calculateAiem |-> Compute("fiscal"), getISSummary |-> Get("fiscal"),
    listBankRules |-> Get("rules"), createBankRule |-> Post("rules") ]

HrAndPeriodEndpoints ==
  [ listLeaves |-> Get("leaves"), createLeaveRequest |-> Post("leaves"),
    approveLeave |-> Act("leaves"), rejectLeave |-> Act("leaves"),
    cancelLeave |-> Act("leaves"), attendanceClockIn |-> Post("attendance"),
    attendanceClockOut |-> Patch("attendance"),
    getOvertimeReport |-> Get("attendance"),
    listAnomalies |-> Get("anomalies"), testWebhook |-> Post("webhooks"),
    exportPayroll |-> Get("payroll"), getPayrollChecklist |-> Get("payroll"),
    getPermissionsMatrix |-> Get("permissions"),
    getMyPermissions |-> Get("permissions"),
    getCurrentPeriod |-> Get("periods"), closePeriod |-> Act("periods"),
    reopenPeriod |-> Act("periods") ]

Endpoints ==
  InvoiceEndpoints @@ ExpenseAndClientEndpoints @@
  ProductAndQuoteEndpoints @@ VendorEndpoints @@ InvoiceActionEndpoints @@
  WebhookAndSearchEndpoints @@ CrmEndpoints @@ DepositEndpoints @@
  EInvoiceEndpoints @@ HospitalityEndpoints @@ BankingAndFiscalEndpoints @@
  TimeAndRecurringEndpoints @@ TeamAndGestoriaEndpoints @@
  PortalAndRuleEndpoints @@ HrAndPeriodEndpoints
==============================================================================
