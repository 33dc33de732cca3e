----------------------------- MODULE ToolSurface -----------------------------
(***************************************************************************)
(* What a host of the server shows of the tool catalogue.  Before the      *)
(* tools are registered, registerMcpSurface wraps server.registerTool once *)
(* per profile, so that every registration passes from the wrapper put on  *)
(* last to the one put on first: the allow-list profiles drop tools and    *)
(* rewrite hints, the capability truth corrects hints, and the grouped     *)
(* exposure records what reaches it in the catalogue that the discovery    *)
(* tools read.  Titles, descriptions, groups, field lists and schemas are  *)
(* left out, except that a schema may require confirm=true.                *)
(***************************************************************************)
EXTENDS Integers, ToolCatalogue, ClientEndpoints

Modes == {"standard", "openai", "claude", "google", "muse"}

(***************************************************************************)
(* A surface: at most one reviewed mode, and grouped exposure or not.      *)
(* registerMcpSurface throws when two modes are on.                        *)
(***************************************************************************)
Surfaces == [mode : Modes, grouped : BOOLEAN]

-----------------------------------------------------------------------------
(* capability-truth.ts *)

RUNTIME_CHECKED ==
  { "anomaly_list", "attendance_clock_in", "attendance_clock_out",
    "frihet_bank_rule_create", "frihet_bank_rules_list",
    "frihet_gl_entry_approve", "frihet_gl_entry_audit_log",
    "frihet_gl_entry_reject", "frihet_portal_domain_add",
    "frihet_portal_domain_remove", "frihet_portal_domain_verify",
    "frihet_portal_onboard_link_generate", "frihet_tax_id_vies_lookup",
    "gestoria_template_create", "get_modelo_130_summary",
    "get_modelo_303_summary", "get_modelo_347_summary",
    "get_modelo_390_summary", "leave_approve", "leave_cancel", "leave_list",
    "leave_reject", "leave_request_create", "overtime_report",
    "payroll_checklist", "payroll_export", "period_close_status",
    "permissions_matrix", "permissions_me", "verifactu_resubmit",
    "verifactu_status", "send_einvoice", "get_einvoice_status",
    "validate_einvoice_xml", "export_datev", "einvoice_export",
    "face_submit", "face_status", "ticketbai_submit", "ticketbai_status" }

DEFERRED ==
  { "period_close", "period_reopen", "gestoria_message_send",
    "gestoria_messages_list", "gestoria_template_bulk_send",
    "gestoria_aging_consolidated", "create_reservation", "sync_channel" }

UNAVAILABLE ==
  { "ksef_submit", "get_modelo_180_summary", "frihet_modelo_415_summary",
    "frihet_modelo_418_summary", "frihet_modelo_425_summary",
    "frihet_aiem_calculate", "frihet_modelo_200_summary",
    "frihet_modelo_202_summary" }

DESTRUCTIVE_UPDATES ==
  { "create_invoice", "duplicate_invoice", "create_credit_note",
    "create_expense", "create_quote", "create_client",
    "log_client_activity", "create_product", "frihet_gl_entry_approve",
    "frihet_gl_entry_reject", "send_einvoice", "categorize_transaction",
    "update_client", "update_deposit", "apply_deposit", "refund_deposit",
    "update_expense", "leave_approve", "leave_reject", "leave_cancel",
    "attendance_clock_out", "update_invoice", "send_invoice",
    "mark_invoice_paid", "update_kitchen_ticket", "update_product",
    "update_quote", "send_quote", "update_recurring_invoice",
    "sync_channel", "update_team_member_role", "update_time_entry",
    "update_vendor", "update_webhook", "match_transaction_to_invoice",
    "verifactu_resubmit", "pause_recurring_invoice",
    "resume_recurring_invoice", "run_recurring_now",
    "frihet_portal_domain_verify", "face_submit", "ticketbai_submit",
    "frihet_portal_domain_add" }

\* Mutant: the updates whose event is delivered once more are not listed.
NON_IDEMPOTENTIncomplete ==
  { "create_invoice", "duplicate_invoice", "create_credit_note",
    "mark_invoice_paid", "delete_invoice", "create_expense", "create_quote",
    "delete_quote", "create_client", "log_client_activity",
    "create_product", "update_vendor", "send_invoice", "send_quote",
    "sync_channel", "verifactu_resubmit", "frihet_portal_domain_verify",
    "pause_recurring_invoice", "resume_recurring_invoice" }

NON_IDEMPOTENT ==
  { "create_invoice", "duplicate_invoice", "create_credit_note",
    "update_invoice", "mark_invoice_paid", "delete_invoice",
    "create_expense", "update_expense", "create_quote", "update_quote",
    "delete_quote", "create_client", "log_client_activity", "update_client",
    "create_product", "update_product", "update_vendor", "send_invoice",
    "send_quote", "sync_channel", "verifactu_resubmit",
    "frihet_portal_domain_verify", "pause_recurring_invoice",
    "resume_recurring_invoice" }

\* Mutant: the verification of a domain is left as the read it is registered as.
WRITE_OVERRIDESIncomplete == { "einvoice_export" }

WRITE_OVERRIDES ==
  { "frihet_portal_domain_verify", "einvoice_export" }

\* The tools with a fiscal_or_einvoice_submission among their effects.
FilingTools ==
  { "create_invoice", "run_recurring_now", "update_invoice",
    "mark_invoice_paid", "delete_invoice", "send_invoice", "send_einvoice",
    "face_submit", "ticketbai_submit", "verifactu_resubmit" }

EXTERNAL_SIDE_EFFECTS == FilingTools \cup
  { "create_invoice", "duplicate_invoice", "create_credit_note",
    "run_recurring_now", "update_invoice", "mark_invoice_paid",
    "delete_invoice", "create_expense", "update_expense", "create_quote",
    "update_quote", "delete_quote", "create_client", "log_client_activity",
    "update_client", "create_product", "update_product", "send_invoice",
    "send_quote", "invite_team_member", "create_webhook", "update_webhook",
    "delete_webhook", "test_webhook", "send_einvoice", "face_submit",
    "face_status", "ticketbai_submit", "verifactu_resubmit",
    "gestoria_message_send", "gestoria_template_bulk_send",
    "frihet_tax_id_vies_lookup", "frihet_portal_domain_add",
    "frihet_portal_domain_verify", "frihet_portal_domain_remove",
    "refund_sale", "sync_channel" }

\* The tools whose external effect is a read or a configuration.
QuietTools ==
  { "create_webhook", "update_webhook", "delete_webhook", "face_status",
    "frihet_tax_id_vies_lookup", "frihet_portal_domain_add",
    "frihet_portal_domain_verify", "frihet_portal_domain_remove" }

\* The others send an event, an email, a filing or money out of the ERP with
\* every write that it accepts.
DeliveringTools == EXTERNAL_SIDE_EFFECTS \ QuietTools

CallabilityFor(name) ==
  CASE name \in UNAVAILABLE -> "unavailable"
    [] name \in DEFERRED \ UNAVAILABLE -> "deferred"
    [] name \in RUNTIME_CHECKED \ (DEFERRED \cup UNAVAILABLE) ->
         "runtime_checked"
    [] OTHER -> "api_dependent"

CorrectToolAnnotations(name, hints) ==
  [ readOnly |-> hints.readOnly /\ name \notin WRITE_OVERRIDES,
    destructive |-> hints.destructive \/ name \in DESTRUCTIVE_UPDATES,
    idempotent |-> hints.idempotent /\ name \notin NON_IDEMPOTENT,
    openWorld |-> hints.openWorld \/ name \in EXTERNAL_SIDE_EFFECTS ]

PublicCapabilityTruth(name, hints) ==
  [ callability |-> CallabilityFor(name), writesFrihet |-> ~hints.readOnly,
    externalInteraction |-> name \in EXTERNAL_SIDE_EFFECTS ]

-----------------------------------------------------------------------------
(* The allow-lists of the reviewed profiles *)

IncludeTools ==
  { "get_business_context", "list_invoices", "get_invoice",
    "search_invoices", "list_expenses", "get_expense", "list_clients",
    "get_client", "list_client_contacts", "list_client_activities",
    "list_client_notes", "list_products", "get_product", "list_quotes",
    "get_quote", "list_vendors", "get_vendor", "create_invoice",
    "create_expense", "create_client", "create_client_contact",
    "log_client_activity", "create_client_note", "create_product",
    "create_quote", "create_vendor", "update_expense", "update_client",
    "update_product", "update_vendor", "delete_client_contact",
    "delete_client_note", "delete_quote" }

ExcludeTools ==
  { "get_quarterly_taxes", "get_invoice_einvoice", "get_invoice_pdf",
    "list_webhooks", "get_webhook", "create_webhook", "update_webhook",
    "delete_webhook", "update_invoice", "mark_invoice_paid",
    "delete_invoice", "send_invoice", "duplicate_invoice",
    "create_credit_note", "delete_expense", "delete_client", "send_quote" }

CLAUDE_CANDIDATE_TOOLS ==
  { "anomaly_list", "apply_deposit", "apply_late_fee",
    "attendance_clock_in", "attendance_clock_out", "categorize_transaction",
    "create_client", "create_client_contact", "create_client_note",
    "create_credit_note", "create_deposit", "create_expense",
    "create_invoice", "create_product", "create_quote",
    "create_recurring_invoice", "create_time_entry", "create_vendor",
    "create_webhook", "delete_client_contact", "delete_client_note",
    "delete_deposit", "delete_invoice", "delete_product", "delete_quote",
    "delete_recurring_invoice", "delete_time_entry", "delete_vendor",
    "delete_webhook", "duplicate_invoice", "frihet_bank_rule_create",
    "frihet_bank_rules_list", "frihet_gl_entry_approve",
    "frihet_gl_entry_audit_log", "frihet_gl_entry_reject",
    "frihet_portal_domain_add", "frihet_portal_domain_remove",
    "frihet_portal_domain_verify", "frihet_portal_onboard_link_generate",
    "frihet_tax_id_vies_lookup", "gestoria_template_create",
    "get_bank_account", "get_business_context", "get_client", "get_deposit",
    "get_expense", "get_invoice", "get_kitchen_ticket",
    "get_modelo_130_summary", "get_modelo_303_summary",
    "get_modelo_347_summary", "get_modelo_390_summary",
    "get_monthly_summary", "get_product", "get_quarterly_taxes",
    "get_quote", "get_recurring_invoice", "get_reservation", "get_sale",
    "get_time_entry", "get_time_summary", "get_vendor", "get_webhook",
    "global_search", "invite_team_member", "kitchen_flow_summary",
    "leave_approve", "leave_cancel", "leave_list", "leave_reject",
    "leave_request_create", "list_bank_accounts", "list_client_activities",
    "list_client_contacts", "list_client_notes", "list_clients",
    "list_deposits", "list_expenses", "list_invoices",
    "list_kitchen_stations", "list_kitchen_tickets", "list_menu_items",
    "list_products", "list_properties", "list_quotes",
    "list_recurring_invoices", "list_reservations", "list_sales",
    "list_team_members", "list_terminals", "list_time_entries",
    "list_transactions", "list_vendors", "list_webhooks",
    "log_client_activity", "mark_invoice_paid",
    "match_transaction_to_invoice", "overtime_report",
    "pause_recurring_invoice", "payroll_checklist", "payroll_export",
    "period_close_status", "permissions_matrix", "permissions_me",
    "refund_deposit", "remove_team_member", "resume_recurring_invoice",
    "run_recurring_now", "search_invoices", "send_invoice", "test_webhook",
    "update_client", "update_deposit", "update_expense", "update_invoice",
    "update_kitchen_ticket", "update_product", "update_quote",
    "update_recurring_invoice", "update_team_member_role",
    "update_time_entry", "update_vendor", "update_webhook",
    "verifactu_resubmit", "verifactu_status" }

GOOGLE_CANDIDATE_TOOLS ==
  { "get_business_context", "get_monthly_summary", "get_quarterly_taxes",
    "list_invoices", "get_invoice", "search_invoices", "list_expenses",
    "get_expense", "create_expense", "list_clients", "get_client",
    "create_client", "list_products", "get_product", "list_quotes",
    "get_quote", "create_quote", "create_invoice" }

MUSE_CANDIDATE_TOOLS ==
  { "get_business_context", "get_monthly_summary", "get_quarterly_taxes",
    "list_invoices", "get_invoice", "search_invoices", "list_expenses",
    "get_expense", "create_expense", "list_clients", "get_client",
    "create_client", "list_products", "get_product", "list_quotes",
    "get_quote", "create_quote", "create_invoice" }

OPENAI_WORKSPACE_WEBHOOK_EVENT_TOOLS ==
  { "create_invoice", "create_expense", "update_expense", "create_quote",
    "delete_quote", "create_client", "update_client", "log_client_activity",
    "create_product", "update_product" }

REVIEWED_PERMANENT_DELETE_TOOLS ==
  { "delete_client_contact", "delete_client_note" }

\* Mutant: a write that was added to the allow-list alone.
REVIEWED_CLOSED_WORLD_WRITE_TOOLSIncomplete ==
  { "create_client_contact", "create_client_note", "update_vendor" }

REVIEWED_CLOSED_WORLD_WRITE_TOOLS ==
  { "create_client_contact", "create_client_note", "create_vendor",
    "update_vendor" }

OPENAI_REVIEW_CONFIRM_REQUIRED_TOOLS ==
  OPENAI_WORKSPACE_WEBHOOK_EVENT_TOOLS \cup REVIEWED_PERMANENT_DELETE_TOOLS
    \cup REVIEWED_CLOSED_WORLD_WRITE_TOOLS

-----------------------------------------------------------------------------
(* Registration *)

(***************************************************************************)
(* A registration on its way to the SDK: the name it is called by, the     *)
(* tool whose handler runs, what the profiles have made of its hints, the  *)
(* capability attached to it and its entry in the discovery catalogue      *)
(* (empty sets when it has none).                                          *)
(***************************************************************************)
Registration(name, operation, hints, capability, entry) ==
  [ name |-> name, operation |-> operation, hints |-> hints,
    capability |-> capability, entry |-> entry ]

RegisterAllTools ==
  { Registration(t, t, Catalogue[t].hints, {}, {}) : t \in DOMAIN Catalogue }

\* Claude, Google and Muse: a call that writes always asks the user.
Prompting(hints) ==
  [hints EXCEPT !.destructive = @ \/ ~hints.readOnly]

AllowListed(regs, names) ==
  { Registration(r.name, r.operation, Prompting(r.hints), r.capability,
                 r.entry) : r \in { q \in regs : q.name \in names } }

OpenAIReviewed(regs) ==
  { Registration(r.name, r.operation,
                 CorrectToolAnnotations(r.name, r.hints), r.capability,
                 r.entry) :
      r \in { q \in regs : q.name \in IncludeTools \ ExcludeTools } }

CapabilityTruthful(regs) ==
  { LET hints == CorrectToolAnnotations(r.name, r.hints)
    IN  Registration(r.name, r.operation, hints,
                     {PublicCapabilityTruth(r.name, hints)}, r.entry) :
      r \in regs }

(***************************************************************************)
(* The exposure records the registrations of its allow-list, all of them   *)
(* when it has none.                                                       *)
(***************************************************************************)
Exposed(regs, names) ==
  { Registration(r.name, r.operation, r.hints, r.capability,
      IF r.name \in names
      THEN {[ hints |-> r.hints, capability |-> r.capability ]}
      ELSE r.entry) : r \in regs }

MetaHints == Hints(TRUE, FALSE, TRUE, FALSE)

\* The discovery tools, registered past the wrappers put on later.
MetaTools ==
  { Registration(t, t, MetaHints,
      {[ callability |-> "local", writesFrihet |-> FALSE,
         externalInteraction |-> FALSE ]}, {}) :
      t \in {"list_tool_groups", "search_tools", "describe_tool"} }

\* The wrappers, and the registrations they do not concern.
AllowListWrapper(s, regs) ==
  CASE s.mode = "claude" -> AllowListed(regs, CLAUDE_CANDIDATE_TOOLS)
    [] s.mode = "google" -> AllowListed(regs, GOOGLE_CANDIDATE_TOOLS)
    [] s.mode = "muse" -> AllowListed(regs, MUSE_CANDIDATE_TOOLS)
    [] OTHER -> regs

CapabilityWrapper(s, regs) ==
  IF s.mode \in {"standard", "claude"} THEN CapabilityTruthful(regs) ELSE regs

ExposureWrapper(s, regs) ==
  CASE s.mode = "openai" -> OpenAIReviewed(regs)
    [] s.mode # "openai" /\ s.grouped ->
         Exposed(regs, IF s.mode = "claude" THEN CLAUDE_CANDIDATE_TOOLS
                       ELSE DOMAIN Catalogue)
    [] OTHER -> regs

\* Mutant: the exposure is put on after the capability truth.
WrappedSwapped(s, regs) ==
  CapabilityWrapper(s, ExposureWrapper(s, AllowListWrapper(s, regs)))

\* The wrapper put on last is the one a registration comes to first.
Wrapped(s, regs) ==
  ExposureWrapper(s, CapabilityWrapper(s, AllowListWrapper(s, regs)))

FISCAL_MODELO_ALIASES ==
  [ frihet_modelo_303_summary |-> "get_modelo_303_summary",
    frihet_modelo_130_summary |-> "get_modelo_130_summary",
    frihet_modelo_390_summary |-> "get_modelo_390_summary",
    frihet_modelo_180_summary |-> "get_modelo_180_summary",
    frihet_modelo_347_summary |-> "get_modelo_347_summary" ]

(***************************************************************************)
(* An alias names the object registered under the canonical name, when     *)
(* there is one and the alias is free.                                     *)
(***************************************************************************)
ApplyFiscalAliases(regs) ==
  regs \cup
  UNION { { Registration(a, r.operation, r.hints, r.capability, {}) :
              r \in { q \in regs : q.name = FISCAL_MODELO_ALIASES[a] } } :
            a \in { b \in DOMAIN FISCAL_MODELO_ALIASES :
                      \A q \in regs : q.name # b } }

\* What the SDK has registered when registerMcpSurface returns.
RegisterMcpSurface(s) ==
  LET meta == IF s.grouped /\ s.mode # "openai" THEN MetaTools ELSE {}
  IN  ApplyFiscalAliases(Wrapped(s, RegisterAllTools) \cup meta)

-----------------------------------------------------------------------------
(* What a host can call *)

BASE_CONFIRM_TOOLS == {"delete_quote"}

PROFILE_INJECTED_CONFIRM_TOOLS ==
  OPENAI_REVIEW_CONFIRM_REQUIRED_TOOLS \ BASE_CONFIRM_TOOLS

DraftOnlyModes == {"openai", "google", "muse"}

\* What search_tools and describe_tool answer of a tool: its catalogue entry.
Described(r) == r.entry

\* PROFILE_FORCED_INPUT_VALUES and its copies: new documents are drafts.
ForcesDraft(mode, operation) ==
  /\ mode \in DraftOnlyModes
  /\ operation \in {"create_invoice", "create_quote"}

\* The requests of a handler, by what the ERP does with them: one that writes
\* adds something each time when the ERP keeps it or sends it out each time.
Sends(operation) ==
  LET steps == Catalogue[operation].sends
      effects(k) == { Endpoints[m].effect : m \in steps[k].methods }
  IN  [ k \in 1..Len(steps) |->
          [ writes |-> effects(k) # {"none"},
            adds |-> \/ "adds" \in effects(k)
                     \/ effects(k) # {"none"} /\ operation \in DeliveringTools,
            forgives |-> steps[k].forgives ] ]

\* The table of unavailable tools has those whose handlers have nothing to call.
UnavailableFits ==
  \A t \in DOMAIN Catalogue : t \in UNAVAILABLE <=> Sends(t) = << >>

\* The catalogue has no tool by the name of a discovery tool.
DiscoveryNamesAreFree ==
  {"list_tool_groups", "search_tools", "describe_tool"} \cap DOMAIN Catalogue = {}

ASSUME CatalogueAssumption == UnavailableFits /\ DiscoveryNamesAreFree

(***************************************************************************)
(* A tool as ToolCalls takes it: what tools/list and describe_tool show of *)
(* it, whether the OpenAI wrapper asks for confirm and hands it on, and    *)
(* what its handler does.                                                  *)
(***************************************************************************)
OfferOf(mode, r) ==
  LET tool == Catalogue[r.operation]
      openai == mode = "openai"
  IN  [ mode |-> mode, name |-> r.name, operation |-> r.operation,
        listed |-> [ hints |-> r.hints, capability |-> r.capability ],
        discovered |-> Described(r),
        asks |-> openai /\ r.name \in OPENAI_REVIEW_CONFIRM_REQUIRED_TOOLS,
        handsConfirm |-> ~(openai /\ r.name \in PROFILE_INJECTED_CONFIRM_TOOLS),
        forcesDraft |-> ForcesDraft(mode, r.name),
        confirm |-> tool.confirm, sends |-> Sends(r.operation),
        on404 |-> tool.on404, refuses |-> tool.refuses,
        files |-> r.operation \in FilingTools,
        vendors |-> r.operation = "create_expense" ]

\* The discovery tools answer from the catalogue and send nothing.
Offers(surfaces) ==
  UNION { { OfferOf(s.mode, r) :
              r \in { q \in RegisterMcpSurface(s) :
                        q.operation \in DOMAIN Catalogue } } : s \in surfaces }

=============================================================================
