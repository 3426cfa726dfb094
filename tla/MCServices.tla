----------------------------- MODULE MCServices -----------------------------
(***************************************************************************)
(* Instances of the services around the ledger: the OTLP receiver,         *)
(* authentication and rate limits, provisioning, migration and readiness.  *)
(* A behaviour runs one part from its initial states to the end. The       *)
(* components, and the properties that are proved of them, come from       *)
(* ServiceProofs.                                                          *)
(***************************************************************************)
EXTENDS ServiceProofs

CONSTANTS Unused

VARIABLES wire_input, wire_stack, wire_counts, wire_verdict

Rec(k, b) == [origin |-> "client", event |-> "start", time |-> "past", valid |-> TRUE,
              key |-> k, body |-> b, stream |-> k % 2]
SpanOf(records) == [resource |-> "codex", scope |-> "client", origin |-> "client",
                    over |-> FALSE, records |-> records]
Good(spans) == [refused |-> FALSE, spans |-> spans]

\* Overlapping sends of one export, and an export whose records conflict with
\* it under two of its keys.
First == Good(<<SpanOf(<<Rec(1, 1), Rec(2, 1)>>), SpanOf(<<Rec(3, 1), Rec(2, 1)>>)>>)
Other == Good(<<SpanOf(<<Rec(1, 2)>>), SpanOf(<<Rec(3, 2)>>), SpanOf(<<Rec(4, 1)>>), SpanOf(<<Rec(2, 1)>>)>>)
Overlapping == <<First, First, Other>>

\* Every kind of span and record, and a request refused at the door.
Strange == Good(<<SpanOf(<<[Rec(1, 1) EXCEPT !.origin = "platform"], Rec(2, 1)>>),
                  [SpanOf(<<Rec(3, 1)>>) EXCEPT !.scope = "platform"],
                  [SpanOf(<<Rec(4, 1)>>) EXCEPT !.resource = "platform"],
                  [SpanOf(<<Rec(5, 1)>>) EXCEPT !.origin = "platform"],
                  [SpanOf(<<Rec(6, 1)>>) EXCEPT !.over = TRUE]>>)
Common == Good(<<SpanOf(<<[Rec(1, 1) EXCEPT !.event = "none"], [Rec(6, 2) EXCEPT !.event = "other"]>>),
                 SpanOf(<<[Rec(1, 1) EXCEPT !.time = "future"], Rec(2, 2), Rec(4, 2)>>),
                 SpanOf(<<[Rec(5, 2) EXCEPT !.valid = FALSE]>>)>>)
Odd == <<Strange, Common, [Common EXCEPT !.refused = TRUE]>>

\* Commands for one producer that race, and commands of two credentials that
\* share a file.
MCCommands == {"reg", "again", "rot", "rev"}
MCKind == [reg |-> "register", again |-> "register", rot |-> "rotate", rev |-> "revoke"]
MCKeyOf == [c \in MCCommands |-> "p"]
MCPathOf == [c \in MCCommands |-> IF c \in {"reg", "rot"} THEN "f" ELSE "stdout"]
MCLife == [c \in MCCommands |-> 1]
FileCommands == {"reg", "mcp", "rev", "poor"}
FileKind == [reg |-> "register", poor |-> "register", mcp |-> "create", rev |-> "revoke_token"]

\* Values of the constants of the components whose properties are proved.
MCRequests == 1..3
MCKeys == 1..6
MCGateRequests == 1..5
MCProducerOf == <<"p", "p", "p", "q", "s">>
MCTokenOf == <<"a", "b", "b">>
MCExpiresAt == [a |-> 9, b |-> 2]
MCHeadOf == [old |-> 2, new |-> 3, twin |-> 3, typo |-> 3]

(* Attributes of every shape, in every container, singular fields twice.   *)

Sc(name) == [name |-> name, is |-> "scalar"]
UnknownField == [name |-> "new", is |-> "unknown"]
Bad == [name |-> "value", is |-> "bad"]
Strings == [name |-> "keys", is |-> "strings"]
Msg(name, message) == [name |-> name, is |-> "message", message |-> message]

Str == <<Sc("string")>>
Nested(values) == <<Msg("array", values)>>
Plain == Msg("attributes", <<Sc("key"), Msg("value", Str)>>)
Shapes == {Plain,
           Msg("attributes", <<Sc("key")>>),
           Msg("attributes", <<Msg("value", Str), Sc("key")>>),
           Msg("attributes", <<Sc("key"), Msg("value", <<Sc("int")>>), UnknownField>>),
           Msg("attributes", <<Sc("key"), Msg("value", Str), Msg("value", Str)>>),
           Msg("attributes", <<Sc("key"), Bad>>),
           Msg("attributes", <<Sc("key"), Msg("value", Nested(<<Msg("values", Str), Msg("values", Str)>>))>>),
           Msg("attributes", <<Sc("key"), Msg("value", Nested(<<Msg("values", Nested(<<Msg("values", Nested(<<>>))>>))>>))>>),
           Msg("attributes", <<Sc("key"), Msg("value", <<Msg("kvlist", <<[Plain EXCEPT !.name = "values"]>>)>>)>>)}
Lists == {<<>>} \cup {<<a>> : a \in Shapes} \cup {<<a, b>> : a \in Shapes, b \in Shapes}

Res(list) == Msg("resource", list)
Span(list, more) == Msg("spans", list \o more)
ScopeSpans(list, spans) == Msg("scope_spans", <<Msg("scope", list)>> \o spans)
MCInputs ==
  {<<Msg("resource_spans", <<Res(l)>> \o t)>> :
     l \in Lists, t \in {<<>>, <<Res(<<Plain>>)>>, <<Res(<<Plain, Plain>>)>>,
                         <<UnknownField, ScopeSpans(<<Plain>>, <<Span(<<>>, <<Strings>>), Span(<<>>, <<>>)>>)>>}}
  \cup {<<Msg("resource_spans", <<ScopeSpans(l, <<Span(<<a>>, m)>>)>>)>> :
          l \in {<<>>, <<Plain, Plain>>, <<Plain, Plain, Plain>>}, a \in Shapes,
          m \in {<<>>, <<Msg("events", <<Plain>>), Msg("links", <<Plain>>)>>,
                 <<Msg("links", <<>>), Msg("links", <<>>)>>,
                 <<Msg("events", <<>>), Msg("events", <<>>)>>}}
  \cup {<<Msg("resource_spans", <<>>), Msg("resource_spans", <<ScopeSpans(<<>>, <<>>), ScopeSpans(<<>>, <<>>)>>),
          Msg("resource_spans", <<>>)>>}

MCLimits == [resources |-> 2, scopes |-> 1, spans |-> 1, records |-> 2, links |-> 1,
             attributes |-> 4, fields |-> 16, objects |-> 6, container |-> 2, value_depth |-> 2]

-----------------------------------------------------------------------------
\* The same components with other bounds: the last attempt and a quarantine,
\* every shape of span and record, cancelled and failed checks, files that are
\* replaced, probes that abandon checks; and the wire scan.
LastExport == INSTANCE OtlpExport WITH
  MaxAttempts <- 2, MaxQuarantines <- 1
ShapedExport == INSTANCE OtlpExport WITH
  ExportOf <- Odd
Wire == INSTANCE WireScan WITH
  input <- wire_input, stack <- wire_stack, counts <- wire_counts, verdict <- wire_verdict,
  Inputs <- MCInputs, Limits <- MCLimits
Admission == INSTANCE McpAccess WITH
  now <- access_now, revokedAt <- access_revokedAt, cache <- access_cache, pc <- access_pc,
  row <- access_row, readAt <- access_readAt, servedAt <- access_servedAt,
  pending <- access_pending, slots <- access_slots, threads <- access_threads,
  audits <- access_audits, cancels <- access_cancels, failures <- access_failures,
  Requests <- 1..5, TokenOf <- <<"a", "a", "b", "nobody", "malformed">>, Scoped <- {"a"},
  ExpiresAt <- [a |-> 9, b |-> 9], MaxQueueDepth <- 1, MaxTime <- 0, MaxCancels <- 2,
  MaxFailures <- 1
TokenFiles == INSTANCE Provisioning WITH
  now <- token_now, row <- token_row, lock <- token_lock, pc <- token_pc,
  moment <- token_moment, file <- token_file, printed <- token_printed, handed <- token_handed,
  committed <- token_committed, faults <- token_faults, swaps <- token_swaps,
  Commands <- FileCommands, Kind <- FileKind, Granted <- FileCommands \ {"poor"},
  KeyOf <- [c \in FileCommands |-> IF c \in {"reg", "poor"} THEN "p" ELSE "t"],
  PathOf <- [c \in FileCommands |-> IF c = "rev" THEN "stdout" ELSE "f"],
  Life <- [c \in FileCommands |-> 1], Keys <- {"p", "t"}, MaxTime <- TokenTime, MaxFaults <- 2,
  MaxSwaps <- 1
Orphans == INSTANCE Readiness WITH
  now <- probe_now, up <- probe_up, inFlight <- probe_inFlight, started <- probe_started,
  task <- probe_task, seen <- probe_seen, orphans <- probe_orphans, joined <- probe_joined,
  arrived <- probe_arrived, answer <- probe_answer, Requests <- {"r1", "r2", "r3"},
  Probes <- 1..3, Checks <- {"pg"}, MaxTime <- 3

\* What the modules assume of their constants.
ASSUME ConstantsLegal == Gate!GateAssumption /\ ExportAssumption /\
         LastExport!ExportAssumption /\ ShapedExport!ExportAssumption /\
         Access!AccessAssumption /\ Admission!AccessAssumption /\ Buckets!RateAssumption /\
         Creds!CommandsAssumption /\ TokenFiles!CommandsAssumption /\
         Migrations!MigrateAssumption /\ Ready!ReadinessAssumption /\
         Orphans!ReadinessAssumption

\* The variables of the components; a component that does not run stays Unused.
GateVars == <<gate_pc, gate_admitted, gate_byProducer, gate_turns, gate_lock, gate_holder,
               gate_slots, gate_cancels>>
ExportVars == <<pc, pending, rejected, attempts, blame, stored, quarantined, failures,
                 quarantines>>
WireVars == <<wire_input, wire_stack, wire_counts, wire_verdict>>
AccessVars == <<access_now, access_revokedAt, access_cache, access_pc, access_row,
                 access_readAt, access_servedAt, access_pending, access_slots, access_threads,
                 access_audits, access_cancels, access_failures>>
RateVars == <<rate_now, rate_buckets, rate_older, rate_lastSweep, rate_exact, rate_dropped,
               rate_hint>>
TokenVars == <<token_now, token_row, token_lock, token_pc, token_moment, token_file,
                token_printed, token_handed, token_committed, token_faults, token_swaps>>
JobVars == <<job_db, job_ran, job_lock, job_pc, job_before, job_work, job_report, job_faults>>
ProbeVars == <<probe_now, probe_up, probe_inFlight, probe_started, probe_task, probe_seen,
                probe_orphans, probe_joined, probe_arrived, probe_answer>>

GateIdle == gate_pc = Unused /\ gate_admitted = Unused /\ gate_byProducer = Unused /\
            gate_turns = Unused /\ gate_lock = Unused /\ gate_holder = Unused /\
            gate_slots = Unused /\ gate_cancels = Unused
ExportIdle == pc = Unused /\ pending = Unused /\ rejected = Unused /\ attempts = Unused /\
              blame = Unused /\ stored = Unused /\ quarantined = Unused /\ failures = Unused /\
              quarantines = Unused
WireIdle == wire_input = Unused /\ wire_stack = Unused /\ wire_counts = Unused /\
            wire_verdict = Unused
AccessIdle == access_now = Unused /\ access_revokedAt = Unused /\ access_cache = Unused /\
              access_pc = Unused /\ access_row = Unused /\ access_readAt = Unused /\
              access_servedAt = Unused /\ access_pending = Unused /\ access_slots = Unused /\
              access_threads = Unused /\ access_audits = Unused /\ access_cancels = Unused /\
              access_failures = Unused
RateIdle == rate_now = Unused /\ rate_buckets = Unused /\ rate_older = Unused /\
            rate_lastSweep = Unused /\ rate_exact = Unused /\ rate_dropped = Unused /\
            rate_hint = Unused
TokenIdle == token_now = Unused /\ token_row = Unused /\ token_lock = Unused /\
             token_pc = Unused /\ token_moment = Unused /\ token_file = Unused /\
             token_printed = Unused /\ token_handed = Unused /\ token_committed = Unused /\
             token_faults = Unused /\ token_swaps = Unused
JobIdle == job_db = Unused /\ job_ran = Unused /\ job_lock = Unused /\ job_pc = Unused /\
           job_before = Unused /\ job_work = Unused /\ job_report = Unused /\
           job_faults = Unused
ProbeIdle == probe_now = Unused /\ probe_up = Unused /\ probe_inFlight = Unused /\
             probe_started = Unused /\ probe_task = Unused /\ probe_seen = Unused /\
             probe_orphans = Unused /\ probe_joined = Unused /\ probe_arrived = Unused /\
             probe_answer = Unused

SuiteVars == <<part, GateVars, ExportVars, WireVars, AccessVars, RateVars, TokenVars, JobVars,
               ProbeVars>>

SuiteInit ==
  /\ part \in {"gate", "otlp", "otlp_last", "otlp_shapes", "wire", "access", "admission",
               "rate", "tokens", "token_files", "migrate", "ready", "orphans"}
  /\ CASE part = "gate" -> Gate!Init
       [] OTHER -> GateIdle
  /\ CASE part = "otlp" -> Init
       [] part = "otlp_last" -> LastExport!Init
       [] part = "otlp_shapes" -> ShapedExport!Init
       [] OTHER -> ExportIdle
  /\ CASE part = "wire" -> Wire!Init
       [] OTHER -> WireIdle
  /\ CASE part = "access" -> Access!Init
       [] part = "admission" -> Admission!Init
       [] OTHER -> AccessIdle
  /\ CASE part = "rate" -> Buckets!Init
       [] OTHER -> RateIdle
  /\ CASE part = "tokens" -> Creds!Init
       [] part = "token_files" -> TokenFiles!Init
       [] OTHER -> TokenIdle
  /\ CASE part = "migrate" -> Migrations!Init
       [] OTHER -> JobIdle
  /\ CASE part = "ready" -> Ready!Init
       [] part = "orphans" -> Orphans!Init
       [] OTHER -> ProbeIdle

GateNext == part = "gate" /\ Gate!Next /\ UNCHANGED <<part, ExportVars, WireVars, AccessVars,
            RateVars, TokenVars, JobVars, ProbeVars>>
ExportNext == part = "otlp" /\ Next /\ UNCHANGED <<part, GateVars, WireVars, AccessVars,
            RateVars, TokenVars, JobVars, ProbeVars>>
LastExportNext == part = "otlp_last" /\ LastExport!Next /\ UNCHANGED <<part, GateVars,
            WireVars, AccessVars, RateVars, TokenVars, JobVars, ProbeVars>>
ShapedExportNext == part = "otlp_shapes" /\ ShapedExport!Next /\ UNCHANGED <<part, GateVars,
            WireVars, AccessVars, RateVars, TokenVars, JobVars, ProbeVars>>
WireNext == part = "wire" /\ Wire!Next /\ UNCHANGED <<part, GateVars, ExportVars, AccessVars,
            RateVars, TokenVars, JobVars, ProbeVars>>
AccessNext == part = "access" /\ Access!Next /\ UNCHANGED <<part, GateVars, ExportVars,
            WireVars, RateVars, TokenVars, JobVars, ProbeVars>>
AdmissionNext == part = "admission" /\ Admission!Next /\ UNCHANGED <<part, GateVars,
            ExportVars, WireVars, RateVars, TokenVars, JobVars, ProbeVars>>
RateNext == part = "rate" /\ Buckets!Next /\ UNCHANGED <<part, GateVars, ExportVars, WireVars,
            AccessVars, TokenVars, JobVars, ProbeVars>>
TokensNext == part = "tokens" /\ Creds!Next /\ UNCHANGED <<part, GateVars, ExportVars,
            WireVars, AccessVars, RateVars, JobVars, ProbeVars>>
TokenFilesNext == part = "token_files" /\ TokenFiles!Next /\ UNCHANGED <<part, GateVars,
            ExportVars, WireVars, AccessVars, RateVars, JobVars, ProbeVars>>
MigrationsNext == part = "migrate" /\ Migrations!Next /\ UNCHANGED <<part, GateVars,
            ExportVars, WireVars, AccessVars, RateVars, TokenVars, ProbeVars>>
ReadyNext == part = "ready" /\ Ready!Next /\ UNCHANGED <<part, GateVars, ExportVars, WireVars,
            AccessVars, RateVars, TokenVars, JobVars>>
OrphansNext == part = "orphans" /\ Orphans!Next /\ UNCHANGED <<part, GateVars, ExportVars,
            WireVars, AccessVars, RateVars, TokenVars, JobVars>>

SuiteNext == GateNext \/ ExportNext \/ LastExportNext \/ ShapedExportNext \/ WireNext \/
             AccessNext \/ AdmissionNext \/ RateNext \/ TokensNext \/ TokenFilesNext \/
             MigrationsNext \/ ReadyNext \/ OrphansNext

SuiteSpec == SuiteInit /\ [][SuiteNext]_SuiteVars

-----------------------------------------------------------------------------
\* What the wire scan bounds, and the properties of the other components where
\* other bounds bite.
\* - A request the wire scan accepts keeps every limit, counted on the
\*   parsed message; one within the limits is accepted; fields that merge on
\*   the wire are bounded as the parser merges them (WireScan).
\* - Nothing of an export is lost silently at the last attempt, and no shape
\*   of span or record lets the platform's own telemetry in.
\* - Slots and audits balance when checks are cancelled and fail.
\* - What credentials and files say agrees when two commands share a file and
\*   another program replaces it.
\* - Abandoned checks stay bounded over three probes.
OtherServiceBounds ==
  /\ part = "wire" => /\ Wire!AcceptedIsCounted
                      /\ Wire!NoFalseRefusal
                      /\ Wire!ParsedContainersBounded
  /\ part = "otlp_last" => LastExport!ExportSound
  /\ part = "otlp_shapes" => ShapedExport!ExportSound
  /\ part = "admission" => Admission!AccessSound
  /\ part = "token_files" => TokenFiles!CredentialsSound
  /\ part = "orphans" => Orphans!OrphansBounded

=============================================================================
