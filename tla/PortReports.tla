----------------------------- MODULE PortReports -----------------------------
(* Reports of the Python port: what they are computed from, the file and    *)
(* the record each leaves (webgui/exports.py), the scheduled ones and how   *)
(* they are delivered (webgui/scheduled_reports.py), and the endpoints      *)
(* (webgui/routes/reports.py).  What a report reads, it reads command by    *)
(* command while the agents write; it awaits nothing that waits meanwhile,  *)
(* so that nothing else of the server runs.                                 *)
(*                                                                          *)
(* Data abstracted: a result is the severities of the vulnerabilities it    *)
(* has at its top level, all that a report looks at; wording and layout are *)
(* left out, and a recommendation or finding is a word.  Of a session only  *)
(* the executive summary can be asked for, and its content is modelled.     *)
EXTENDS Integers, Sequences, FiniteSets, FiniteSetsExt

CONSTANTS ReportSessions, \* session ids
          AgentWrites,        \* key -> the results that agents may write there
          Types,          \* names of report types that are asked for
          Channels,       \* sequence of the delivery channels that are configured
          MaxRetries,     \* REPORT_DELIVERY_MAX_RETRIES
          MaxSecond, MaxCustom, MaxRuns, MaxAsked  \* bounds: clock, custom jobs, runs, requests

VARIABLES kept,           \* session -> key -> the result that Redis holds there
          gathering,      \* what the request at hand has read, and of which session
          second,         \* the clock, in the seconds that name reports
          files,          \* file name -> content
          stored,         \* names of the keys report:... that are written
          answered,       \* reports that requests were told of, in their order
          custom,         \* scheduled reports that requests have added
          jobAt, result,  \* where the running job is, and what it has made
          tries,          \* attempts on the channel that is delivered to
          told,           \* channel -> what deliver() has for it
          taken, refused, \* channel -> posts it has accepted, posts that failed
          runs            \* history

reportVars == <<kept, gathering, second, files, stored, answered, custom, jobAt, result,
                tries, told, taken, refused, runs>>
delivering == <<jobAt, result, tries, told, taken, refused, runs>>

-----------------------------------------------------------------------------
(* _collect_session_data: the keys it reads, in its order.  The analyst's   *)
(* report is read twice, and collected under two names.  What it has read   *)
(* is a function of the places in this order.                               *)

Own(agent)  == <<agent, "comprehensive_report">>
Order == <<<<"manager", "report">>, Own("senior"), Own("junior"), Own("analyst"),
           <<"analyst", "security">>, <<"analyst", "performance">>, Own("analyst"),
           Own("security_compliance"), <<"security_compliance", "audit">>, Own("performance"),
           <<"performance", "monitoring">>, <<"performance", "load">>,
           <<"performance", "resilience">>>>

Severe(key, doc) == key \in DOMAIN doc /\ Range(doc[key]) \cap {"critical", "high"} # {}
SevereKeys(doc)  == {key \in Range(Order) : Severe(key, doc)}

\* _calculate_session_metrics: vulnerabilities of those severities, among all results.
Places(got) == UNION {{n} \X (DOMAIN got[n]) : n \in DOMAIN got}
Counted(got, severities) == Cardinality({p \in Places(got) : got[p[1]][p[2]] \in severities})

\* Without metrics the summary fails, and says so. No agent writes a verification or a test
\* plan: there is no overall score, nothing is covered. Scores are no percentages: none is
\* as high as 80. The agents' own recommendations come after these.
Summary(got, whole) ==
  [failed |-> ~whole,
   findings |-> IF ~whole THEN {}
     ELSE {"significant issues", "limited coverage"}
          \cup {w \in {"security concerns", "resilience"} : \E n \in DOMAIN got :
                  Order[n] = IF w = "resilience" THEN <<"performance", w>>
                             ELSE <<"analyst", "security">>},
   recommendations |-> IF ~whole THEN {}
     ELSE {w \in {"address issues", "review warnings", "expand coverage"} :
            CASE w = "address issues" -> Counted(got, {"critical", "high"}) > 0
              [] w = "review warnings" -> Counted(got, {"medium", "low"}) > 5
              [] w = "expand coverage" -> TRUE}]

ReportType == {"executive_summary", "technical_report", "compliance_report",
               "comparison_report", "agent_performance"}
Unread == [failed |-> FALSE, findings |-> {}, recommendations |-> {}]
Content(type, got, whole) ==
  IF type = "executive_summary" THEN Summary(got, whole) ELSE Unread

-----------------------------------------------------------------------------
NoSession == ""     \* the session_id of scheduled reports
Idle == [session |-> NoSession, at |-> 0, got |-> <<>>, whole |-> TRUE,
         severe |-> {}, ever |-> {}]
Free == gathering.session = NoSession     \* no request keeps the server

Init ==
  /\ kept = [s \in ReportSessions |-> <<>>] /\ gathering = Idle /\ second = 1
  /\ files = <<>> /\ stored = {} /\ answered = <<>> /\ custom = {}
  /\ jobAt = "idle" /\ result = "" /\ tries = 0 /\ told = <<>>
  /\ taken = [c \in Range(Channels) |-> 0] /\ refused = taken
  /\ runs = 0

\* An agent writes a result. History: the keys that have listed a severe vulnerability
\* since the request at hand began to read, and those that have at some time.
Leave(s, key, r) ==
  LET doc == [k \in DOMAIN kept[s] \cup {key} |-> IF k = key THEN r ELSE kept[s][k]] IN
  /\ kept' = [kept EXCEPT ![s] = doc]
  /\ gathering' = IF gathering.session # s THEN gathering
       ELSE [gathering EXCEPT !.severe = @ \cap SevereKeys(doc), !.ever = @ \cup SevereKeys(doc)]
  /\ UNCHANGED <<second, files, stored, answered, custom, delivering>>

Tick ==
  /\ second < MaxSecond /\ second' = second + 1
  /\ UNCHANGED <<kept, gathering, files, stored, answered, custom, delivering>>

\* _generate_file: the name has the second and the type. _save_report_metadata
\* cannot write the two enumeration members as JSON: the record and the user's
\* list are never written, and the error is only logged.
Saves == FALSE
FileName(type, s) == [type |-> type, session |-> s, second |-> second]
GenerateFile(type, s, g) ==
  /\ files' = [n \in DOMAIN files \cup {FileName(type, s)} |-> IF n = FileName(type, s)
       THEN [content |-> Content(type, g.got, g.whole), severe |-> g.severe, ever |-> g.ever]
       ELSE files[n]]
  /\ stored' = IF Saves THEN stored \cup {[id |-> <<second, s>>, suffix |-> "metadata"]} ELSE stored

\* POST /reports/generate; its model admits names ReportType does not have (400).
RequestTypes == {"executive_summary", "detailed", "compliance", "security", "performance"}
Generate(type, s) ==
  /\ Free /\ Len(answered) < MaxAsked
  /\ type \in RequestTypes \cap ReportType
  /\ LET severe == SevereKeys(kept[s]) IN
       gathering' = [Idle EXCEPT !.session = s, !.severe = severe, !.ever = severe]
  /\ UNCHANGED <<kept, second, files, stored, answered, custom, delivering>>

\* The next key is read; what is not there is passed over.
Collect ==
  LET g == gathering  n == g.at + 1 IN
  /\ ~Free /\ g.whole /\ g.at < Len(Order)
  /\ gathering' = [g EXCEPT !.at = n, !.got =
       IF Order[n] \notin DOMAIN kept[g.session] THEN @
       ELSE [m \in DOMAIN @ \cup {n} |-> IF m = n THEN kept[g.session][Order[n]] ELSE @[m]]]
  /\ UNCHANGED <<kept, second, files, stored, answered, custom, delivering>>

\* A command that fails ends the collection, be it one of these or of those before and
\* after them, whose data no property is about; what was read is used.
CollectFails ==
  /\ ~Free /\ gathering.whole /\ gathering' = [gathering EXCEPT !.whole = FALSE]
  /\ UNCHANGED <<kept, second, files, stored, answered, custom, delivering>>

Answer ==
  /\ ~Free /\ (gathering.whole => gathering.at = Len(Order))
  /\ LET type == "executive_summary"  s == gathering.session IN
       \/ /\ GenerateFile(type, s, gathering)
          /\ answered' = Append(answered, [id |-> <<second, s>>, name |-> FileName(type, s)])
       \/ UNCHANGED <<files, stored, answered>>     \* it cannot be written (507)
  /\ gathering' = Idle
  /\ UNCHANGED <<kept, second, custom, delivering>>

-----------------------------------------------------------------------------
(* Scheduled reports: of no session, so that what they collect is empty, if *)
(* Redis answers at all.  A type is looked up when a custom job is added,   *)
(* when a standing one runs.                                                *)

ScheduleCustom(type) ==
  /\ Free /\ type \in ReportType     \* otherwise 400
  /\ Cardinality(custom) < MaxCustom
  /\ custom' = custom \cup {type}
  /\ UNCHANGED <<kept, gathering, second, files, stored, answered, delivering>>
RemoveJob(type) ==
  /\ Free /\ type \in custom /\ custom' = custom \ {type}
  /\ UNCHANGED <<kept, gathering, second, files, stored, answered, delivering>>

Standing == {"comprehensive", "compliance"}     \* daily summary, weekly compliance

\* A job runs at most once at a time. Writing its file may fail.
RunJob(type) ==
  /\ Free /\ jobAt = "idle" /\ type \in Standing \cup custom /\ runs < MaxRuns
  /\ \/ /\ type \in ReportType /\ result' = "success"
        /\ \E whole \in BOOLEAN : GenerateFile(type, NoSession, [Idle EXCEPT !.whole = whole])
     \/ result' = "error" /\ UNCHANGED <<files, stored>>
  /\ jobAt' = IF Channels = <<>> THEN "idle" ELSE Channels[1]
  /\ tries' = 0 /\ told' = <<>> /\ runs' = runs + 1
  /\ taken' = [c \in DOMAIN taken |-> 0] /\ refused' = taken'
  /\ UNCHANGED <<kept, gathering, second, answered, custom>>

\* (A mutant: the channels after one that failed are passed over.)
ThenUnlessFailed(c, outcome) ==
  LET k == CHOOSE j \in DOMAIN Channels : Channels[j] = c IN
  /\ told' = [d \in DOMAIN told \cup {c} |-> IF d = c THEN outcome ELSE told[d]]
  /\ jobAt' = IF k = Len(Channels) \/ outcome = "failed" THEN "idle" ELSE Channels[k + 1]
  /\ tries' = 0

Then(c, outcome) ==
  LET k == CHOOSE j \in DOMAIN Channels : Channels[j] = c IN
  /\ told' = [d \in DOMAIN told \cup {c} |-> IF d = c THEN outcome ELSE told[d]]
  /\ jobAt' = IF k = Len(Channels) THEN "idle" ELSE Channels[k + 1]
  /\ tries' = 0

\* An attempt that is answered well ends the channel; the last one that is not
\* does too. The one that receives it may have taken it all the same.
Post(c) ==
  /\ Free /\ jobAt = c
  /\ \/ taken' = [taken EXCEPT ![c] = @ + 1] /\ Then(c, "delivered") /\ UNCHANGED refused
     \/ /\ refused' = [refused EXCEPT ![c] = @ + 1]
        /\ taken' \in {taken, [taken EXCEPT ![c] = @ + 1]}
        /\ IF tries + 1 < MaxRetries THEN tries' = tries + 1 /\ UNCHANGED <<told, jobAt>>
           ELSE Then(c, "failed")
  /\ UNCHANGED <<kept, gathering, second, files, stored, answered, custom, result, runs>>

Next ==
  \/ Tick \/ Collect \/ CollectFails \/ Answer
  \/ \E s \in ReportSessions :
       \/ \E key \in DOMAIN AgentWrites : \E r \in AgentWrites[key] : Leave(s, key, r)
       \/ \E type \in Types : Generate(type, s)
  \/ \E type \in Types \cup Standing : ScheduleCustom(type) \/ RemoveJob(type) \/ RunJob(type)
  \/ \E c \in Range(Channels) : Post(c)

-----------------------------------------------------------------------------
(* Properties *)

\* What deliver() tells of a job is what happened: every channel is told of,
\* "delivered" only if a post was accepted, "failed" only after as many attempts
\* as are allowed, and never more of them (_deliver_webhook, _deliver_slack,
\* _deliver_email).
DeliveryTold ==
  /\ jobAt = "idle" /\ runs > 0 => DOMAIN told = Range(Channels)
  /\ \A c \in DOMAIN told :
       IF told[c] = "delivered" THEN taken[c] > 0 /\ refused[c] < MaxRetries
       ELSE refused[c] = MaxRetries

\* An executive summary that could not read all that Redis holds says so, and claims
\* nothing. Any other asks to address issues if a result that it reads listed a severe
\* vulnerability all the while, and only if one did at some time while it was read
\* (_collect_session_data, _generate_executive_summary).
SevereMentioned == \A n \in DOMAIN files : n.type = "executive_summary" =>
  LET said == files[n].content  asked == "address issues" \in said.recommendations IN
  IF said.failed THEN said.findings = {} /\ said.recommendations = {}
  ELSE (files[n].severe # {} => asked) /\ (asked => files[n].ever # {})
=============================================================================
