---------------------------- MODULE SecurityAudit ----------------------------
(* The security assessment of a site by two agents of the Python port: the  *)
(* analyst's SecurityAssessmentTool (agents/analyst/qa_analyst.py), whose   *)
(* findings a model judges or else the tool itself, and the compliance      *)
(* agent's audit (agents/security_compliance/qa_security_compliance.py). An *)
(* assessment is six requests to the site, which may stop answering between *)
(* any two of them.                                                         *)
(*                                                                          *)
(* Data abstracted: a vulnerability is its severity and its remedy; scores  *)
(* are in hundredths. The six headers other than HSTS count alike.          *)
EXTENDS Integers, Sequences, FiniteSets

CONSTANTS Sites,        \* sites that are assessed
          MaxOutages    \* bound: how often the site stops answering

VARIABLES site, up,
          step,         \* per agent: the check it makes next, or what it does
          got,          \* per agent: the vulnerabilities found so far
          report,       \* per agent: what it reported
          consulted,    \* the compliance level the crew asked a tool for
          deaf,         \* history: checks the site did not answer, per agent
          outages       \* history

auditVars == <<site, up, step, got, report, consulted, deaf, outages>>

Assessors == {"analyst", "compliance"}
Checks  == <<"headers", "tls", "cors", "disclosure", "xss", "listing">>
NoReport == [by |-> "nobody", score |-> 0, risk |-> "none", remedies |-> <<>>,
             overall |-> 0, level |-> "none", areas |-> {}]

NoSite == [none |-> TRUE]

Init ==
  /\ site = NoSite /\ up = TRUE
  /\ step = [a \in Assessors |-> 0] /\ got = [a \in Assessors |-> <<>>]
  /\ report = [a \in Assessors |-> NoReport] /\ consulted = "nothing"
  /\ deaf = [a \in Assessors |-> {}] /\ outages = 0

-----------------------------------------------------------------------------
(* What each check finds, a the agent. The analyst's tool looks at the      *)
(* headers and makes no vulnerability of those that are missing.            *)

Vuln(severity, remedy) == [severity |-> severity, remedy |-> remedy]
Repeat(n, v) == [i \in 1 .. n |-> v]

OtherHeaders == <<"add CSP", "add X-Frame-Options", "add nosniff", "add Referrer-Policy",
                  "add Permissions-Policy",
                  "add X-XSS-Protection">>
\* A header that is missing, or all of them when the request fails.
MissingHeaders(hsts, n) ==
  Repeat(IF hsts THEN 0 ELSE 1, Vuln("high", "add HSTS"))
    \o [i \in 1 .. 6 - n |-> Vuln("medium", OtherHeaders[i])]
\* (A mutant: of a request that fails nothing is found.)
AnalyzeHeadersOnce(a) ==
  IF a = "compliance" /\ up THEN MissingHeaders(site.hsts, site.headers) ELSE <<>>
AnalyzeHeaders(a) ==
  IF a = "analyst" THEN <<>>
  ELSE IF up THEN MissingHeaders(site.hsts, site.headers)
  ELSE MissingHeaders(FALSE, 0)
AssessTls(a) == IF site.tls = "good" /\ up THEN <<>> ELSE <<Vuln("high", "use TLS 1.2")>>
CheckCors == Repeat(IF up /\ site.cors THEN 1 ELSE 0, Vuln("high", "restrict origins"))
CheckInfoDisclosure == Repeat(IF up THEN site.named ELSE 0, Vuln("low", "mask the server"))
EvaluateXss == Repeat(IF up /\ site.xss THEN 1 ELSE 0, Vuln("critical", "encode input"))
EvaluateListing == Repeat(IF up /\ site.listing THEN 1 ELSE 0, Vuln("medium", "disable listing"))

Found(a, check) ==
  CASE check = "headers" -> AnalyzeHeaders(a)
    [] check = "tls" -> AssessTls(a)
    [] check = "cors" -> CheckCors
    [] check = "disclosure" -> CheckInfoDisclosure
    [] check = "xss" -> EvaluateXss
    [] check = "listing" -> EvaluateListing

-----------------------------------------------------------------------------
(* Scores                                                                   *)

Deduction == [critical |-> 15, high |-> 10, medium |-> 5, low |-> 2]
HasSeverity(vs, s) == {i \in DOMAIN vs : vs[i].severity = s}
Deductions(vs) ==
  LET Of(s) == Deduction[s] * Cardinality(HasSeverity(vs, s))
    IN Of("critical") + Of("high") + Of("medium") + Of("low")
SecurityScore(vs) == LET s == 100 - Deductions(vs) IN IF s < 0 THEN 0 ELSE s

\* The sum is of floats: at a half it may come out just below, by the order of
\* the vulnerabilities.
RiskLevels(score) ==
  IF score >= 90 THEN {"low"} ELSE IF score >= 70 THEN {"medium"}
  ELSE IF score > 50 THEN {"high"}
  ELSE IF score = 50 THEN {"high", "critical"} ELSE {"critical"}

\* Most severe first, those of one severity as they were found, and each text once.
Order   == [critical |-> 1, high |-> 2, medium |-> 3, low |-> 4]
Rank(v) == Order[v.severity]
Before(vs, i, j) == Rank(vs[i]) < Rank(vs[j]) \/ (Rank(vs[i]) = Rank(vs[j]) /\ i < j)
FirstOf(vs) == {i \in DOMAIN vs :
                  \A j \in DOMAIN vs : Before(vs, j, i) => vs[j].remedy # vs[i].remedy}
Remedies(vs) ==
  LET first == FirstOf(vs)
      place == [i \in first |-> Cardinality({j \in first : Before(vs, j, i)})]
  IN [n \in 1 .. Cardinality(first) |-> vs[CHOOSE i \in first : place[i] = n - 1].remedy]

Judged(a, risk) ==
  [NoReport EXCEPT !.by = "tool", !.score = SecurityScore(got[a]), !.risk = risk,
                   !.remedies = Remedies(got[a])]

-----------------------------------------------------------------------------
(* The compliance tools answer from tables in which every check passes,     *)
(* whatever the configuration they are given says.                          *)

PassedChecks(n) == [checks |-> n, violations |-> 0]
GdprConsent == PassedChecks(5)
GdprHandling == PassedChecks(4)
GdprErasure == PassedChecks(3)
GdprPortability == PassedChecks(3)
PciPayment == PassedChecks(4)
PciCardholder == PassedChecks(4)
PciEncryption == PassedChecks(3)
Soc2Common == PassedChecks(6)
Soc2Availability == PassedChecks(4)
Soc2Integrity == PassedChecks(3)
Soc2Confidentiality == PassedChecks(4)
Soc2Privacy == PassedChecks(4)
IsoOrganizational == PassedChecks(5)
IsoPeople == PassedChecks(4)
IsoPhysical == PassedChecks(4)
IsoTechnological == PassedChecks(6)
HipaaPrivacy == PassedChecks(5)
HipaaAdmin == PassedChecks(5)
HipaaPhysical == PassedChecks(4)
HipaaTechnical == PassedChecks(5)
HipaaBreach == PassedChecks(3)

Plus(r, s) == [checks |-> r.checks + s.checks, violations |-> r.violations + s.violations]
ComplianceScore(r) == IF r.checks > 0 THEN (100 * (r.checks - r.violations)) \div r.checks ELSE 0
LevelFrom(score, mostly) ==
  IF score >= 95 THEN "compliant" ELSE IF score >= mostly THEN "mostly_compliant"
    ELSE "non_compliant"

Gdpr == Plus(Plus(GdprConsent, GdprHandling), Plus(GdprErasure, GdprPortability))
Pci  == Plus(PciPayment, Plus(PciCardholder, PciEncryption))
Soc2 == Plus(Soc2Common, Plus(Plus(Soc2Availability, Soc2Integrity),
                              Plus(Soc2Confidentiality, Soc2Privacy)))
Iso  == Plus(Plus(IsoOrganizational, IsoPeople), Plus(IsoPhysical, IsoTechnological))
Hipaa == Plus(HipaaPrivacy, Plus(Plus(HipaaAdmin, HipaaPhysical),
                                 Plus(HipaaTechnical, HipaaBreach)))

GdprLevel == LevelFrom(ComplianceScore(Gdpr), 85)
PciLevel  == LevelFrom(ComplianceScore(Pci), 85)
Soc2Level == LevelFrom(ComplianceScore(Soc2), 80)
HipaaLevel == LevelFrom(ComplianceScore(Hipaa), 85)
IsoLevel  == LET s == ComplianceScore(Iso) IN
  IF s >= 95 THEN "certified" ELSE IF s >= 85 THEN "compliant"
    ELSE IF s >= 70 THEN "mostly_compliant" ELSE "non_compliant"
Levels == [gdpr |-> GdprLevel, pci |-> PciLevel, soc2 |-> Soc2Level, iso |-> IsoLevel,
           hipaa |-> HipaaLevel]

\* The model that runs the agent's crew calls which tools it likes.
CrewConsults(standard) ==
  /\ step["compliance"] = 1 /\ consulted = "nothing" /\ consulted' = Levels[standard]
  /\ UNCHANGED <<site, up, step, got, report, deaf, outages>>

\* Four tenths of it are the security, three each of two standards.
OverallScore(security) ==
  (4 * security + 3 * ComplianceScore(Gdpr) + 3 * ComplianceScore(Pci)) \div 10

\* _analyze_cross_compliance: the areas where a weakness touches a standard.
RiskAreas(vs) ==
  (IF \E i \in DOMAIN vs : vs[i].remedy \in {"add HSTS"}
   \cup {OtherHeaders[n] : n \in 1 .. 6} THEN {"privacy_headers"} ELSE {})
    \cup (IF \E i \in DOMAIN vs : vs[i].remedy = "use TLS 1.2" THEN {"tls_encryption"} ELSE {})
    \cup (IF \E i \in DOMAIN vs : vs[i].remedy = "mask the server"
          THEN {"information_disclosure"} ELSE {})

\* The level of the whole audit.
OverallLevel(score) ==
  IF score >= 90 THEN "low" ELSE IF score >= 75 THEN "medium" ELSE IF score >= 60 THEN "high"
    ELSE "critical"

-----------------------------------------------------------------------------
(* Steps. Both agents are given one site.                                   *)

Target(s) ==
  /\ site = NoSite /\ site' = s /\ step' = [a \in Assessors |-> 1]
  /\ UNCHANGED <<up, got, report, consulted, deaf, outages>>

Check(a) ==
  /\ step[a] \in DOMAIN Checks
  /\ got' = [got EXCEPT ![a] = @ \o Found(a, Checks[step[a]])]
  /\ deaf' = IF up \/ (Checks[step[a]] = "tls" /\ site.tls = "none") THEN deaf
             ELSE [deaf EXCEPT ![a] = @ \cup {Checks[step[a]]}]
  /\ step' = [step EXCEPT ![a] = IF @ = Len(Checks) THEN Len(Checks) + 1 ELSE @ + 1]
  \* What the crew said is not used.
  /\ consulted' = IF a = "compliance" THEN "nothing" ELSE consulted
  /\ UNCHANGED <<site, up, report, outages>>

Reports(a, r) ==
  /\ report' = [report EXCEPT ![a] = r] /\ step' = [step EXCEPT ![a] = 100]
  /\ UNCHANGED <<site, up, got, consulted, deaf, outages>>

\* The audit of run_security_compliance_audit.
Audit ==
  /\ step["compliance"] = Len(Checks) + 1
  /\ LET overall == OverallScore(SecurityScore(got["compliance"]))
     IN  \E risk \in RiskLevels(SecurityScore(got["compliance"])) :
           Reports("compliance", [Judged("compliance", risk) EXCEPT
             !.overall = overall, !.level = OverallLevel(overall),
               !.areas = RiskAreas(got["compliance"])])

\* analyze_security_findings is given what the checks found; when it raises, the
\* checks are made again and the tool judges by itself.
ModelJudges ==
  /\ step["analyst"] = Len(Checks) + 1 /\ report["analyst"].by = "nobody"
  /\ \E risk \in {"low", "medium", "high", "critical"} :
       Reports("analyst", [NoReport EXCEPT !.by = "model", !.risk = risk])
ModelFails ==
  /\ step["analyst"] = Len(Checks) + 1 /\ report["analyst"].by = "nobody"
  /\ step' = [step EXCEPT !["analyst"] = 1] /\ got' = [got EXCEPT !["analyst"] = <<>>]
  /\ deaf' = [deaf EXCEPT !["analyst"] = {}]
  /\ report' = [report EXCEPT !["analyst"].by = "tool"]
  /\ UNCHANGED <<site, up, consulted, outages>>
FallbackJudges ==
  /\ step["analyst"] = Len(Checks) + 1 /\ report["analyst"].by = "tool"
  /\ \E risk \in RiskLevels(SecurityScore(got["analyst"])) :
       Reports("analyst", Judged("analyst", risk))

Outage   == site # NoSite /\ up /\ outages < MaxOutages /\ outages' = outages + 1 /\ up' = FALSE
            /\ UNCHANGED <<site, step, got, report, consulted, deaf>>
Recovery == ~up /\ up' = TRUE /\ UNCHANGED <<site, step, got, report, consulted, deaf, outages>>

Next ==
  \/ \E s \in Sites : Target(s)
  \/ \E a \in Assessors : Check(a)
  \/ Audit \/ ModelJudges \/ ModelFails \/ FallbackJudges \/ Outage \/ Recovery
  \/ \E standard \in DOMAIN Levels : CrewConsults(standard)
AuditSpec == Init /\ [][Next]_auditVars

-----------------------------------------------------------------------------
(* Properties *)

Ended(a) == step[a] = 100
ByTool(a) == Ended(a) /\ report[a].by = "tool"

\* Of a site that answers throughout, the two agents' scores differ by its
\* missing headers alone, though each has its own checks and its own sum.
ScoresAgree ==
  outages = 0 /\ ByTool("analyst") /\ ByTool("compliance") =>
    report["analyst"].score = report["compliance"].score + Deductions(MissingHeaders(site.hsts,
                                                                                     site.headers))

\* What silence costs a site, whatever it answers before and after: of either agent that
\* judges by its own checks, the connection that failed takes a tenth off the score
\* (_assess_tls); and the compliance agent, whose first request was not answered, finds a
\* high risk at least (_analyze_headers). The analyst counts no header, its other checks
\* take silence for a pass: it may report 90 and a low risk of a site that was away, where
\* the compliance agent finds a high one. The level of the whole audit may still be medium:
\* its other parts are constant.
SilenceCounted ==
  /\ \A a \in Assessors : ByTool(a) /\ "tls" \in deaf[a] => report[a].score <= 90
  /\ ByTool("compliance") /\ "headers" \in deaf["compliance"]
       => report["compliance"].risk \in {"high", "critical"}

Severities == <<"critical", "high", "medium", "low">>

\* Each remedy is recommended once, and none before one that a more severe
\* finding asks for (_build_recommendations).
RemediesRanked ==
  \A a \in Assessors : ByTool(a) =>
    LET vs == got[a]  rs == report[a].remedies
        asked == {vs[i].remedy : i \in DOMAIN vs}
        worst == [r \in asked |-> CHOOSE n \in 1 .. 4 :
                    /\ \E i \in DOMAIN vs : vs[i] = Vuln(Severities[n], r)
                    /\ \A m \in 1 .. n - 1 : \A i \in DOMAIN vs : vs[i] # Vuln(Severities[m], r)]
    IN /\ {rs[i] : i \in DOMAIN rs} = asked
       /\ \A i, j \in DOMAIN rs : i < j => rs[i] # rs[j] /\ worst[rs[i]] <= worst[rs[j]]
=============================================================================
