--------------------------- MODULE PortCrewsProofs ---------------------------
(* Proofs about eight parts of the Python port's crews and of what comes of *)
(* them, each beside the others: a crew on a fleet, the fleet's inventory   *)
(* of nodes, the placement of agents, the GPUs of a host, the runs of a     *)
(* server, the alerts, the reports and the audit of a site. Lemmas about an *)
(* instance are for any team of it, so that they hold for both uses of the  *)
(* instance.                                                                *)
EXTENDS MCPortCrews, FiniteSetTheorems, SequenceTheorems, WellFoundedInduction, TLAPS

----------------------------------------------------------------------------
(* A crew on a fleet, for any nodes, agents and placement                   *)

Answers   == {"completed", "failed"}
Verdicts  == {"none", "completed", "partial"}
Documents(team) == [status : {"pending", "running", "completed", "partial"},
                    placed : [team -> {"pending"} \cup Answers]]
Stored(team)    == Documents(team) \cup {NoDoc}
Messages(team)  == [agent : team, seq : Nat, status : {"pending"} \cup Answers,
                    kind : {"task_handoff", "agent_result", "checkpoint"}]

FirstSteps   == {"idle", "hash", "subscribe", "handoff", "run_read", "run_write", "local"}
CollectSteps == {"collect", "health", "health_get"}
LastSteps    == {"final_read", "final_write", "cleanup"}
PromoteSteps == {"promote_read", "promote_write", "promote_load", "promote_sub"}
CrewSteps    == FirstSteps \cup CollectSteps \cup LastSteps \cup PromoteSteps \cup {"done", "dead"}

CrewType(team) ==
  /\ doc \in Stored(team) /\ hash \in [team -> {"absent", "pending"} \cup Answers]
  /\ inbox \in [Nodes -> Seq(Messages(team))] /\ counter \in [Nodes -> Nat]
  /\ pc \in [Nodes -> CrewSteps] /\ copy \in [Nodes -> Stored(team)]
  /\ expected \in [Nodes -> SUBSET team] /\ results \in [Nodes -> [team -> {"none"} \cup Answers]]
  /\ verdict \in [Nodes -> Verdicts] /\ asking \in [Nodes -> SUBSET team]
  /\ checking \in [Nodes -> SUBSET team]
  /\ hpc \in [Nodes -> {"wait", "hash", "read", "write"}]
  /\ hmsg \in [Nodes -> Seq(Messages(team))] /\ hcopy \in [Nodes -> Stored(team)]
  /\ offered \subseteq team /\ work \in [team -> {"none"} \cup Answers] /\ up \subseteq Nodes

\* What a document, read whenever, says of an agent is so, and the hash does not say
\* otherwise; and no document calls the crew completed before it is.
AllCompleted(team) == \A a \in team : work[a] = "completed"
Matches(a, status) == work[a] = status /\ hash[a] \in {"absent", status}
DocTrue(d, team) ==
  d # NoDoc =>
    /\ \A a \in team : d.placed[a] # "pending" => Matches(a, d.placed[a])
    /\ d.status = "completed" => AllCompleted(team)

\* What a listener has to do is about work that is done, and it writes the document
\* after the hash.
AsDone(m) == m.status # "pending" /\ work[m.agent] = m.status
InboxTrue(n) ==
  \A i \in 1..Len(inbox[n]) : inbox[n][i].kind = "agent_result" => AsDone(inbox[n][i])
Listening(n, team) ==
  /\ hpc[n] # "wait" => Len(hmsg[n]) = 1 /\ AsDone(hmsg[n][1])
  /\ hpc[n] \in {"read", "write"} => Matches(hmsg[n][1].agent, hmsg[n][1].status)
  /\ hpc[n] = "write" => hcopy[n] # NoDoc
  /\ DocTrue(hcopy[n], team)

\* A coordinator that collects expects every agent, unless there is no document, which
\* then there never is.
Collecting(n) == pc[n] \in (FirstSteps \ {"idle", "hash"}) \cup CollectSteps \cup LastSteps
                             \cup {"promote_sub"}
Coordinating(n, team) ==
  /\ DocTrue(copy[n], team)
  /\ \A a \in team : results[n][a] = "completed" => work[a] = "completed"
  /\ Collecting(n) => expected[n] = team \/ doc = NoDoc
  /\ pc[n] \in LastSteps => \A a \in expected[n] : results[n][a] # "none"
  /\ pc[n] \in LastSteps => verdict[n] # "none"
  /\ pc[n] \in LastSteps /\ verdict[n] = "completed" => doc = NoDoc \/ AllCompleted(team)
  /\ pc[n] = "dead" => n \notin up

NodeSound(n, team) == InboxTrue(n) /\ Listening(n, team) /\ Coordinating(n, team)

\* How far the first coordinator has come, no agent is past.
Begun(team) ==
  /\ doc = NoDoc => pc[First] \in {"idle", "dead"}
                    /\ \A n \in Nodes : copy[n] = NoDoc /\ hpc[n] # "write"
  /\ pc[First] = "idle" => \A n \in Nodes : pc[n] = "idle"
  /\ pc[First] \in {"idle", "hash", "subscribe"} => offered = {}
  /\ pc[First] \in {"idle", "hash"} => \A a \in team : work[a] = "none"
  /\ pc[First] \in FirstSteps => \A a \in team : Home[a] = First => work[a] = "none"
  /\ \A a \in offered : Home[a] # First

HashTrue(team) == \A a \in team : hash[a] \in {"absent", "pending", work[a]}

CrewInv(team) ==
  /\ CrewType(team) /\ Begun(team) /\ HashTrue(team) /\ DocTrue(doc, team)
  /\ \A n \in Nodes : NodeSound(n, team)

\* Work that is done stays so, and the hash, once it says so, too; a crew without a
\* document gets one before anybody has done anything.
CrewGrows(team) ==
  /\ \A a \in team : work[a] # "none" =>
       /\ work'[a] = work[a]
       /\ hash[a] \in {"absent", work[a]} => hash'[a] \in {"absent", work[a]}
  /\ doc = NoDoc => doc' = NoDoc \/ \A n \in Nodes : pc[n] = "idle"

LEMMA DocKept ==
  ASSUME NEW team, CrewGrows(team), NEW d \in Stored(team), DocTrue(d, team)
  PROVE  DocTrue(d, team)'
BY DEF CrewGrows, Stored, Documents, Answers, DocTrue, Matches, AllCompleted

LEMMA InboxKept ==
  ASSUME NEW team, CrewType(team), CrewGrows(team), NEW n \in Nodes, InboxTrue(n),
         inbox'[n] = inbox[n]
  PROVE  InboxTrue(n)'
<1>1. inbox[n] \in Seq(Messages(team))
  BY DEF CrewType
<1>2. ASSUME NEW i \in 1..Len(inbox[n]) PROVE inbox[n][i] \in Messages(team)
  BY <1>1
<1> QED
  BY <1>1, <1>2 DEF InboxTrue, AsDone, CrewGrows, Messages, Answers

\* A publication, of work that is done if it is a result.
LEMMA DeliveredKept ==
  ASSUME NEW team, CrewType(team), CrewGrows(team), NEW m \in Messages(team),
         inbox' = [n \in Nodes |-> IF n \in sub THEN Append(inbox[n], m) ELSE inbox[n]],
         \A n \in Nodes : InboxTrue(n),
         m.kind = "agent_result" => m.status # "pending" /\ work'[m.agent] = m.status
  PROVE  /\ inbox' \in [Nodes -> Seq(Messages(team))]
         /\ \A n \in Nodes : InboxTrue(n)'
<1>1. ASSUME NEW n \in Nodes
      PROVE  inbox[n] \in Seq(Messages(team)) /\ Append(inbox[n], m) \in Seq(Messages(team))
  BY DEF CrewType
<1>2. inbox' \in [Nodes -> Seq(Messages(team))]
  BY <1>1
<1>3. ASSUME NEW n \in Nodes PROVE InboxTrue(n)'
  <2>1. CASE n \notin sub
    BY <1>3, <2>1, InboxKept
  <2>2. CASE n \in sub
    <3>1. inbox'[n] = Append(inbox[n], m)
      BY <2>2
    <3>2. ASSUME NEW i \in 1..Len(inbox'[n]), inbox'[n][i].kind = "agent_result"
          PROVE  /\ inbox'[n][i].status # "pending"
                 /\ work'[inbox'[n][i].agent] = inbox'[n][i].status
      <4>1. CASE i = Len(inbox[n]) + 1
        BY <1>1, <3>1, <3>2, <4>1
      <4>2. CASE i # Len(inbox[n]) + 1
        <5>1. /\ i \in 1..Len(inbox[n]) /\ inbox'[n][i] = inbox[n][i]
              /\ inbox[n][i] \in Messages(team)
          BY <1>1, <3>1, <4>2
        <5>2. AsDone(inbox[n][i])
          BY <3>2, <5>1 DEF InboxTrue
        <5> QED
          BY <5>1, <5>2 DEF AsDone, CrewGrows, Messages, Answers
      <4> QED
        BY <4>1, <4>2
    <3> QED
      BY <3>2 DEF InboxTrue, AsDone
  <2> QED
    BY <2>1, <2>2
<1> QED
  BY <1>2, <1>3

LEMMA ListeningKept ==
  ASSUME NEW team, CrewType(team), CrewGrows(team), NEW n \in Nodes, Listening(n, team),
         hpc'[n] = hpc[n], hmsg'[n] = hmsg[n], hcopy'[n] = hcopy[n]
  PROVE  Listening(n, team)'
<1>1. hcopy[n] \in Stored(team)
  BY DEF CrewType
<1>2. DocTrue(hcopy[n], team)'
  BY <1>1, DocKept DEF Listening, DocTrue
<1>3. CASE hpc[n] = "wait"
  BY <1>2, <1>3 DEF Listening
<1>4. CASE hpc[n] # "wait"
  <2>1. hmsg[n] \in Seq(Messages(team)) /\ Len(hmsg[n]) = 1
    BY <1>4 DEF CrewType, Listening
  <2>2. hmsg[n][1] \in Messages(team)
    BY <2>1
  <2> QED
    BY <1>2, <1>4, <2>1, <2>2 DEF Listening, AsDone, Matches, CrewGrows, Messages, Answers
<1> QED
  BY <1>3, <1>4

LEMMA CoordinatingKept ==
  ASSUME NEW team, CrewType(team), CrewGrows(team), NEW n \in Nodes, Coordinating(n, team),
         pc'[n] = pc[n], copy'[n] = copy[n], expected'[n] = expected[n],
         results'[n] = results[n], verdict'[n] = verdict[n], up' \subseteq up
  PROVE  Coordinating(n, team)'
<1>1. copy[n] \in Stored(team) /\ results[n] \in [team -> {"none"} \cup Answers]
  BY DEF CrewType
<1>2. DocTrue(copy[n], team)'
  BY <1>1, DocKept DEF Coordinating, DocTrue
<1>3. doc = NoDoc => doc' = NoDoc \/ pc[n] = "idle"
  BY DEF CrewGrows
<1> QED
  BY <1>1, <1>2, <1>3
     DEF Coordinating, CrewGrows, Collecting, LastSteps, CollectSteps, FirstSteps,
                          PromoteSteps, AllCompleted

LEMMA CrewInvInit ==
  ASSUME NEW team \in {Agents, LoneTeam}, NEW marks, Crew(team, marks)!Init
  PROVE  CrewInv(team)
<1>1. CrewType(team)
  BY DEF Crew!Init, CrewType, Stored, CrewSteps, FirstSteps, Answers, Verdicts
<1>2. Begun(team) /\ HashTrue(team) /\ DocTrue(doc, team)
  BY CrewPlaced DEF Crew!Init, Begun, HashTrue, DocTrue
<1>3. \A n \in Nodes : NodeSound(n, team)
  BY DEF Crew!Init, NodeSound, InboxTrue, Listening, Coordinating, Collecting, LastSteps,
         FirstSteps, CollectSteps, DocTrue
<1> QED
  BY <1>1, <1>2, <1>3 DEF CrewInv

LEMMA PublishResultKeeps ==
  ASSUME NEW team \in {Agents, LoneTeam}, NEW marks, CrewInv(team), NEW n \in Nodes, NEW a \in team,
         Crew(team, marks)!PublishResult(n, a)
  PROVE  CrewInv(team)'
<1>1. CrewType(team)'
  <2>1. PICK s \in {"completed", "failed"} :
          /\ work' = [work EXCEPT ![a] = s]
          /\ inbox' = [k \in Nodes |-> IF k \in sub THEN Append(inbox[k],
                [agent |-> a, seq |-> counter[n] + 1, kind |-> "agent_result", status |-> s])
                ELSE inbox[k]]
    BY DEF Crew!PublishResult, Crew!Delivered, Crew!NextSeq
  <2>2. [agent |-> a, seq |-> counter[n] + 1, kind |-> "agent_result", status |-> s] \in Messages(team)
    BY DEF CrewInv, CrewType, Messages, Answers
  <2>3. inbox' \in [Nodes -> Seq(Messages(team))]
    BY <2>1, <2>2 DEF CrewInv, CrewType
  <2>4. counter' \in [Nodes -> Nat] /\ work' \in [team -> {"none"} \cup Answers]
    BY <2>1 DEF CrewInv, CrewType, Answers, Crew!PublishResult, Crew!NextSeq
  <2> QED
    BY <2>3, <2>4 DEF CrewInv, CrewType, Crew!PublishResult, Crew!Delivered, Crew!NextSeq,
        Crew!redis, Crew!listener, Crew!task, Crew!memory
<1>2. CrewGrows(team)
  BY DEF CrewInv, CrewGrows, Begun, CrewType, Crew!PublishResult, Crew!Delivered,
      Crew!NextSeq, Crew!redis, Crew!listener, Crew!task, Crew!memory
<1>3. Begun(team)' /\ HashTrue(team)'
  <2>1. /\ a \in offered /\ work[a] = "none" /\ Home[a] # First
        /\ \A b \in team : b # a => work'[b] = work[b]
        /\ UNCHANGED <<doc, pc, copy, hpc, offered, hash>>
    BY DEF CrewInv, CrewType, Begun, Crew!PublishResult, Crew!Delivered, Crew!NextSeq,
        Crew!redis, Crew!listener, Crew!task, Crew!memory
  <2>2. hash[a] \in {"absent", "pending"}
    BY <2>1 DEF CrewInv, CrewType, HashTrue, Answers
  <2>3. HashTrue(team)'
    BY <2>1, <2>2 DEF CrewInv, HashTrue
  <2>4. Begun(team)'
    BY <2>1 DEF CrewInv, Begun, CrewType
  <2> QED
    BY <2>3, <2>4
<1>4. DocTrue(doc, team)'
  BY <1>2, DocKept DEF CrewInv, CrewType, DocTrue, Crew!PublishResult, Crew!Delivered,
      Crew!NextSeq, Crew!redis, Crew!listener, Crew!task, Crew!memory
<1>5. ASSUME NEW m \in Nodes PROVE InboxTrue(m)'
  <2>1. PICK s \in {"completed", "failed"} :
          /\ work' = [work EXCEPT ![a] = s]
          /\ inbox' = [k \in Nodes |-> IF k \in sub THEN Append(inbox[k],
                [agent |-> a, seq |-> counter[n] + 1, kind |-> "agent_result", status |-> s])
                ELSE inbox[k]]
    BY DEF Crew!PublishResult, Crew!Delivered, Crew!NextSeq
  <2> DEFINE r == [agent |-> a, seq |-> counter[n] + 1, kind |-> "agent_result", status |-> s]
  <2>2. r \in Messages(team)
    BY DEF CrewInv, CrewType, Messages, Answers
  <2>3. r.status # "pending" /\ work'[r.agent] = r.status
    BY <2>1 DEF CrewInv, CrewType
  <2>4. inbox' = [k \in Nodes |-> IF k \in sub THEN Append(inbox[k], r) ELSE inbox[k]]
    BY <2>1
  <2>5. CrewType(team) /\ \A k \in Nodes : InboxTrue(k)
    BY DEF CrewInv, NodeSound
  <2> HIDE DEF r
  <2> QED
    BY <1>2, <1>5, <2>2, <2>3, <2>4, <2>5, DeliveredKept
<1>6. ASSUME NEW m \in Nodes PROVE Listening(m, team)'
  BY <1>2, <1>6, ListeningKept DEF CrewInv, NodeSound, Crew!PublishResult, Crew!Delivered,
      Crew!NextSeq, Crew!redis, Crew!listener, Crew!task, Crew!memory
<1>7. ASSUME NEW m \in Nodes PROVE Coordinating(m, team)'
  BY <1>2, <1>7, CoordinatingKept DEF CrewInv, NodeSound, Crew!PublishResult,
      Crew!Delivered, Crew!NextSeq, Crew!redis, Crew!listener, Crew!task, Crew!memory
<1> QED
  BY <1>1, <1>3, <1>4, <1>5, <1>6, <1>7 DEF CrewInv, NodeSound

LEMMA PublishCheckpointKeeps ==
  ASSUME NEW team \in {Agents, LoneTeam}, NEW marks, CrewInv(team), NEW n \in Nodes, NEW a \in team,
         Crew(team, marks)!PublishCheckpoint(n, a)
  PROVE  CrewInv(team)'
<1>1. CrewType(team)'
  <2>1. n \in Nodes /\ a \in team
    OBVIOUS
  <2> DEFINE r == [agent |-> a, seq |-> counter[n] + 1, kind |-> "checkpoint", status |-> "pending"]
  <2>2. r \in Messages(team)
    BY CrewPlaced DEF CrewInv, CrewType, Messages
  <2>3. inbox' = [k \in Nodes |-> IF k \in sub THEN Append(inbox[k], r) ELSE inbox[k]]
    BY DEF Crew!PublishCheckpoint, Crew!Delivered, Crew!NextSeq
  <2>4. inbox' \in [Nodes -> Seq(Messages(team))]
    BY <2>2, <2>3 DEF CrewInv, CrewType
  <2>5. counter' \in [Nodes -> Nat]
    BY CrewPlaced DEF CrewInv, CrewType, Crew!PublishCheckpoint, Crew!Delivered, Crew!NextSeq
  <2> QED
    BY <2>4, <2>5 DEF CrewInv, CrewType, Crew!PublishCheckpoint, Crew!Delivered,
        Crew!NextSeq, Crew!redis, Crew!listener, Crew!task, Crew!world, Crew!memory
<1>2. CrewGrows(team)
  BY DEF CrewInv, CrewGrows, Begun, CrewType, Crew!PublishCheckpoint, Crew!Delivered,
      Crew!NextSeq, Crew!redis, Crew!listener, Crew!task, Crew!world, Crew!memory
<1>3. Begun(team)' /\ HashTrue(team)'
  BY CrewPlaced DEF CrewInv, Begun, HashTrue, CrewType, NodeSound, Listening,
      Coordinating, FirstSteps, Crew!PublishCheckpoint, Crew!Delivered, Crew!NextSeq,
      Crew!redis, Crew!listener, Crew!task, Crew!world, Crew!memory
<1>4. DocTrue(doc, team)'
  BY <1>2, DocKept DEF CrewInv, CrewType, DocTrue, Crew!PublishCheckpoint, Crew!Delivered,
      Crew!NextSeq, Crew!redis, Crew!listener, Crew!task, Crew!world, Crew!memory
<1>5. ASSUME NEW m \in Nodes PROVE InboxTrue(m)'
  <2>1. n \in Nodes /\ a \in team
    OBVIOUS
  <2> DEFINE r == [agent |-> a, seq |-> counter[n] + 1, kind |-> "checkpoint", status |-> "pending"]
  <2>2. r \in Messages(team)
    BY CrewPlaced DEF CrewInv, CrewType, Messages
  <2>3. inbox' = [k \in Nodes |-> IF k \in sub THEN Append(inbox[k], r) ELSE inbox[k]]
    BY DEF Crew!PublishCheckpoint, Crew!Delivered, Crew!NextSeq
  <2>4. r.kind # "agent_result"
    OBVIOUS
  <2>5. CrewType(team) /\ \A k \in Nodes : InboxTrue(k)
    BY DEF CrewInv, NodeSound
  <2> HIDE DEF r
  <2> QED
    BY <1>2, <1>5, <2>2, <2>3, <2>4, <2>5, DeliveredKept
<1>6. ASSUME NEW m \in Nodes PROVE Listening(m, team)'
  BY <1>2, <1>6, ListeningKept DEF CrewInv, NodeSound, Crew!PublishCheckpoint,
      Crew!Delivered, Crew!NextSeq, Crew!redis, Crew!listener, Crew!task, Crew!world,
      Crew!memory
<1>7. ASSUME NEW m \in Nodes PROVE Coordinating(m, team)'
  BY <1>2, <1>7, CoordinatingKept DEF CrewInv, NodeSound, Crew!PublishCheckpoint,
      Crew!Delivered, Crew!NextSeq, Crew!redis, Crew!listener, Crew!task, Crew!world,
      Crew!memory
<1> QED
  BY <1>1, <1>3, <1>4, <1>5, <1>6, <1>7 DEF CrewInv, NodeSound

LEMMA ReceiveKeeps ==
  ASSUME NEW team \in {Agents, LoneTeam}, NEW marks, CrewInv(team), NEW n \in Nodes,
         Crew(team, marks)!Receive(n)
  PROVE  CrewInv(team)'
<1>a. /\ inbox[n] \in Seq(Messages(team)) /\ inbox[n] # <<>>
      /\ Head(inbox[n]) = inbox[n][1] /\ inbox[n][1] \in Messages(team)
      /\ Tail(inbox[n]) \in Seq(Messages(team)) /\ 1 \in 1..Len(inbox[n])
  BY DEF CrewInv, CrewType, Crew!Receive
<1>b. \/ /\ inbox[n][1].kind = "agent_result"
         /\ results' = [results EXCEPT ![n][inbox[n][1].agent] = inbox[n][1].status]
         /\ hpc' = [hpc EXCEPT ![n] = "hash"] /\ hmsg' = [hmsg EXCEPT ![n] = <<inbox[n][1]>>]
      \/ UNCHANGED <<results, hpc, hmsg>>
  BY <1>a DEF Crew!Receive
<1>c. inbox[n][1].kind = "agent_result" => AsDone(inbox[n][1])
  BY <1>a DEF CrewInv, NodeSound, InboxTrue
<1>1. CrewType(team)'
  <2>4. inbox' \in [Nodes -> Seq(Messages(team))]
    BY <1>a DEF CrewInv, CrewType, Crew!Receive
  <2>5. CASE UNCHANGED <<results, hpc, hmsg>>
    BY <2>4, <2>5 DEF CrewInv, CrewType, Crew!Receive, Crew!IsDuplicate, Crew!redis,
        Crew!world
  <2>6. CASE ~UNCHANGED <<results, hpc, hmsg>>
    <3>1. /\ inbox[n][1].agent \in team /\ inbox[n][1].status \in Answers
          /\ <<inbox[n][1]>> \in Seq(Messages(team))
      BY <1>a, <1>b, <1>c, <2>6 DEF Messages, AsDone
    <3>2. [results[n] EXCEPT ![inbox[n][1].agent] = inbox[n][1].status] \in [team -> {"none"} \cup Answers]
      BY <3>1 DEF CrewInv, CrewType
    <3>3. results' \in [Nodes -> [team -> {"none"} \cup Answers]]
      BY <1>b, <2>6, <3>2 DEF CrewInv, CrewType
    <3>4. /\ hpc' \in [Nodes -> {"wait", "hash", "read", "write"}]
          /\ hmsg' \in [Nodes -> Seq(Messages(team))]
      <4>1. hpc' = [hpc EXCEPT ![n] = "hash"] /\ hmsg' = [hmsg EXCEPT ![n] = <<inbox[n][1]>>]
        BY <1>b, <2>6
      <4>2. /\ hpc \in [Nodes -> {"wait", "hash", "read", "write"}]
            /\ hmsg \in [Nodes -> Seq(Messages(team))]
        BY DEF CrewInv, CrewType
      <4> QED
        BY <3>1, <4>1, <4>2
    <3> QED
      BY <2>4, <3>3, <3>4 DEF CrewInv, CrewType, Crew!Receive, Crew!IsDuplicate,
          Crew!redis, Crew!world
  <2> QED
    BY <2>5, <2>6
<1>2. CrewGrows(team)
  BY DEF CrewInv, CrewGrows, Begun, CrewType, Crew!Receive, Crew!IsDuplicate, Crew!redis,
      Crew!world
<1>3. Begun(team)' /\ HashTrue(team)'
  BY CrewPlaced DEF CrewInv, Begun, HashTrue, CrewType, NodeSound, Listening,
      Coordinating, FirstSteps, Crew!Receive, Crew!IsDuplicate, Crew!redis, Crew!world
<1>4. DocTrue(doc, team)'
  BY <1>2, DocKept DEF CrewInv, CrewType, DocTrue, Crew!Receive, Crew!IsDuplicate,
      Crew!redis, Crew!world
<1>5. ASSUME NEW m \in Nodes PROVE InboxTrue(m)'
  <2>1. CASE m # n
    BY <1>2, <1>5, <2>1, InboxKept DEF CrewInv, CrewType, NodeSound, Crew!Receive
  <2>2. CASE m = n
    <3>1. inbox[n] \in Seq(Messages(team)) /\ inbox[n] # <<>> /\ inbox'[n] = Tail(inbox[n])
      BY DEF CrewInv, CrewType, Crew!Receive
    <3>2. ASSUME NEW i \in 1..Len(inbox'[n])
          PROVE  /\ i + 1 \in 1..Len(inbox[n]) /\ inbox'[n][i] = inbox[n][i + 1]
      BY <3>1
    <3>3. UNCHANGED work
      BY DEF Crew!Receive, Crew!world
    <3> QED
      BY <2>2, <3>2, <3>3 DEF CrewInv, NodeSound, InboxTrue, AsDone
  <2> QED
    BY <2>1, <2>2
<1>6. ASSUME NEW m \in Nodes PROVE Listening(m, team)'
  <2>1. CASE m # n
    BY <1>2, <1>6, <2>1, ListeningKept DEF CrewInv, NodeSound, CrewType, Crew!Receive,
        Crew!IsDuplicate, Crew!redis, Crew!world
  <2>2. CASE m = n
    <3>4. hpc[n] = "wait" /\ UNCHANGED <<work, hash, hcopy>> /\ hpc \in [Nodes -> {"wait", "hash", "read", "write"}]
          /\ hmsg \in [Nodes -> Seq(Messages(team))] /\ hcopy[n] \in Stored(team)
      BY DEF CrewInv, CrewType, Crew!Receive, Crew!redis, Crew!world
    <3>5. DocTrue(hcopy[n], team)'
      BY <1>2, <3>4, DocKept DEF CrewInv, NodeSound, Listening, DocTrue
    <3>6. \/ hpc'[n] = "wait"
          \/ hpc'[n] = "hash" /\ hmsg'[n] = <<inbox[n][1]>> /\ AsDone(inbox[n][1])
      BY <1>b, <1>c, <3>4
    <3>7. CASE hpc'[n] = "wait"
      BY <2>2, <3>5, <3>7 DEF Listening
    <3>8. CASE hpc'[n] = "hash" /\ hmsg'[n] = <<inbox[n][1]>> /\ AsDone(inbox[n][1])
      <4>1. Len(hmsg'[n]) = 1 /\ hmsg'[n][1] = inbox[n][1]
        BY <3>8
      <4>2. hmsg'[n][1].status # "pending" /\ work'[hmsg'[n][1].agent] = hmsg'[n][1].status
        BY <3>4, <3>8, <4>1 DEF AsDone
      <4> QED
        BY <2>2, <3>5, <3>8, <4>1, <4>2 DEF Listening, AsDone
    <3> QED
      BY <3>6, <3>7, <3>8
  <2> QED
    BY <2>1, <2>2
<1>7. ASSUME NEW m \in Nodes PROVE Coordinating(m, team)'
  <2>1. CASE m # n
    BY <1>2, <1>7, <2>1, CoordinatingKept DEF CrewInv, NodeSound, CrewType, Crew!Receive,
        Crew!IsDuplicate, Crew!redis, Crew!world
  <2>2. CASE m = n
    <3>4. /\ UNCHANGED <<doc, work, hash, up, copy, pc, expected, verdict>>
          /\ copy[n] \in Stored(team) /\ results[n] \in [team -> {"none"} \cup Answers]
          /\ results \in [Nodes -> [team -> {"none"} \cup Answers]]
      BY DEF CrewInv, CrewType, Crew!Receive, Crew!redis, Crew!world
    <3>5. DocTrue(copy[n], team)'
      BY <1>2, <3>4, DocKept DEF CrewInv, NodeSound, Coordinating, DocTrue
    <3>6. ASSUME NEW a \in team
          PROVE  results'[n][a] = results[n][a] \/ (results'[n][a] # "none" /\ results'[n][a] = work[a])
      BY <1>a, <1>b, <1>c, <3>4 DEF AsDone, Messages, Answers
    <3> QED
      BY <2>2, <3>4, <3>5, <3>6
         DEF CrewInv, NodeSound, Coordinating, Collecting, AllCompleted, CrewType
  <2> QED
    BY <2>1, <2>2
<1> QED
  BY <1>1, <1>3, <1>4, <1>5, <1>6, <1>7 DEF CrewInv, NodeSound

LEMMA UpdateHashKeeps ==
  ASSUME NEW team \in {Agents, LoneTeam}, NEW marks, CrewInv(team), NEW n \in Nodes,
         Crew(team, marks)!UpdateHash(n)
  PROVE  CrewInv(team)'
<1>a. /\ Len(hmsg[n]) = 1 /\ AsDone(hmsg[n][1]) /\ hmsg[n][1] \in Messages(team)
      /\ hpc[n] = "hash" /\ hash \in [team -> {"absent", "pending"} \cup Answers]
  BY DEF CrewInv, CrewType, NodeSound, Listening, Crew!UpdateHash
<1>b. hash' = [hash EXCEPT ![hmsg[n][1].agent] = IF @ = "absent" THEN @ ELSE hmsg[n][1].status]
  BY DEF Crew!UpdateHash
<1>c. /\ hmsg[n][1].agent \in team /\ hmsg[n][1].status \in Answers
      /\ work[hmsg[n][1].agent] = hmsg[n][1].status
  BY <1>a DEF AsDone, Messages
<1>d. /\ \A b \in team : b # hmsg[n][1].agent => hash'[b] = hash[b]
      /\ hash'[hmsg[n][1].agent] \in {"absent", hmsg[n][1].status}
      /\ UNCHANGED <<doc, work, pc, copy, offered>>
  BY <1>a, <1>b, <1>c DEF Crew!UpdateHash, Crew!task, Crew!memory, Crew!world
<1>1. CrewType(team)'
  <2>5. hash' \in [team -> {"absent", "pending"} \cup Answers]
    BY <1>a, <1>b, <1>c
  <2> QED
    BY <2>5 DEF CrewInv, CrewType, Crew!UpdateHash, Crew!relay, Crew!task, Crew!world,
        Crew!memory
<1>2. CrewGrows(team)
  <2> QED
    BY <1>c, <1>d DEF CrewGrows
<1>3. Begun(team)' /\ HashTrue(team)'
  <2>5. HashTrue(team)'
    BY <1>c, <1>d DEF CrewInv, HashTrue
  <2>6. hpc' = [hpc EXCEPT ![n] = "read"]
    BY DEF Crew!UpdateHash
  <2>7. Begun(team)'
    BY <1>d, <2>6 DEF CrewInv, CrewType, Begun
  <2> QED
    BY <2>5, <2>7
<1>4. DocTrue(doc, team)'
  BY <1>2, DocKept DEF CrewInv, CrewType, DocTrue, Crew!UpdateHash, Crew!relay, Crew!task,
      Crew!world, Crew!memory
<1>5. ASSUME NEW m \in Nodes PROVE InboxTrue(m)'
  BY <1>2, <1>5, InboxKept DEF CrewInv, NodeSound, Crew!UpdateHash, Crew!relay, Crew!task,
      Crew!world, Crew!memory
<1>6. ASSUME NEW m \in Nodes PROVE Listening(m, team)'
  <2>1. CASE m # n
    BY <1>2, <1>6, <2>1, ListeningKept DEF CrewInv, NodeSound, CrewType, Crew!UpdateHash,
        Crew!relay, Crew!task, Crew!world, Crew!memory
  <2>2. CASE m = n
    <3>5. hpc'[n] = "read" /\ hmsg'[n] = hmsg[n] /\ hcopy'[n] = hcopy[n] /\ hcopy[n] \in Stored(team)
      BY DEF CrewInv, CrewType, Crew!UpdateHash
    <3>6. DocTrue(hcopy[n], team)'
      BY <1>2, <3>5, DocKept DEF CrewInv, NodeSound, Listening, DocTrue
    <3> QED
      BY <2>2, <1>a, <1>c, <1>d, <3>5, <3>6 DEF Listening, AsDone, Matches
  <2> QED
    BY <2>1, <2>2
<1>7. ASSUME NEW m \in Nodes PROVE Coordinating(m, team)'
  BY <1>2, <1>7, CoordinatingKept DEF CrewInv, NodeSound, Crew!UpdateHash, Crew!relay,
      Crew!task, Crew!world, Crew!memory
<1> QED
  BY <1>1, <1>3, <1>4, <1>5, <1>6, <1>7 DEF CrewInv, NodeSound

LEMMA UpdateReadKeeps ==
  ASSUME NEW team \in {Agents, LoneTeam}, NEW marks, CrewInv(team), NEW n \in Nodes,
         Crew(team, marks)!UpdateRead(n)
  PROVE  CrewInv(team)'
<1>1. CrewType(team)'
  BY CrewPlaced DEF CrewInv, CrewType, Stored, Documents, Messages, CrewSteps, FirstSteps,
      CollectSteps, LastSteps, PromoteSteps, Answers, Verdicts, Crew!UpdateRead,
      Crew!redis, Crew!relay, Crew!task, Crew!world, Crew!memory
<1>2. CrewGrows(team)
  BY DEF CrewInv, CrewGrows, Begun, CrewType, Crew!UpdateRead, Crew!redis, Crew!relay,
      Crew!task, Crew!world, Crew!memory
<1>3. Begun(team)' /\ HashTrue(team)'
  BY CrewPlaced DEF CrewInv, Begun, HashTrue, CrewType, NodeSound, Listening,
      Coordinating, FirstSteps, Crew!UpdateRead, Crew!redis, Crew!relay, Crew!task,
      Crew!world, Crew!memory
<1>4. DocTrue(doc, team)'
  BY <1>2, DocKept DEF CrewInv, CrewType, DocTrue, Crew!UpdateRead, Crew!redis,
      Crew!relay, Crew!task, Crew!world, Crew!memory
<1>5. ASSUME NEW m \in Nodes PROVE InboxTrue(m)'
  BY <1>2, <1>5, InboxKept DEF CrewInv, NodeSound, Crew!UpdateRead, Crew!redis,
      Crew!relay, Crew!task, Crew!world, Crew!memory
<1>6. ASSUME NEW m \in Nodes PROVE Listening(m, team)'
  <2>1. CASE m # n
    BY <1>2, <1>6, <2>1, ListeningKept DEF CrewInv, NodeSound, CrewType, Crew!UpdateRead,
        Crew!redis, Crew!relay, Crew!task, Crew!world, Crew!memory
  <2>2. CASE m = n
    <3>1. /\ hpc[n] = "read" /\ hcopy'[n] = doc /\ hmsg'[n] = hmsg[n] /\ doc \in Stored(team)
          /\ hpc'[n] = (IF doc = NoDoc THEN "wait" ELSE "write")
          /\ UNCHANGED <<doc, hash, work>>
      BY DEF CrewInv, CrewType, Crew!UpdateRead, Crew!redis, Crew!world
    <3>2. DocTrue(hcopy[n], team)'
      BY <3>1 DEF CrewInv, DocTrue, Matches, AllCompleted
    <3>3. Len(hmsg[n]) = 1 /\ AsDone(hmsg[n][1]) /\ Matches(hmsg[n][1].agent, hmsg[n][1].status)
      BY <3>1 DEF CrewInv, NodeSound, Listening
    <3>4. /\ Len(hmsg'[n]) = 1 /\ hmsg'[n][1].status # "pending"
          /\ work'[hmsg'[n][1].agent] = hmsg'[n][1].status
          /\ hash'[hmsg'[n][1].agent] \in {"absent", hmsg'[n][1].status}
      BY <3>1, <3>3 DEF AsDone, Matches
    <3>5. hpc'[n] = "write" => hcopy'[n] # NoDoc
      BY <3>1
    <3> QED
      BY <2>2, <3>2, <3>4, <3>5 DEF Listening, AsDone, Matches
  <2> QED
    BY <2>1, <2>2
<1>7. ASSUME NEW m \in Nodes PROVE Coordinating(m, team)'
  BY <1>2, <1>7, CoordinatingKept DEF CrewInv, NodeSound, Crew!UpdateRead, Crew!redis,
      Crew!relay, Crew!task, Crew!world, Crew!memory
<1> QED
  BY <1>1, <1>3, <1>4, <1>5, <1>6, <1>7 DEF CrewInv, NodeSound

LEMMA UpdateWriteKeeps ==
  ASSUME NEW team \in {Agents, LoneTeam}, NEW marks, CrewInv(team), NEW n \in Nodes,
         Crew(team, marks)!UpdateWrite(n)
  PROVE  CrewInv(team)'
<1>a. /\ hpc[n] = "write" /\ hcopy[n] \in Documents(team) /\ DocTrue(hcopy[n], team)
      /\ hmsg[n] \in Seq(Messages(team)) /\ hcopy[n] # NoDoc
      /\ Len(hmsg[n]) = 1 /\ AsDone(hmsg[n][1]) /\ hmsg[n][1] \in Messages(team)
      /\ Matches(hmsg[n][1].agent, hmsg[n][1].status)
  BY DEF CrewInv, CrewType, NodeSound, Listening, Stored, Crew!UpdateWrite
<1>b. /\ doc' = [hcopy[n] EXCEPT !.placed[hmsg[n][1].agent] = hmsg[n][1].status]
      /\ hpc' = [hpc EXCEPT ![n] = "wait"] /\ hmsg' = [hmsg EXCEPT ![n] = <<>>]
      /\ hcopy' = [hcopy EXCEPT ![n] = NoDoc] /\ UNCHANGED <<hash, work, pc, copy, offered>>
  BY DEF Crew!UpdateWrite, Crew!task, Crew!memory, Crew!world
<1>c. /\ hmsg[n][1].agent \in team /\ hmsg[n][1].status \in Answers
  BY <1>a DEF AsDone, Messages
<1>d. doc' \in Documents(team) /\ doc' # NoDoc
  BY <1>a, <1>b, <1>c, CrewDocuments DEF Documents, Answers
<1>1. CrewType(team)'
  <2>5. /\ hpc' \in [Nodes -> {"wait", "hash", "read", "write"}]
        /\ hcopy' \in [Nodes -> Stored(team)]
    BY <1>b DEF CrewInv, CrewType, Stored
  <2>6. hmsg' \in [Nodes -> Seq(Messages(team))]
    BY <1>b DEF CrewInv, CrewType
  <2>7. doc' \in Stored(team)
    BY <1>d DEF Stored
  <2> QED
    BY <2>5, <2>6, <2>7 DEF CrewInv, CrewType, Crew!UpdateWrite, Crew!relay, Crew!task,
        Crew!memory, Crew!world
<1>2. CrewGrows(team)
  BY DEF CrewInv, CrewGrows, Begun, CrewType, Crew!UpdateWrite, Crew!relay, Crew!task,
      Crew!world, Crew!memory
<1>3. Begun(team)' /\ HashTrue(team)'
  <2>5. HashTrue(team)'
    BY <1>b DEF CrewInv, HashTrue
  <2>6. Begun(team)'
    BY <1>b, <1>d DEF CrewInv, CrewType, Begun
  <2> QED
    BY <2>5, <2>6
<1>4. DocTrue(doc, team)'
  <2>5. /\ doc'.status = hcopy[n].status
        /\ doc'.placed[hmsg[n][1].agent] = hmsg[n][1].status
        /\ \A b \in team : b # hmsg[n][1].agent => doc'.placed[b] = hcopy[n].placed[b]
    BY <1>a, <1>b, <1>c DEF Documents
  <2>6. ASSUME NEW b \in team, doc'.placed[b] # "pending"
        PROVE  work[b] = doc'.placed[b] /\ hash[b] \in {"absent", doc'.placed[b]}
    BY <1>a, <2>5, <2>6 DEF DocTrue, Matches
  <2>7. doc'.status = "completed" => AllCompleted(team)
    BY <1>a, <2>5 DEF DocTrue
  <2> QED
    BY <1>b, <2>6, <2>7 DEF DocTrue, Matches, AllCompleted
<1>5. ASSUME NEW m \in Nodes PROVE InboxTrue(m)'
  BY <1>2, <1>5, InboxKept DEF CrewInv, NodeSound, Crew!UpdateWrite, Crew!relay,
      Crew!task, Crew!world, Crew!memory
<1>6. ASSUME NEW m \in Nodes PROVE Listening(m, team)'
  <2>1. CASE m # n
    BY <1>2, <1>6, <2>1, ListeningKept DEF CrewInv, NodeSound, CrewType, Crew!UpdateWrite,
        Crew!relay, Crew!task, Crew!world, Crew!memory
  <2>2. CASE m = n
    BY <1>2, <2>2, DocKept DEF CrewInv, NodeSound, Listening, DocTrue, CrewType, Stored,
        Documents, Messages, CrewSteps, FirstSteps, CollectSteps, LastSteps, PromoteSteps,
        Answers, Verdicts, Crew!UpdateWrite, Crew!relay, Crew!task, Crew!world,
        Crew!memory
  <2> QED
    BY <2>1, <2>2
<1>7. ASSUME NEW m \in Nodes PROVE Coordinating(m, team)'
  BY <1>2, <1>7, CoordinatingKept DEF CrewInv, NodeSound, Crew!UpdateWrite, Crew!relay,
      Crew!task, Crew!world, Crew!memory
<1> QED
  BY <1>1, <1>3, <1>4, <1>5, <1>6, <1>7 DEF CrewInv, NodeSound

LEMMA CreateStateKeeps ==
  ASSUME NEW team \in {Agents, LoneTeam}, NEW marks, CrewInv(team),
         Crew(team, marks)!CreateState
  PROVE  CrewInv(team)'
<1>1. CrewType(team)'
  BY CrewPlaced DEF CrewInv, CrewType, Stored, Documents, Messages, CrewSteps, FirstSteps,
      CollectSteps, LastSteps, PromoteSteps, Answers, Verdicts, Crew!CreateState,
      Crew!Goto, Crew!At, Crew!relay, Crew!listener, Crew!memory, Crew!world
<1>2. CrewGrows(team)
  BY DEF CrewInv, CrewGrows, Begun, CrewType, Crew!CreateState, Crew!Goto, Crew!At,
      Crew!relay, Crew!listener, Crew!memory, Crew!world
<1>3. Begun(team)' /\ HashTrue(team)'
  <2>1. /\ pc[First] = "idle" /\ pc' = [pc EXCEPT ![First] = "hash"]
        /\ doc' = [status |-> "pending", placed |-> [a \in team |-> "pending"]]
        /\ UNCHANGED <<hash, work, offered>>
    BY DEF Crew!CreateState, Crew!At, Crew!Goto, Crew!world
  <2>2. doc' # NoDoc
    BY <2>1, CrewDocuments
  <2>3. HashTrue(team)'
    BY <2>1 DEF CrewInv, HashTrue
  <2>4. Begun(team)'
    BY <2>1, <2>2, CrewPlaced DEF CrewInv, CrewType, Begun, FirstSteps
  <2> QED
    BY <2>3, <2>4
<1>4. DocTrue(doc, team)'
  BY <1>2, DocKept DEF CrewInv, CrewType, DocTrue, Crew!CreateState, Crew!Goto, Crew!At,
      Crew!relay, Crew!listener, Crew!memory, Crew!world
<1>5. ASSUME NEW m \in Nodes PROVE InboxTrue(m)'
  BY <1>2, <1>5, InboxKept DEF CrewInv, NodeSound, Crew!CreateState, Crew!Goto, Crew!At,
      Crew!relay, Crew!listener, Crew!memory, Crew!world
<1>6. ASSUME NEW m \in Nodes PROVE Listening(m, team)'
  BY <1>2, <1>6, ListeningKept DEF CrewInv, NodeSound, Crew!CreateState, Crew!Goto,
      Crew!At, Crew!relay, Crew!listener, Crew!memory, Crew!world
<1>7. ASSUME NEW m \in Nodes PROVE Coordinating(m, team)'
  <2>1. CASE m # First
    BY <1>2, <1>7, <2>1, CoordinatingKept DEF CrewInv, NodeSound, CrewType,
        Crew!CreateState, Crew!Goto, Crew!At, Crew!relay, Crew!listener, Crew!memory,
        Crew!world
  <2>2. CASE m = First
    BY <1>2, <2>2, DocKept DEF CrewInv, NodeSound, Coordinating, Collecting, DocTrue,
        CrewGrows, AllCompleted, Begun, CrewType, Stored, Documents, Messages, CrewSteps,
        FirstSteps, CollectSteps, LastSteps, PromoteSteps, Answers, Verdicts,
        Crew!CreateState, Crew!Goto, Crew!At, Crew!relay, Crew!listener, Crew!memory,
        Crew!world
  <2> QED
    BY <2>1, <2>2
<1> QED
  BY <1>1, <1>3, <1>4, <1>5, <1>6, <1>7 DEF CrewInv, NodeSound

LEMMA CreateAgentsKeeps ==
  ASSUME NEW team \in {Agents, LoneTeam}, NEW marks, CrewInv(team),
         Crew(team, marks)!CreateAgents
  PROVE  CrewInv(team)'
<1>1. CrewType(team)'
  BY CrewPlaced DEF CrewInv, CrewType, Stored, Documents, Messages, CrewSteps, FirstSteps,
      CollectSteps, LastSteps, PromoteSteps, Answers, Verdicts, Crew!CreateAgents,
      Crew!Goto, Crew!At, Crew!relay, Crew!listener, Crew!world
<1>2. CrewGrows(team)
  BY DEF CrewInv, CrewGrows, Begun, CrewType, Crew!CreateAgents, Crew!Goto, Crew!At,
      Crew!relay, Crew!listener, Crew!world
<1>3. Begun(team)' /\ HashTrue(team)'
  BY CrewPlaced DEF CrewInv, Begun, HashTrue, CrewType, NodeSound, Listening,
      Coordinating, FirstSteps, Crew!CreateAgents, Crew!Goto, Crew!At, Crew!relay,
      Crew!listener, Crew!world
<1>4. DocTrue(doc, team)'
  BY <1>2, DocKept DEF CrewInv, CrewType, DocTrue, Crew!CreateAgents, Crew!Goto, Crew!At,
      Crew!relay, Crew!listener, Crew!world
<1>5. ASSUME NEW m \in Nodes PROVE InboxTrue(m)'
  BY <1>2, <1>5, InboxKept DEF CrewInv, NodeSound, Crew!CreateAgents, Crew!Goto, Crew!At,
      Crew!relay, Crew!listener, Crew!world
<1>6. ASSUME NEW m \in Nodes PROVE Listening(m, team)'
  BY <1>2, <1>6, ListeningKept DEF CrewInv, NodeSound, Crew!CreateAgents, Crew!Goto,
      Crew!At, Crew!relay, Crew!listener, Crew!world
<1>7. ASSUME NEW m \in Nodes PROVE Coordinating(m, team)'
  <2>1. CASE m # First
    BY <1>2, <1>7, <2>1, CoordinatingKept DEF CrewInv, NodeSound, CrewType,
        Crew!CreateAgents, Crew!Goto, Crew!At, Crew!relay, Crew!listener, Crew!world
  <2>2. CASE m = First
    BY <1>2, <2>2, DocKept DEF CrewInv, NodeSound, Coordinating, Collecting, DocTrue,
        CrewGrows, AllCompleted, Begun, CrewType, Stored, Documents, Messages, CrewSteps,
        FirstSteps, CollectSteps, LastSteps, PromoteSteps, Answers, Verdicts,
        Crew!CreateAgents, Crew!Goto, Crew!At, Crew!relay, Crew!listener, Crew!world
  <2> QED
    BY <2>1, <2>2
<1> QED
  BY <1>1, <1>3, <1>4, <1>5, <1>6, <1>7 DEF CrewInv, NodeSound

LEMMA SubscribeKeeps ==
  ASSUME NEW team \in {Agents, LoneTeam}, NEW marks, CrewInv(team),
         Crew(team, marks)!Subscribe
  PROVE  CrewInv(team)'
<1>1. CrewType(team)'
  BY CrewPlaced DEF CrewInv, CrewType, Stored, Documents, Messages, CrewSteps, FirstSteps,
      CollectSteps, LastSteps, PromoteSteps, Answers, Verdicts, Crew!Subscribe, Crew!Goto,
      Crew!At, Crew!redis, Crew!listener, Crew!memory, Crew!world
<1>2. CrewGrows(team)
  BY DEF CrewInv, CrewGrows, Begun, CrewType, Crew!Subscribe, Crew!Goto, Crew!At,
      Crew!redis, Crew!listener, Crew!memory, Crew!world
<1>3. Begun(team)' /\ HashTrue(team)'
  BY CrewPlaced DEF CrewInv, Begun, HashTrue, CrewType, NodeSound, Listening,
      Coordinating, FirstSteps, Crew!Subscribe, Crew!Goto, Crew!At, Crew!redis,
      Crew!listener, Crew!memory, Crew!world
<1>4. DocTrue(doc, team)'
  BY <1>2, DocKept DEF CrewInv, CrewType, DocTrue, Crew!Subscribe, Crew!Goto, Crew!At,
      Crew!redis, Crew!listener, Crew!memory, Crew!world
<1>5. ASSUME NEW m \in Nodes PROVE InboxTrue(m)'
  BY <1>2, <1>5, InboxKept DEF CrewInv, NodeSound, Crew!Subscribe, Crew!Goto, Crew!At,
      Crew!redis, Crew!listener, Crew!memory, Crew!world
<1>6. ASSUME NEW m \in Nodes PROVE Listening(m, team)'
  BY <1>2, <1>6, ListeningKept DEF CrewInv, NodeSound, Crew!Subscribe, Crew!Goto, Crew!At,
      Crew!redis, Crew!listener, Crew!memory, Crew!world
<1>7. ASSUME NEW m \in Nodes PROVE Coordinating(m, team)'
  <2>1. CASE m # First
    BY <1>2, <1>7, <2>1, CoordinatingKept DEF CrewInv, NodeSound, CrewType,
        Crew!Subscribe, Crew!Goto, Crew!At, Crew!redis, Crew!listener, Crew!memory,
        Crew!world
  <2>2. CASE m = First
    BY <1>2, <2>2, DocKept DEF CrewInv, NodeSound, Coordinating, Collecting, DocTrue,
        CrewGrows, AllCompleted, Begun, CrewType, Stored, Documents, Messages, CrewSteps,
        FirstSteps, CollectSteps, LastSteps, PromoteSteps, Answers, Verdicts,
        Crew!Subscribe, Crew!Goto, Crew!At, Crew!redis, Crew!listener, Crew!memory,
        Crew!world
  <2> QED
    BY <2>1, <2>2
<1> QED
  BY <1>1, <1>3, <1>4, <1>5, <1>6, <1>7 DEF CrewInv, NodeSound

LEMMA HandoffKeeps ==
  ASSUME NEW team \in {Agents, LoneTeam}, NEW marks, CrewInv(team),
         Crew(team, marks)!Handoff
  PROVE  CrewInv(team)'
<1>1. CrewType(team)'
  <2>1. PICK b \in team :
          /\ b \in Crew(team, marks)!Remote(First) \ offered
          /\ Crew(team, marks)!PublishTaskHandoff(First, b)
    BY DEF Crew!Handoff, Crew!Remote
  <2> DEFINE r == [agent |-> b, seq |-> counter[First] + 1, kind |-> "task_handoff", status |-> "pending"]
  <2>2. r \in Messages(team)
    BY CrewPlaced DEF CrewInv, CrewType, Messages
  <2>3. inbox' = [k \in Nodes |-> IF k \in sub THEN Append(inbox[k], r) ELSE inbox[k]]
    BY <2>1 DEF Crew!PublishTaskHandoff, Crew!Delivered, Crew!NextSeq
  <2>4. inbox' \in [Nodes -> Seq(Messages(team))]
    BY <2>2, <2>3 DEF CrewInv, CrewType
  <2>5. counter' \in [Nodes -> Nat] /\ offered' \subseteq team
    BY <2>1, CrewPlaced
       DEF CrewInv, CrewType, Crew!PublishTaskHandoff, Crew!Delivered, Crew!NextSeq
  <2> QED
    BY <2>4, <2>5 DEF CrewInv, CrewType, Crew!Handoff, Crew!At, Crew!PublishTaskHandoff,
        Crew!Remote, Crew!redis, Crew!listener, Crew!task, Crew!memory, Crew!Delivered,
        Crew!NextSeq
<1>2. CrewGrows(team)
  BY DEF CrewInv, CrewGrows, Begun, CrewType, Crew!Handoff, Crew!At,
      Crew!PublishTaskHandoff, Crew!Remote, Crew!redis, Crew!listener, Crew!task,
      Crew!memory, Crew!Delivered, Crew!NextSeq
<1>3. Begun(team)' /\ HashTrue(team)'
  BY CrewPlaced DEF CrewInv, Begun, HashTrue, CrewType, NodeSound, Listening,
      Coordinating, FirstSteps, Crew!Handoff, Crew!At, Crew!PublishTaskHandoff,
      Crew!Remote, Crew!redis, Crew!listener, Crew!task, Crew!memory, Crew!Delivered,
      Crew!NextSeq
<1>4. DocTrue(doc, team)'
  BY <1>2, DocKept DEF CrewInv, CrewType, DocTrue, Crew!Handoff, Crew!At,
      Crew!PublishTaskHandoff, Crew!Remote, Crew!redis, Crew!listener, Crew!task,
      Crew!memory, Crew!Delivered, Crew!NextSeq
<1>5. ASSUME NEW m \in Nodes PROVE InboxTrue(m)'
  <2>1. PICK b \in team :
          /\ b \in Crew(team, marks)!Remote(First) \ offered
          /\ Crew(team, marks)!PublishTaskHandoff(First, b)
    BY DEF Crew!Handoff, Crew!Remote
  <2> DEFINE r == [agent |-> b, seq |-> counter[First] + 1, kind |-> "task_handoff", status |-> "pending"]
  <2>2. r \in Messages(team)
    BY CrewPlaced DEF CrewInv, CrewType, Messages
  <2>3. inbox' = [k \in Nodes |-> IF k \in sub THEN Append(inbox[k], r) ELSE inbox[k]]
    BY <2>1 DEF Crew!PublishTaskHandoff, Crew!Delivered, Crew!NextSeq
  <2>4. r.kind # "agent_result"
    OBVIOUS
  <2>5. CrewType(team) /\ \A k \in Nodes : InboxTrue(k)
    BY DEF CrewInv, NodeSound
  <2> HIDE DEF r
  <2> QED
    BY <1>2, <1>5, <2>2, <2>3, <2>4, <2>5, DeliveredKept
<1>6. ASSUME NEW m \in Nodes PROVE Listening(m, team)'
  BY <1>2, <1>6, ListeningKept DEF CrewInv, NodeSound, Crew!Handoff, Crew!At,
      Crew!PublishTaskHandoff, Crew!Remote, Crew!redis, Crew!listener, Crew!task,
      Crew!memory, Crew!Delivered, Crew!NextSeq
<1>7. ASSUME NEW m \in Nodes PROVE Coordinating(m, team)'
  BY <1>2, <1>7, CoordinatingKept DEF CrewInv, NodeSound, Crew!Handoff, Crew!At,
      Crew!PublishTaskHandoff, Crew!Remote, Crew!redis, Crew!listener, Crew!task,
      Crew!memory, Crew!Delivered, Crew!NextSeq
<1> QED
  BY <1>1, <1>3, <1>4, <1>5, <1>6, <1>7 DEF CrewInv, NodeSound

LEMMA DistributedKeeps ==
  ASSUME NEW team \in {Agents, LoneTeam}, NEW marks, CrewInv(team),
         Crew(team, marks)!Distributed
  PROVE  CrewInv(team)'
<1>1. CrewType(team)'
  BY CrewPlaced DEF CrewInv, CrewType, Stored, Documents, Messages, CrewSteps, FirstSteps,
      CollectSteps, LastSteps, PromoteSteps, Answers, Verdicts, Crew!Distributed,
      Crew!Goto, Crew!At, Crew!Remote, Crew!redis, Crew!relay, Crew!listener, Crew!memory,
      Crew!world
<1>2. CrewGrows(team)
  BY DEF CrewInv, CrewGrows, Begun, CrewType, Crew!Distributed, Crew!Goto, Crew!At,
      Crew!Remote, Crew!redis, Crew!relay, Crew!listener, Crew!memory, Crew!world
<1>3. Begun(team)' /\ HashTrue(team)'
  BY CrewPlaced DEF CrewInv, Begun, HashTrue, CrewType, NodeSound, Listening,
      Coordinating, FirstSteps, Crew!Distributed, Crew!Goto, Crew!At, Crew!Remote,
      Crew!redis, Crew!relay, Crew!listener, Crew!memory, Crew!world
<1>4. DocTrue(doc, team)'
  BY <1>2, DocKept DEF CrewInv, CrewType, DocTrue, Crew!Distributed, Crew!Goto, Crew!At,
      Crew!Remote, Crew!redis, Crew!relay, Crew!listener, Crew!memory, Crew!world
<1>5. ASSUME NEW m \in Nodes PROVE InboxTrue(m)'
  BY <1>2, <1>5, InboxKept DEF CrewInv, NodeSound, Crew!Distributed, Crew!Goto, Crew!At,
      Crew!Remote, Crew!redis, Crew!relay, Crew!listener, Crew!memory, Crew!world
<1>6. ASSUME NEW m \in Nodes PROVE Listening(m, team)'
  BY <1>2, <1>6, ListeningKept DEF CrewInv, NodeSound, Crew!Distributed, Crew!Goto,
      Crew!At, Crew!Remote, Crew!redis, Crew!relay, Crew!listener, Crew!memory, Crew!world
<1>7. ASSUME NEW m \in Nodes PROVE Coordinating(m, team)'
  <2>1. CASE m # First
    BY <1>2, <1>7, <2>1, CoordinatingKept DEF CrewInv, NodeSound, CrewType,
        Crew!Distributed, Crew!Goto, Crew!At, Crew!Remote, Crew!redis, Crew!relay,
        Crew!listener, Crew!memory, Crew!world
  <2>2. CASE m = First
    BY <1>2, <2>2, DocKept DEF CrewInv, NodeSound, Coordinating, Collecting, DocTrue,
        CrewGrows, AllCompleted, Begun, CrewType, Stored, Documents, Messages, CrewSteps,
        FirstSteps, CollectSteps, LastSteps, PromoteSteps, Answers, Verdicts,
        Crew!Distributed, Crew!Goto, Crew!At, Crew!Remote, Crew!redis, Crew!relay,
        Crew!listener, Crew!memory, Crew!world
  <2> QED
    BY <2>1, <2>2
<1> QED
  BY <1>1, <1>3, <1>4, <1>5, <1>6, <1>7 DEF CrewInv, NodeSound

LEMMA SetStatusReadKeeps ==
  ASSUME NEW team \in {Agents, LoneTeam}, NEW marks, CrewInv(team), NEW n \in Nodes,
         Crew(team, marks)!SetStatusRead(n)
  PROVE  CrewInv(team)'
<1>1. CrewType(team)'
  BY CrewPlaced DEF CrewInv, CrewType, Stored, Documents, Messages, CrewSteps, FirstSteps,
      CollectSteps, LastSteps, PromoteSteps, Answers, Verdicts, Crew!SetStatusRead,
      Crew!Goto, Crew!redis, Crew!relay, Crew!listener, Crew!world
<1>2. CrewGrows(team)
  BY DEF CrewInv, CrewGrows, Begun, CrewType, Crew!SetStatusRead, Crew!Goto, Crew!redis,
      Crew!relay, Crew!listener, Crew!world
<1>3. Begun(team)' /\ HashTrue(team)'
  BY CrewPlaced DEF CrewInv, Begun, HashTrue, CrewType, NodeSound, Listening,
      Coordinating, FirstSteps, Crew!SetStatusRead, Crew!Goto, Crew!redis, Crew!relay,
      Crew!listener, Crew!world
<1>4. DocTrue(doc, team)'
  BY <1>2, DocKept DEF CrewInv, CrewType, DocTrue, Crew!SetStatusRead, Crew!Goto,
      Crew!redis, Crew!relay, Crew!listener, Crew!world
<1>5. ASSUME NEW m \in Nodes PROVE InboxTrue(m)'
  BY <1>2, <1>5, InboxKept DEF CrewInv, NodeSound, Crew!SetStatusRead, Crew!Goto,
      Crew!redis, Crew!relay, Crew!listener, Crew!world
<1>6. ASSUME NEW m \in Nodes PROVE Listening(m, team)'
  BY <1>2, <1>6, ListeningKept DEF CrewInv, NodeSound, Crew!SetStatusRead, Crew!Goto,
      Crew!redis, Crew!relay, Crew!listener, Crew!world
<1>7. ASSUME NEW m \in Nodes PROVE Coordinating(m, team)'
  <2>1. CASE m # n
    BY <1>2, <1>7, <2>1, CoordinatingKept DEF CrewInv, NodeSound, CrewType,
        Crew!SetStatusRead, Crew!Goto, Crew!redis, Crew!relay, Crew!listener, Crew!world
  <2>2. CASE m = n
    <3>1. /\ \/ pc[n] = "run_read" /\ pc'[n] = "run_write"
             \/ pc[n] = "final_read" /\ pc'[n] = "final_write"
          /\ copy'[n] = doc
          /\ expected'[n] = expected[n] /\ results'[n] = results[n] /\ verdict'[n] = verdict[n]
          /\ UNCHANGED <<doc, hash, work, up>>
      BY DEF CrewInv, CrewType, Crew!SetStatusRead, Crew!Goto, Crew!redis, Crew!relay,
          Crew!listener, Crew!world
    <3>2. DocTrue(copy[n], team)'
      BY <1>2, <1>4, <3>1, DocKept DEF CrewInv, NodeSound, Coordinating, CrewType, DocTrue
    <3>3. \A a \in team : results'[n][a] = "completed" => work'[a] = "completed"
      BY <1>2, <3>1 DEF CrewInv, NodeSound, Coordinating, CrewGrows, CrewType, DocTrue, Stored,
                        Documents, Answers, Matches
    <3>4. CASE pc[n] = "run_read" /\ pc'[n] = "run_write"
      BY <1>2, <2>2, <3>1, <3>2, <3>3, <3>4
         DEF CrewInv, NodeSound, Coordinating, Collecting, FirstSteps, CollectSteps, LastSteps,
             PromoteSteps, CrewGrows, CrewType, Answers
    <3>5. CASE pc[n] = "final_read" /\ pc'[n] = "final_write"
      BY <1>2, <2>2, <3>1, <3>2, <3>3, <3>5
         DEF CrewInv, NodeSound, Coordinating, Collecting, FirstSteps, CollectSteps, LastSteps,
             PromoteSteps, CrewGrows, AllCompleted, CrewType, Answers
    <3> QED
      BY <3>1, <3>4, <3>5
  <2> QED
    BY <2>1, <2>2
<1> QED
  BY <1>1, <1>3, <1>4, <1>5, <1>6, <1>7 DEF CrewInv, NodeSound

LEMMA RunLocalKeeps ==
  ASSUME NEW team \in {Agents, LoneTeam}, NEW marks, CrewInv(team),
         Crew(team, marks)!RunLocal
  PROVE  CrewInv(team)'
<1>a. PICK out \in [team -> {"completed", "failed"}] :
        /\ work' = [a \in team |-> IF Home[a] # First THEN work[a] ELSE out[a]]
        /\ results' = [results EXCEPT ![First] =
                         [a \in team |-> IF Home[a] # First THEN @[a] ELSE out[a]]]
  BY DEF Crew!RunLocal, Crew!Remote
<1>b. /\ pc[First] = "local" /\ pc' = [pc EXCEPT ![First] = "collect"]
      /\ UNCHANGED <<doc, hash, copy, hpc, expected, verdict, offered, up>>
  BY DEF Crew!RunLocal, Crew!At, Crew!Goto, Crew!redis, Crew!listener
<1>c. \A a \in team : Home[a] = First => work[a] = "none"
  BY <1>b DEF CrewInv, Begun, FirstSteps
<1>1. CrewType(team)'
  <2>4. [a \in team |-> IF Home[a] # First THEN results[First][a] ELSE out[a]]
          \in [team -> {"none"} \cup Answers]
    BY CrewPlaced DEF CrewInv, CrewType, Answers
  <2>5. results' \in [Nodes -> [team -> {"none"} \cup Answers]]
    BY <1>a, <2>4, CrewPlaced DEF CrewInv, CrewType
  <2>6. work' \in [team -> {"none"} \cup Answers]
    BY <1>a DEF CrewInv, CrewType, Answers
  <2>7. pc' \in [Nodes -> CrewSteps]
    BY <1>b DEF CrewInv, CrewType, CrewSteps, CollectSteps
  <2> QED
    BY <1>b, <2>5, <2>6, <2>7
       DEF CrewInv, CrewType, Crew!RunLocal, Crew!redis, Crew!relay, Crew!listener
<1>2. CrewGrows(team)
  <2>4. \A a \in team : work[a] # "none" => work'[a] = work[a]
    BY <1>a, <1>c
  <2> QED
    BY <1>b, <2>4 DEF CrewGrows
<1>3. Begun(team)' /\ HashTrue(team)'
  <2>4. \A a \in team : work[a] # "none" => work'[a] = work[a]
    BY <1>a, <1>c
  <2>5. HashTrue(team)'
    BY <1>b, <2>4 DEF CrewInv, CrewType, HashTrue, Answers
  <2>6. pc'[First] = "collect"
    BY <1>b, CrewPlaced DEF CrewInv, CrewType
  <2>7. Begun(team)'
    BY <1>b, <2>6 DEF CrewInv, Begun, FirstSteps
  <2> QED
    BY <2>5, <2>7
<1>4. DocTrue(doc, team)'
  BY <1>2, DocKept DEF CrewInv, CrewType, DocTrue, Crew!RunLocal, Crew!Goto, Crew!At,
      Crew!Remote, Crew!redis, Crew!relay, Crew!listener
<1>5. ASSUME NEW m \in Nodes PROVE InboxTrue(m)'
  BY <1>2, <1>5, InboxKept DEF CrewInv, NodeSound, Crew!RunLocal, Crew!Goto, Crew!At,
      Crew!Remote, Crew!redis, Crew!relay, Crew!listener
<1>6. ASSUME NEW m \in Nodes PROVE Listening(m, team)'
  BY <1>2, <1>6, ListeningKept DEF CrewInv, NodeSound, Crew!RunLocal, Crew!Goto, Crew!At,
      Crew!Remote, Crew!redis, Crew!relay, Crew!listener
<1>7. ASSUME NEW m \in Nodes PROVE Coordinating(m, team)'
  <2>1. CASE m # First
    BY <1>2, <1>7, <2>1, CoordinatingKept DEF CrewInv, NodeSound, CrewType, Crew!RunLocal,
        Crew!Goto, Crew!At, Crew!Remote, Crew!redis, Crew!relay, Crew!listener
  <2>2. CASE m = First
    <3>4. /\ pc'[First] = "collect" /\ copy[First] \in Stored(team)
          /\ results[First] \in [team -> {"none"} \cup Answers]
      BY <1>b, CrewPlaced DEF CrewInv, CrewType
    <3>5. DocTrue(copy[First], team)'
      BY <1>2, <1>b, <3>4, CrewPlaced, DocKept DEF CrewInv, NodeSound, Coordinating, DocTrue
    <3>6. ASSUME NEW a \in team, results'[First][a] = "completed" PROVE work'[a] = "completed"
      <4>1. results'[First][a] = (IF Home[a] # First THEN results[First][a] ELSE out[a])
        BY <1>a, CrewPlaced DEF CrewInv, CrewType
      <4> QED
        BY <1>a, <3>6, <4>1, CrewPlaced DEF CrewInv, NodeSound, Coordinating
    <3> QED
      BY <2>2, <1>b, <3>4, <3>5, <3>6, CrewPlaced
         DEF CrewInv, NodeSound, Coordinating, Collecting, FirstSteps, CollectSteps, LastSteps
  <2> QED
    BY <2>1, <2>2
<1> QED
  BY <1>1, <1>3, <1>4, <1>5, <1>6, <1>7 DEF CrewInv, NodeSound

LEMMA SetStatusWriteKeeps ==
  ASSUME NEW team \in {Agents, LoneTeam}, NEW marks, CrewInv(team), NEW n \in Nodes, NEW at, NEW status, NEW then,

         \/ at = "run_write" /\ status = "running" /\ then = "local"
         \/ at = "final_write" /\ status = verdict[n] /\ then = "cleanup",
         Crew(team, marks)!SetStatusWrite(n, at, status, then)
  PROVE  CrewInv(team)'
<1>a. /\ doc' = (IF copy[n] = NoDoc THEN doc ELSE [copy[n] EXCEPT !.status = status])
      /\ copy' = [copy EXCEPT ![n] = NoDoc] /\ pc' = [pc EXCEPT ![n] = then]
      /\ pc[n] = at /\ n \in up /\ copy[n] \in Stored(team) /\ DocTrue(copy[n], team)
      /\ UNCHANGED <<hash, work, offered, hpc>>
  BY DEF CrewInv, CrewType, NodeSound, Coordinating, Crew!SetStatusWrite, Crew!At, Crew!Goto,
         Crew!listener, Crew!world
<1>b. /\ at # "idle" /\ then # "idle" /\ then \in CrewSteps
      /\ status \in {"running", "completed", "partial"}
      /\ then \in FirstSteps => at \in FirstSteps \ {"idle", "hash", "subscribe"}
      /\ then \notin {"idle", "hash", "subscribe"}
  <2>1. CASE at = "run_write" /\ status = "running" /\ then = "local"
    BY <2>1 DEF CrewSteps, FirstSteps
  <2>2. CASE at = "final_write" /\ status = verdict[n] /\ then = "cleanup"
    <3>1. verdict[n] \in Verdicts /\ verdict[n] # "none"
      BY <1>a, <2>2 DEF CrewInv, CrewType, NodeSound, Coordinating, LastSteps
    <3> QED
      BY <2>2, <3>1 DEF CrewSteps, FirstSteps, LastSteps, Verdicts
  <2> QED
    BY <2>1, <2>2
<1>c. copy[n] # NoDoc => doc' \in Documents(team) /\ doc' # NoDoc
  <2>1. CASE copy[n] # NoDoc
    <3>1. copy[n] \in Documents(team)
      BY <1>a, <2>1 DEF Stored
    <3>2. [copy[n] EXCEPT !.status = status] \in Documents(team)
      BY <1>b, <3>1 DEF Documents
    <3> QED
      BY <1>a, <2>1, <3>2, CrewDocuments DEF Documents, Answers
  <2> QED
    BY <2>1
<1>1. CrewType(team)'
  <2>4. /\ doc' \in Stored(team) /\ copy' \in [Nodes -> Stored(team)]
        /\ pc' \in [Nodes -> CrewSteps]
    BY <1>a, <1>b, <1>c DEF CrewInv, CrewType, Stored
  <2> QED
    BY <2>4 DEF CrewInv, CrewType, Crew!SetStatusWrite, Crew!relay, Crew!listener, Crew!world
<1>2. CrewGrows(team)
  BY DEF CrewInv, CrewGrows, Begun, CrewType, Crew!SetStatusWrite, Crew!Goto, Crew!At,
      Crew!relay, Crew!listener, Crew!world
<1>3. Begun(team)' /\ HashTrue(team)'
  <2>4. HashTrue(team)'
    BY <1>a DEF CrewInv, HashTrue
  <2>5. /\ doc' = NoDoc => doc = NoDoc
        /\ \A k \in Nodes : k # n => pc'[k] = pc[k] /\ copy'[k] = copy[k]
        /\ pc'[n] = then /\ copy'[n] = NoDoc
    BY <1>a, <1>c DEF CrewInv, CrewType
  <2>6. doc' = NoDoc => n # First
    BY <1>a, <1>b, <2>5, CrewPlaced DEF CrewInv, Begun, NodeSound, Coordinating
  <2>7. pc[First] # "idle" /\ pc'[First] # "idle"
    BY <1>a, <1>b, <2>5, CrewPlaced DEF CrewInv, Begun
  <2>8. doc' = NoDoc => /\ pc'[First] \in {"idle", "dead"}
                        /\ \A k \in Nodes : copy'[k] = NoDoc /\ hpc'[k] # "write"
    BY <1>a, <2>5, <2>6, CrewPlaced DEF CrewInv, Begun
  <2>9. /\ pc'[First] \in {"idle", "hash", "subscribe"} => pc'[First] = pc[First]
        /\ pc'[First] \in {"idle", "hash"} => pc'[First] = pc[First]
        /\ pc'[First] \in FirstSteps => pc[First] \in FirstSteps
    BY <1>a, <1>b, <2>5, CrewPlaced
  <2>10. Begun(team)'
    BY <1>a, <2>7, <2>8, <2>9 DEF CrewInv, Begun
  <2> QED
    BY <2>4, <2>10
<1>4. DocTrue(doc, team)'
  <2>4. CASE copy[n] = NoDoc
    BY <1>a, <2>4 DEF CrewInv, DocTrue, Matches, AllCompleted
  <2>5. CASE copy[n] # NoDoc
    <3>1. doc'.placed = copy[n].placed /\ doc'.status = status
      BY <1>a, <2>5 DEF Stored, Documents
    <3>2. status = "completed" => AllCompleted(team)
      <4>1. CASE status = "completed"
        <5>1. at = "final_write" /\ verdict[n] = "completed"
          BY <4>1
        <5>2. doc # NoDoc
          BY <2>5 DEF CrewInv, Begun
        <5> QED
          BY <1>a, <5>1, <5>2 DEF CrewInv, NodeSound, Coordinating, LastSteps
      <4> QED
        BY <4>1
    <3> QED
      BY <1>a, <2>5, <3>1, <3>2 DEF DocTrue, Matches, AllCompleted
  <2> QED
    BY <2>4, <2>5
<1>5. ASSUME NEW m \in Nodes PROVE InboxTrue(m)'
  BY <1>2, <1>5, InboxKept DEF CrewInv, NodeSound, Crew!SetStatusWrite, Crew!Goto,
      Crew!At, Crew!relay, Crew!listener, Crew!world
<1>6. ASSUME NEW m \in Nodes PROVE Listening(m, team)'
  BY <1>2, <1>6, ListeningKept DEF CrewInv, NodeSound, Crew!SetStatusWrite, Crew!Goto,
      Crew!At, Crew!relay, Crew!listener, Crew!world
<1>7. ASSUME NEW m \in Nodes PROVE Coordinating(m, team)'
  <2>1. CASE m # n
    BY <1>2, <1>7, <2>1, CoordinatingKept DEF CrewInv, NodeSound, CrewType,
        Crew!SetStatusWrite, Crew!Goto, Crew!At, Crew!relay, Crew!listener, Crew!world
  <2>2. CASE m = n
    <3>1. /\ copy'[n] = NoDoc /\ pc'[n] = then /\ pc[n] = at /\ n \in up
          /\ UNCHANGED <<hash, work, up, expected, results, verdict>>
      BY DEF CrewInv, CrewType, Crew!SetStatusWrite, Crew!At, Crew!Goto, Crew!world
    <3>2. doc = NoDoc => doc' = NoDoc
      BY <3>1 DEF CrewInv, Begun, Crew!SetStatusWrite
    <3>3. DocTrue(copy[n], team)'
      BY <3>1 DEF DocTrue
    <3>4. CASE at = "run_write" /\ status = "running" /\ then = "local"
      BY <2>2, <3>1, <3>2, <3>3, <3>4
         DEF CrewInv, NodeSound, Coordinating, Collecting, FirstSteps,
         CollectSteps, LastSteps
    <3>5. CASE at = "final_write" /\ status = verdict[n] /\ then = "cleanup"
      BY <2>2, <3>1, <3>2, <3>3, <3>5
         DEF CrewInv, NodeSound, Coordinating, Collecting, FirstSteps,
         CollectSteps, LastSteps, AllCompleted
    <3> QED
      BY <3>4, <3>5
  <2> QED
    BY <2>1, <2>2
<1> QED
  BY <1>1, <1>3, <1>4, <1>5, <1>6, <1>7 DEF CrewInv, NodeSound

LEMMA AllCollectedKeeps ==
  ASSUME NEW team \in {Agents, LoneTeam}, NEW marks, CrewInv(team), NEW n \in Nodes,
         Crew(team, marks)!AllCollected(n)
  PROVE  CrewInv(team)'
<1>1. CrewType(team)'
  BY CrewPlaced DEF CrewInv, CrewType, Stored, Documents, Messages, CrewSteps, FirstSteps,
      CollectSteps, LastSteps, PromoteSteps, Answers, Verdicts, Crew!AllCollected,
      Crew!At, Crew!Missing, Crew!Finalize, Crew!Goto, Crew!FinalStatus, Crew!redis,
      Crew!relay, Crew!listener, Crew!world
<1>2. CrewGrows(team)
  BY DEF CrewInv, CrewGrows, Begun, CrewType, Crew!AllCollected, Crew!At, Crew!Missing,
      Crew!Finalize, Crew!Goto, Crew!FinalStatus, Crew!redis, Crew!relay, Crew!listener,
      Crew!world
<1>3. Begun(team)' /\ HashTrue(team)'
  BY CrewPlaced DEF CrewInv, Begun, HashTrue, CrewType, NodeSound, Listening,
      Coordinating, FirstSteps, Crew!AllCollected, Crew!At, Crew!Missing, Crew!Finalize,
      Crew!Goto, Crew!FinalStatus, Crew!redis, Crew!relay, Crew!listener, Crew!world
<1>4. DocTrue(doc, team)'
  BY <1>2, DocKept DEF CrewInv, CrewType, DocTrue, Crew!AllCollected, Crew!At,
      Crew!Missing, Crew!Finalize, Crew!Goto, Crew!FinalStatus, Crew!redis, Crew!relay,
      Crew!listener, Crew!world
<1>5. ASSUME NEW m \in Nodes PROVE InboxTrue(m)'
  BY <1>2, <1>5, InboxKept DEF CrewInv, NodeSound, Crew!AllCollected, Crew!At,
      Crew!Missing, Crew!Finalize, Crew!Goto, Crew!FinalStatus, Crew!redis, Crew!relay,
      Crew!listener, Crew!world
<1>6. ASSUME NEW m \in Nodes PROVE Listening(m, team)'
  BY <1>2, <1>6, ListeningKept DEF CrewInv, NodeSound, Crew!AllCollected, Crew!At,
      Crew!Missing, Crew!Finalize, Crew!Goto, Crew!FinalStatus, Crew!redis, Crew!relay,
      Crew!listener, Crew!world
<1>7. ASSUME NEW m \in Nodes PROVE Coordinating(m, team)'
  <2>1. CASE m # n
    BY <1>2, <1>7, <2>1, CoordinatingKept DEF CrewInv, NodeSound, CrewType,
        Crew!AllCollected, Crew!At, Crew!Missing, Crew!Finalize, Crew!Goto,
        Crew!FinalStatus, Crew!redis, Crew!relay, Crew!listener, Crew!world
  <2>2. CASE m = n
    <3>1. /\ pc[n] = "collect" /\ pc'[n] = "final_read"
          /\ verdict'[n] = (IF \A a \in team : results[n][a] # "failed" THEN "completed" ELSE "partial")
          /\ \A a \in expected[n] : results[n][a] # "none"
          /\ copy'[n] = copy[n] /\ expected'[n] = expected[n] /\ results'[n] = results[n]
          /\ UNCHANGED <<doc, hash, work, up>>
      BY DEF CrewInv, CrewType, Crew!AllCollected, Crew!At, Crew!Missing, Crew!Finalize,
          Crew!Goto, Crew!FinalStatus, Crew!redis, Crew!relay, Crew!listener, Crew!world
    <3>2. DocTrue(copy[n], team)'
      BY <1>2, <1>4, <3>1, DocKept DEF CrewInv, NodeSound, Coordinating, CrewType, DocTrue
    <3>3. \A a \in team : results'[n][a] = "completed" => work'[a] = "completed"
      BY <1>2, <3>1 DEF CrewInv, NodeSound, Coordinating, CrewGrows, CrewType, DocTrue, Stored,
                        Documents, Answers, Matches
    <3> QED
      BY <1>2, <2>2, <3>1, <3>2, <3>3
         DEF CrewInv, NodeSound, Coordinating, Collecting, FirstSteps, CollectSteps, LastSteps,
             PromoteSteps, CrewGrows, AllCompleted, Begun, CrewType, Answers
  <2> QED
    BY <2>1, <2>2
<1> QED
  BY <1>1, <1>3, <1>4, <1>5, <1>6, <1>7 DEF CrewInv, NodeSound

LEMMA TimeOutKeeps ==
  ASSUME NEW team \in {Agents, LoneTeam}, NEW marks, CrewInv(team), NEW n \in Nodes,
         Crew(team, marks)!TimeOut(n)
  PROVE  CrewInv(team)'
<1>1. CrewType(team)'
  <2>1. results' \in [Nodes -> [team -> {"none"} \cup Answers]]
    <3>1. [a \in team |-> IF a \in Crew(team, marks)!Missing(n) THEN "failed" ELSE results[n][a]]
            \in [team -> {"none"} \cup Answers]
      BY DEF CrewInv, CrewType, Answers
    <3> QED
      BY <3>1 DEF CrewInv, CrewType, Crew!TimeOut, Crew!Finalize
  <2> QED
    BY <2>1 DEF CrewInv, CrewType, CrewSteps, FirstSteps, CollectSteps, LastSteps,
        PromoteSteps, Verdicts, Crew!TimeOut, Crew!At, Crew!Missing, Crew!Finalize,
        Crew!Goto, Crew!FinalStatus, Crew!redis, Crew!relay, Crew!listener, Crew!world
<1>2. CrewGrows(team)
  BY DEF CrewInv, CrewGrows, Begun, CrewType, Crew!TimeOut, Crew!At, Crew!Missing,
      Crew!Finalize, Crew!Goto, Crew!FinalStatus, Crew!redis, Crew!relay, Crew!listener,
      Crew!world
<1>3. Begun(team)' /\ HashTrue(team)'
  BY CrewPlaced DEF CrewInv, Begun, HashTrue, CrewType, NodeSound, Listening,
      Coordinating, FirstSteps, Crew!TimeOut, Crew!At, Crew!Missing, Crew!Finalize,
      Crew!Goto, Crew!FinalStatus, Crew!redis, Crew!relay, Crew!listener, Crew!world
<1>4. DocTrue(doc, team)'
  BY <1>2, DocKept DEF CrewInv, CrewType, DocTrue, Crew!TimeOut, Crew!At, Crew!Missing,
      Crew!Finalize, Crew!Goto, Crew!FinalStatus, Crew!redis, Crew!relay, Crew!listener,
      Crew!world
<1>5. ASSUME NEW m \in Nodes PROVE InboxTrue(m)'
  BY <1>2, <1>5, InboxKept DEF CrewInv, NodeSound, Crew!TimeOut, Crew!At, Crew!Missing,
      Crew!Finalize, Crew!Goto, Crew!FinalStatus, Crew!redis, Crew!relay, Crew!listener,
      Crew!world
<1>6. ASSUME NEW m \in Nodes PROVE Listening(m, team)'
  BY <1>2, <1>6, ListeningKept DEF CrewInv, NodeSound, Crew!TimeOut, Crew!At,
      Crew!Missing, Crew!Finalize, Crew!Goto, Crew!FinalStatus, Crew!redis, Crew!relay,
      Crew!listener, Crew!world
<1>7. ASSUME NEW m \in Nodes PROVE Coordinating(m, team)'
  <2>1. CASE m # n
    BY <1>2, <1>7, <2>1, CoordinatingKept DEF CrewInv, NodeSound, CrewType, Crew!TimeOut,
        Crew!At, Crew!Missing, Crew!Finalize, Crew!Goto, Crew!FinalStatus, Crew!redis,
        Crew!relay, Crew!listener, Crew!world
  <2>2. CASE m = n
    <3>1. /\ pc[n] = "collect" /\ pc'[n] = "final_read"
          /\ verdict'[n] = "partial"
          /\ \A a \in team : results'[n][a] \in {results[n][a], "failed"}
          /\ \A a \in expected[n] : results'[n][a] # "none"
          /\ copy'[n] = copy[n] /\ expected'[n] = expected[n]
          /\ UNCHANGED <<doc, hash, work, up>>
      BY DEF CrewInv, CrewType, Crew!TimeOut, Crew!At, Crew!Missing, Crew!Finalize,
          Crew!Goto, Crew!FinalStatus, Crew!redis, Crew!relay, Crew!listener, Crew!world
    <3>2. DocTrue(copy[n], team)'
      BY <1>2, <1>4, <3>1, DocKept DEF CrewInv, NodeSound, Coordinating, CrewType, DocTrue
    <3>3. \A a \in team : results'[n][a] = "completed" => work'[a] = "completed"
      BY <1>2, <3>1 DEF CrewInv, NodeSound, Coordinating, CrewGrows, CrewType, DocTrue, Stored,
                        Documents, Answers, Matches
    <3> QED
      BY <1>2, <2>2, <3>1, <3>2, <3>3
         DEF CrewInv, NodeSound, Coordinating, Collecting, FirstSteps, CollectSteps, LastSteps,
             PromoteSteps, CrewGrows, AllCompleted, Begun, CrewType, Answers
  <2> QED
    BY <2>1, <2>2
<1> QED
  BY <1>1, <1>3, <1>4, <1>5, <1>6, <1>7 DEF CrewInv, NodeSound

LEMMA CheckNodeHealthKeeps ==
  ASSUME NEW team \in {Agents, LoneTeam}, NEW marks, CrewInv(team), NEW n \in Nodes,
         Crew(team, marks)!CheckNodeHealth(n)
  PROVE  CrewInv(team)'
<1>1. CrewType(team)'
  BY CrewPlaced DEF CrewInv, CrewType, Stored, Documents, Messages, CrewSteps, FirstSteps,
      CollectSteps, LastSteps, PromoteSteps, Answers, Verdicts, Crew!CheckNodeHealth,
      Crew!Goto, Crew!At, Crew!Missing, Crew!redis, Crew!relay, Crew!listener, Crew!world
<1>2. CrewGrows(team)
  BY DEF CrewInv, CrewGrows, Begun, CrewType, Crew!CheckNodeHealth, Crew!Goto, Crew!At,
      Crew!Missing, Crew!redis, Crew!relay, Crew!listener, Crew!world
<1>3. Begun(team)' /\ HashTrue(team)'
  BY CrewPlaced DEF CrewInv, Begun, HashTrue, CrewType, NodeSound, Listening,
      Coordinating, FirstSteps, Crew!CheckNodeHealth, Crew!Goto, Crew!At, Crew!Missing,
      Crew!redis, Crew!relay, Crew!listener, Crew!world
<1>4. DocTrue(doc, team)'
  BY <1>2, DocKept DEF CrewInv, CrewType, DocTrue, Crew!CheckNodeHealth, Crew!Goto,
      Crew!At, Crew!Missing, Crew!redis, Crew!relay, Crew!listener, Crew!world
<1>5. ASSUME NEW m \in Nodes PROVE InboxTrue(m)'
  BY <1>2, <1>5, InboxKept DEF CrewInv, NodeSound, Crew!CheckNodeHealth, Crew!Goto,
      Crew!At, Crew!Missing, Crew!redis, Crew!relay, Crew!listener, Crew!world
<1>6. ASSUME NEW m \in Nodes PROVE Listening(m, team)'
  BY <1>2, <1>6, ListeningKept DEF CrewInv, NodeSound, Crew!CheckNodeHealth, Crew!Goto,
      Crew!At, Crew!Missing, Crew!redis, Crew!relay, Crew!listener, Crew!world
<1>7. ASSUME NEW m \in Nodes PROVE Coordinating(m, team)'
  <2>1. CASE m # n
    BY <1>2, <1>7, <2>1, CoordinatingKept DEF CrewInv, NodeSound, CrewType,
        Crew!CheckNodeHealth, Crew!Goto, Crew!At, Crew!Missing, Crew!redis, Crew!relay,
        Crew!listener, Crew!world
  <2>2. CASE m = n
    <3>1. /\ pc[n] = "collect" /\ pc'[n] = "health"
          /\ copy'[n] = copy[n] /\ expected'[n] = expected[n]
          /\ results'[n] = results[n] /\ verdict'[n] = verdict[n]
          /\ UNCHANGED <<doc, hash, work, up>>
      BY DEF CrewInv, CrewType, Crew!CheckNodeHealth, Crew!Goto, Crew!At, Crew!Missing,
          Crew!redis, Crew!relay, Crew!listener, Crew!world
    <3>2. DocTrue(copy[n], team)'
      BY <1>2, <1>4, <3>1, DocKept DEF CrewInv, NodeSound, Coordinating, CrewType, DocTrue
    <3>3. \A a \in team : results'[n][a] = "completed" => work'[a] = "completed"
      BY <1>2, <3>1 DEF CrewInv, NodeSound, Coordinating, CrewGrows, CrewType, DocTrue, Stored,
                        Documents, Answers, Matches
    <3> QED
      BY <1>2, <2>2, <3>1, <3>2, <3>3
         DEF CrewInv, NodeSound, Coordinating, Collecting, FirstSteps, CollectSteps, LastSteps,
             PromoteSteps, CrewGrows, AllCompleted, Begun, CrewType, Answers
  <2> QED
    BY <2>1, <2>2
<1> QED
  BY <1>1, <1>3, <1>4, <1>5, <1>6, <1>7 DEF CrewInv, NodeSound

LEMMA HealthAskKeeps ==
  ASSUME NEW team \in {Agents, LoneTeam}, NEW marks, CrewInv(team), NEW n \in Nodes,
         Crew(team, marks)!HealthAsk(n)
  PROVE  CrewInv(team)'
<1>1. CrewType(team)'
  <2>1. /\ checking' \in [Nodes -> SUBSET team] /\ asking' \in [Nodes -> SUBSET team]
        /\ pc' \in [Nodes -> CrewSteps]
    <3>1. CASE {a \in checking[n] : results[n][a] = "none"} = {}
      BY <3>1 DEF CrewInv, CrewType, CrewSteps, FirstSteps, CollectSteps, LastSteps,
          PromoteSteps, Crew!HealthAsk, Crew!Goto, Crew!At, Crew!redis, Crew!relay,
          Crew!listener, Crew!world
    <3>2. CASE {a \in checking[n] : results[n][a] = "none"} # {}
      <4>1. PICK a \in checking[n] :
              /\ checking' = [checking EXCEPT ![n] = @ \ {a}]
              /\ asking' = [asking EXCEPT ![n] = {a}] /\ pc' = [pc EXCEPT ![n] = "health_get"]
        BY <3>2 DEF Crew!HealthAsk, Crew!Goto
      <4>2. a \in team /\ checking[n] \ {a} \in SUBSET team
        BY <4>1 DEF CrewInv, CrewType
      <4> QED
        BY <4>1, <4>2
           DEF CrewInv, CrewType, CrewSteps, FirstSteps, CollectSteps, LastSteps, PromoteSteps
    <3> QED
      BY <3>1, <3>2
  <2> QED
    BY <2>1 DEF CrewInv, CrewType, Crew!HealthAsk, Crew!redis, Crew!relay, Crew!listener,
                Crew!world
<1>2. CrewGrows(team)
  BY DEF CrewInv, CrewGrows, Begun, CrewType, Crew!HealthAsk, Crew!Goto, Crew!At,
      Crew!redis, Crew!relay, Crew!listener, Crew!world
<1>3. Begun(team)' /\ HashTrue(team)'
  BY CrewPlaced DEF CrewInv, Begun, HashTrue, CrewType, NodeSound, Listening,
      Coordinating, FirstSteps, Crew!HealthAsk, Crew!Goto, Crew!At, Crew!redis,
      Crew!relay, Crew!listener, Crew!world
<1>4. DocTrue(doc, team)'
  BY <1>2, DocKept DEF CrewInv, CrewType, DocTrue, Crew!HealthAsk, Crew!Goto, Crew!At,
      Crew!redis, Crew!relay, Crew!listener, Crew!world
<1>5. ASSUME NEW m \in Nodes PROVE InboxTrue(m)'
  BY <1>2, <1>5, InboxKept DEF CrewInv, NodeSound, Crew!HealthAsk, Crew!Goto, Crew!At,
      Crew!redis, Crew!relay, Crew!listener, Crew!world
<1>6. ASSUME NEW m \in Nodes PROVE Listening(m, team)'
  BY <1>2, <1>6, ListeningKept DEF CrewInv, NodeSound, Crew!HealthAsk, Crew!Goto, Crew!At,
      Crew!redis, Crew!relay, Crew!listener, Crew!world
<1>7. ASSUME NEW m \in Nodes PROVE Coordinating(m, team)'
  <2>1. CASE m # n
    BY <1>2, <1>7, <2>1, CoordinatingKept DEF CrewInv, NodeSound, CrewType,
        Crew!HealthAsk, Crew!Goto, Crew!At, Crew!redis, Crew!relay, Crew!listener,
        Crew!world
  <2>2. CASE m = n
    <3>1. /\ pc[n] = "health" /\ pc'[n] \in {"collect", "health_get"}
          /\ copy'[n] = copy[n] /\ expected'[n] = expected[n]
          /\ results'[n] = results[n] /\ verdict'[n] = verdict[n]
          /\ UNCHANGED <<doc, hash, work, up>>
      BY DEF CrewInv, CrewType, Crew!HealthAsk, Crew!Goto, Crew!At, Crew!redis,
          Crew!relay, Crew!listener, Crew!world
    <3>2. DocTrue(copy[n], team)'
      BY <1>2, <1>4, <3>1, DocKept DEF CrewInv, NodeSound, Coordinating, CrewType, DocTrue
    <3>3. \A a \in team : results'[n][a] = "completed" => work'[a] = "completed"
      BY <1>2, <3>1 DEF CrewInv, NodeSound, Coordinating, CrewGrows, CrewType, DocTrue, Stored,
                        Documents, Answers, Matches
    <3> QED
      BY <1>2, <2>2, <3>1, <3>2, <3>3
         DEF CrewInv, NodeSound, Coordinating, Collecting, FirstSteps, CollectSteps, LastSteps,
             PromoteSteps, CrewGrows, AllCompleted, Begun, CrewType, Answers
  <2> QED
    BY <2>1, <2>2
<1> QED
  BY <1>1, <1>3, <1>4, <1>5, <1>6, <1>7 DEF CrewInv, NodeSound

LEMMA HealthAnswerKeeps ==
  ASSUME NEW team \in {Agents, LoneTeam}, NEW marks, CrewInv(team), NEW n \in Nodes,
         Crew(team, marks)!HealthAnswer(n)
  PROVE  CrewInv(team)'
<1>1. CrewType(team)'
  <2>1. results' \in [Nodes -> [team -> {"none"} \cup Answers]]
    <3>1. CASE results' = results
      BY <3>1 DEF CrewInv, CrewType
    <3>2. CASE results' # results
      <4>1. PICK a \in asking[n] : results' = [results EXCEPT ![n][a] = "failed"]
        BY <3>2 DEF Crew!HealthAnswer
      <4>2. [results[n] EXCEPT ![a] = "failed"] \in [team -> {"none"} \cup Answers]
        BY DEF CrewInv, CrewType, Answers
      <4> QED
        BY <4>1, <4>2 DEF CrewInv, CrewType
    <3> QED
      BY <3>1, <3>2
  <2> QED
    BY <2>1 DEF CrewInv, CrewType, CrewSteps, FirstSteps, CollectSteps, LastSteps,
        PromoteSteps, Verdicts, Crew!HealthAnswer, Crew!Goto, Crew!At, Crew!redis,
        Crew!relay, Crew!listener, Crew!world
<1>2. CrewGrows(team)
  BY DEF CrewInv, CrewGrows, Begun, CrewType, Crew!HealthAnswer, Crew!Goto, Crew!At,
      Crew!redis, Crew!relay, Crew!listener, Crew!world
<1>3. Begun(team)' /\ HashTrue(team)'
  BY CrewPlaced DEF CrewInv, Begun, HashTrue, CrewType, NodeSound, Listening,
      Coordinating, FirstSteps, Crew!HealthAnswer, Crew!Goto, Crew!At, Crew!redis,
      Crew!relay, Crew!listener, Crew!world
<1>4. DocTrue(doc, team)'
  BY <1>2, DocKept DEF CrewInv, CrewType, DocTrue, Crew!HealthAnswer, Crew!Goto, Crew!At,
      Crew!redis, Crew!relay, Crew!listener, Crew!world
<1>5. ASSUME NEW m \in Nodes PROVE InboxTrue(m)'
  BY <1>2, <1>5, InboxKept DEF CrewInv, NodeSound, Crew!HealthAnswer, Crew!Goto, Crew!At,
      Crew!redis, Crew!relay, Crew!listener, Crew!world
<1>6. ASSUME NEW m \in Nodes PROVE Listening(m, team)'
  BY <1>2, <1>6, ListeningKept DEF CrewInv, NodeSound, Crew!HealthAnswer, Crew!Goto,
      Crew!At, Crew!redis, Crew!relay, Crew!listener, Crew!world
<1>7. ASSUME NEW m \in Nodes PROVE Coordinating(m, team)'
  <2>1. CASE m # n
    BY <1>2, <1>7, <2>1, CoordinatingKept DEF CrewInv, NodeSound, CrewType,
        Crew!HealthAnswer, Crew!Goto, Crew!At, Crew!redis, Crew!relay, Crew!listener,
        Crew!world
  <2>2. CASE m = n
    <3>1. /\ pc[n] = "health_get" /\ pc'[n] = "health"
          /\ \A a \in team : results'[n][a] \in {results[n][a], "failed"}
          /\ copy'[n] = copy[n] /\ expected'[n] = expected[n] /\ verdict'[n] = verdict[n]
          /\ UNCHANGED <<doc, hash, work, up>>
      BY DEF CrewInv, CrewType, Crew!HealthAnswer, Crew!Goto, Crew!At, Crew!redis,
          Crew!relay, Crew!listener, Crew!world
    <3>2. DocTrue(copy[n], team)'
      BY <1>2, <1>4, <3>1, DocKept DEF CrewInv, NodeSound, Coordinating, CrewType, DocTrue
    <3>3. \A a \in team : results'[n][a] = "completed" => work'[a] = "completed"
      BY <1>2, <3>1 DEF CrewInv, NodeSound, Coordinating, CrewGrows, CrewType, DocTrue, Stored,
                        Documents, Answers, Matches
    <3> QED
      BY <1>2, <2>2, <3>1, <3>2, <3>3
         DEF CrewInv, NodeSound, Coordinating, Collecting, FirstSteps, CollectSteps, LastSteps,
             PromoteSteps, CrewGrows, AllCompleted, Begun, CrewType, Answers
  <2> QED
    BY <2>1, <2>2
<1> QED
  BY <1>1, <1>3, <1>4, <1>5, <1>6, <1>7 DEF CrewInv, NodeSound

LEMMA CleanupKeeps ==
  ASSUME NEW team \in {Agents, LoneTeam}, NEW marks, CrewInv(team), NEW n \in Nodes,
         Crew(team, marks)!Cleanup(n)
  PROVE  CrewInv(team)'
<1>1. CrewType(team)'
  <2>1. /\ results' \in [Nodes -> [team -> {"none"} \cup Answers]]
        /\ inbox' \in [Nodes -> Seq(Messages(team))] /\ hmsg' \in [Nodes -> Seq(Messages(team))]
    <3>1. [a \in team |-> "none"] \in [team -> {"none"} \cup Answers] /\ <<>> \in Seq(Messages(team))
      OBVIOUS
    <3> QED
      BY <3>1 DEF CrewInv, CrewType, Crew!Cleanup, Crew!Forget
  <2> QED
    BY <2>1, CrewPlaced DEF CrewInv, CrewType, Stored, Verdicts, CrewSteps, FirstSteps,
        CollectSteps, LastSteps, PromoteSteps, Crew!Cleanup, Crew!Goto, Crew!At,
        Crew!Forget, Crew!redis, Crew!world
<1>2. CrewGrows(team)
  BY DEF CrewInv, CrewGrows, Begun, CrewType, Crew!Cleanup, Crew!Goto, Crew!At,
      Crew!Forget, Crew!redis, Crew!world
<1>3. Begun(team)' /\ HashTrue(team)'
  BY CrewPlaced DEF CrewInv, Begun, HashTrue, CrewType, NodeSound, Listening,
      Coordinating, FirstSteps, Crew!Cleanup, Crew!Goto, Crew!At, Crew!Forget, Crew!redis,
      Crew!world
<1>4. DocTrue(doc, team)'
  BY <1>2, DocKept DEF CrewInv, CrewType, DocTrue, Crew!Cleanup, Crew!Goto, Crew!At,
      Crew!Forget, Crew!redis, Crew!world
<1>5. ASSUME NEW m \in Nodes PROVE InboxTrue(m)'
  <2>1. CASE m = n
    <3>1. inbox'[m] = <<>>
      BY <2>1, CrewPlaced DEF CrewInv, CrewType, Crew!Cleanup, Crew!Forget
    <3> QED
      BY <3>1 DEF InboxTrue
  <2>2. CASE m # n
    BY <1>2, <1>5, <2>2, InboxKept DEF CrewInv, CrewType, NodeSound, Crew!Cleanup, Crew!Forget
  <2> QED
    BY <2>1, <2>2
<1>6. ASSUME NEW m \in Nodes PROVE Listening(m, team)'
  <2>1. CASE m # n
    BY <1>2, <1>6, <2>1, ListeningKept DEF CrewInv, NodeSound, CrewType, Crew!Cleanup,
        Crew!Goto, Crew!At, Crew!Forget, Crew!redis, Crew!world
  <2>2. CASE m = n
    BY <1>2, <2>2, DocKept DEF CrewInv, NodeSound, Listening, DocTrue, CrewType, Stored,
        Documents, Messages, CrewSteps, FirstSteps, CollectSteps, LastSteps, PromoteSteps,
        Answers, Verdicts, Crew!Cleanup, Crew!Goto, Crew!At, Crew!Forget, Crew!redis,
        Crew!world
  <2> QED
    BY <2>1, <2>2
<1>7. ASSUME NEW m \in Nodes PROVE Coordinating(m, team)'
  <2>1. CASE m # n
    BY <1>2, <1>7, <2>1, CoordinatingKept DEF CrewInv, NodeSound, CrewType, Crew!Cleanup,
        Crew!Goto, Crew!At, Crew!Forget, Crew!redis, Crew!world
  <2>2. CASE m = n
    BY <1>2, <2>2, DocKept DEF CrewInv, NodeSound, Coordinating, Collecting, DocTrue,
        CrewGrows, AllCompleted, Begun, CrewType, Stored, Documents, Messages, CrewSteps,
        FirstSteps, CollectSteps, LastSteps, PromoteSteps, Answers, Verdicts,
        Crew!Cleanup, Crew!Goto, Crew!At, Crew!Forget, Crew!redis, Crew!world
  <2> QED
    BY <2>1, <2>2
<1> QED
  BY <1>1, <1>3, <1>4, <1>5, <1>6, <1>7 DEF CrewInv, NodeSound

LEMMA PromoteKeeps ==
  ASSUME NEW team \in {Agents, LoneTeam}, NEW marks, CrewInv(team), NEW n \in Nodes,
         Crew(team, marks)!Promote(n)
  PROVE  CrewInv(team)'
<1>1. CrewType(team)'
  BY CrewPlaced DEF CrewInv, CrewType, Stored, Documents, Messages, CrewSteps, FirstSteps,
      CollectSteps, LastSteps, PromoteSteps, Answers, Verdicts, Crew!Promote, Crew!Goto,
      Crew!At, Crew!redis, Crew!relay, Crew!listener, Crew!memory, Crew!world
<1>2. CrewGrows(team)
  BY DEF CrewInv, CrewGrows, Begun, CrewType, Crew!Promote, Crew!Goto, Crew!At,
      Crew!redis, Crew!relay, Crew!listener, Crew!memory, Crew!world
<1>3. Begun(team)' /\ HashTrue(team)'
  BY CrewPlaced DEF CrewInv, Begun, HashTrue, CrewType, NodeSound, Listening,
      Coordinating, FirstSteps, Crew!Promote, Crew!Goto, Crew!At, Crew!redis, Crew!relay,
      Crew!listener, Crew!memory, Crew!world
<1>4. DocTrue(doc, team)'
  BY <1>2, DocKept DEF CrewInv, CrewType, DocTrue, Crew!Promote, Crew!Goto, Crew!At,
      Crew!redis, Crew!relay, Crew!listener, Crew!memory, Crew!world
<1>5. ASSUME NEW m \in Nodes PROVE InboxTrue(m)'
  BY <1>2, <1>5, InboxKept DEF CrewInv, NodeSound, Crew!Promote, Crew!Goto, Crew!At,
      Crew!redis, Crew!relay, Crew!listener, Crew!memory, Crew!world
<1>6. ASSUME NEW m \in Nodes PROVE Listening(m, team)'
  BY <1>2, <1>6, ListeningKept DEF CrewInv, NodeSound, Crew!Promote, Crew!Goto, Crew!At,
      Crew!redis, Crew!relay, Crew!listener, Crew!memory, Crew!world
<1>7. ASSUME NEW m \in Nodes PROVE Coordinating(m, team)'
  <2>1. CASE m # n
    BY <1>2, <1>7, <2>1, CoordinatingKept DEF CrewInv, NodeSound, CrewType, Crew!Promote,
        Crew!Goto, Crew!At, Crew!redis, Crew!relay, Crew!listener, Crew!memory, Crew!world
  <2>2. CASE m = n
    <3>1. /\ pc[n] = "idle" /\ pc'[n] = "promote_read"
          /\ copy'[n] = copy[n] /\ expected'[n] = expected[n]
          /\ results'[n] = results[n] /\ verdict'[n] = verdict[n]
          /\ UNCHANGED <<doc, hash, work, up>>
      BY DEF CrewInv, CrewType, Crew!Promote, Crew!Goto, Crew!At, Crew!redis, Crew!relay,
          Crew!listener, Crew!memory, Crew!world
    <3>2. DocTrue(copy[n], team)'
      BY <1>2, <1>4, <3>1, DocKept DEF CrewInv, NodeSound, Coordinating, CrewType, DocTrue
    <3>3. \A a \in team : results'[n][a] = "completed" => work'[a] = "completed"
      BY <1>2, <3>1 DEF CrewInv, NodeSound, Coordinating, CrewGrows, CrewType, DocTrue, Stored,
                        Documents, Answers, Matches
    <3> QED
      BY <1>2, <2>2, <3>1, <3>2, <3>3
         DEF CrewInv, NodeSound, Coordinating, Collecting, FirstSteps, CollectSteps, LastSteps,
             PromoteSteps, CrewGrows, AllCompleted, Begun, CrewType, Answers
  <2> QED
    BY <2>1, <2>2
<1> QED
  BY <1>1, <1>3, <1>4, <1>5, <1>6, <1>7 DEF CrewInv, NodeSound

LEMMA PromoteReadKeeps ==
  ASSUME NEW team \in {Agents, LoneTeam}, NEW marks, CrewInv(team), NEW n \in Nodes,
         Crew(team, marks)!PromoteRead(n)
  PROVE  CrewInv(team)'
<1>1. CrewType(team)'
  BY CrewPlaced DEF CrewInv, CrewType, Stored, Documents, Messages, CrewSteps, FirstSteps,
      CollectSteps, LastSteps, PromoteSteps, Answers, Verdicts, Crew!PromoteRead,
      Crew!Goto, Crew!At, Crew!redis, Crew!relay, Crew!listener, Crew!world
<1>2. CrewGrows(team)
  BY DEF CrewInv, CrewGrows, Begun, CrewType, Crew!PromoteRead, Crew!Goto, Crew!At,
      Crew!redis, Crew!relay, Crew!listener, Crew!world
<1>3. Begun(team)' /\ HashTrue(team)'
  BY CrewPlaced DEF CrewInv, Begun, HashTrue, CrewType, NodeSound, Listening,
      Coordinating, FirstSteps, Crew!PromoteRead, Crew!Goto, Crew!At, Crew!redis,
      Crew!relay, Crew!listener, Crew!world
<1>4. DocTrue(doc, team)'
  BY <1>2, DocKept DEF CrewInv, CrewType, DocTrue, Crew!PromoteRead, Crew!Goto, Crew!At,
      Crew!redis, Crew!relay, Crew!listener, Crew!world
<1>5. ASSUME NEW m \in Nodes PROVE InboxTrue(m)'
  BY <1>2, <1>5, InboxKept DEF CrewInv, NodeSound, Crew!PromoteRead, Crew!Goto, Crew!At,
      Crew!redis, Crew!relay, Crew!listener, Crew!world
<1>6. ASSUME NEW m \in Nodes PROVE Listening(m, team)'
  BY <1>2, <1>6, ListeningKept DEF CrewInv, NodeSound, Crew!PromoteRead, Crew!Goto,
      Crew!At, Crew!redis, Crew!relay, Crew!listener, Crew!world
<1>7. ASSUME NEW m \in Nodes PROVE Coordinating(m, team)'
  <2>1. CASE m # n
    BY <1>2, <1>7, <2>1, CoordinatingKept DEF CrewInv, NodeSound, CrewType,
        Crew!PromoteRead, Crew!Goto, Crew!At, Crew!redis, Crew!relay, Crew!listener,
        Crew!world
  <2>2. CASE m = n
    <3>1. /\ pc[n] = "promote_read" /\ pc'[n] = "promote_write"
          /\ copy'[n] = doc
          /\ expected'[n] = expected[n] /\ results'[n] = results[n] /\ verdict'[n] = verdict[n]
          /\ UNCHANGED <<doc, hash, work, up>>
      BY DEF CrewInv, CrewType, Crew!PromoteRead, Crew!Goto, Crew!At, Crew!redis,
          Crew!relay, Crew!listener, Crew!world
    <3>2. DocTrue(copy[n], team)'
      BY <1>2, <1>4, <3>1, DocKept DEF CrewInv, NodeSound, Coordinating, CrewType, DocTrue
    <3>3. \A a \in team : results'[n][a] = "completed" => work'[a] = "completed"
      BY <1>2, <3>1 DEF CrewInv, NodeSound, Coordinating, CrewGrows, CrewType, DocTrue, Stored,
                        Documents, Answers, Matches
    <3> QED
      BY <1>2, <2>2, <3>1, <3>2, <3>3
         DEF CrewInv, NodeSound, Coordinating, Collecting, FirstSteps, CollectSteps, LastSteps,
             PromoteSteps, CrewGrows, AllCompleted, Begun, CrewType, Answers
  <2> QED
    BY <2>1, <2>2
<1> QED
  BY <1>1, <1>3, <1>4, <1>5, <1>6, <1>7 DEF CrewInv, NodeSound

LEMMA PromoteWriteKeeps ==
  ASSUME NEW team \in {Agents, LoneTeam}, NEW marks, CrewInv(team), NEW n \in Nodes,
         Crew(team, marks)!PromoteWrite(n)
  PROVE  CrewInv(team)'
<1>1. CrewType(team)'
  BY CrewPlaced DEF CrewInv, CrewType, Stored, Documents, Messages, CrewSteps, FirstSteps,
      CollectSteps, LastSteps, PromoteSteps, Answers, Verdicts, Crew!PromoteWrite,
      Crew!Goto, Crew!At, Crew!relay, Crew!listener, Crew!world
<1>2. CrewGrows(team)
  BY DEF CrewInv, CrewGrows, Begun, CrewType, Crew!PromoteWrite, Crew!Goto, Crew!At,
      Crew!relay, Crew!listener, Crew!world
<1>3. Begun(team)' /\ HashTrue(team)'
  BY CrewPlaced DEF CrewInv, Begun, HashTrue, CrewType, NodeSound, Listening,
      Coordinating, FirstSteps, Crew!PromoteWrite, Crew!Goto, Crew!At, Crew!relay,
      Crew!listener, Crew!world
<1>4. DocTrue(doc, team)'
  <2>1. /\ doc' = (IF copy[n] = NoDoc THEN doc ELSE copy[n]) /\ DocTrue(copy[n], team)
        /\ UNCHANGED <<hash, work>>
    BY DEF CrewInv, NodeSound, Coordinating, Crew!PromoteWrite, Crew!world
  <2> QED
    BY <2>1 DEF CrewInv, DocTrue, Matches, AllCompleted
<1>5. ASSUME NEW m \in Nodes PROVE InboxTrue(m)'
  BY <1>2, <1>5, InboxKept DEF CrewInv, NodeSound, Crew!PromoteWrite, Crew!Goto, Crew!At,
      Crew!relay, Crew!listener, Crew!world
<1>6. ASSUME NEW m \in Nodes PROVE Listening(m, team)'
  BY <1>2, <1>6, ListeningKept DEF CrewInv, NodeSound, Crew!PromoteWrite, Crew!Goto,
      Crew!At, Crew!relay, Crew!listener, Crew!world
<1>7. ASSUME NEW m \in Nodes PROVE Coordinating(m, team)'
  <2>1. CASE m # n
    BY <1>2, <1>7, <2>1, CoordinatingKept DEF CrewInv, NodeSound, CrewType,
        Crew!PromoteWrite, Crew!Goto, Crew!At, Crew!relay, Crew!listener, Crew!world
  <2>2. CASE m = n
    BY <1>2, <2>2, DocKept DEF CrewInv, NodeSound, Coordinating, Collecting, DocTrue,
        CrewGrows, AllCompleted, Begun, CrewType, Stored, Documents, Messages, CrewSteps,
        FirstSteps, CollectSteps, LastSteps, PromoteSteps, Answers, Verdicts,
        Crew!PromoteWrite, Crew!Goto, Crew!At, Crew!relay, Crew!listener, Crew!world
  <2> QED
    BY <2>1, <2>2
<1> QED
  BY <1>1, <1>3, <1>4, <1>5, <1>6, <1>7 DEF CrewInv, NodeSound

LEMMA PromoteLoadKeeps ==
  ASSUME NEW team \in {Agents, LoneTeam}, NEW marks, CrewInv(team), NEW n \in Nodes,
         Crew(team, marks)!PromoteLoad(n)
  PROVE  CrewInv(team)'
<1>1. CrewType(team)'
  <2>1. results' \in [Nodes -> [team -> {"none"} \cup Answers]] /\ expected' \in [Nodes -> SUBSET team]
    <3>1. CASE doc = NoDoc
      BY <3>1 DEF CrewInv, CrewType, Crew!PromoteLoad
    <3>2. CASE doc # NoDoc
      <4>1. [a \in team |-> IF doc.placed[a] \in {"completed", "failed"} THEN doc.placed[a]
                            ELSE "none"] \in [team -> {"none"} \cup Answers]
        BY DEF Answers
      <4>2. /\ expected' = [expected EXCEPT ![n] = team]
            /\ results' = [results EXCEPT ![n] = [a \in team |->
                 IF doc.placed[a] \in {"completed", "failed"} THEN doc.placed[a] ELSE "none"]]
        BY <3>2 DEF Crew!PromoteLoad
      <4>3. expected \in [Nodes -> SUBSET team]
            /\ results \in [Nodes -> [team -> {"none"} \cup Answers]]
        BY DEF CrewInv, CrewType
      <4> QED
        BY <4>1, <4>2, <4>3
    <3> QED
      BY <3>1, <3>2
  <2> QED
    BY <2>1 DEF CrewInv, CrewType, CrewSteps, FirstSteps, CollectSteps, LastSteps,
        PromoteSteps, Verdicts, Crew!PromoteLoad, Crew!Goto, Crew!At, Crew!redis,
        Crew!relay, Crew!listener, Crew!world
<1>2. CrewGrows(team)
  BY DEF CrewInv, CrewGrows, Begun, CrewType, Crew!PromoteLoad, Crew!Goto, Crew!At,
      Crew!redis, Crew!relay, Crew!listener, Crew!world
<1>3. Begun(team)' /\ HashTrue(team)'
  BY CrewPlaced DEF CrewInv, Begun, HashTrue, CrewType, NodeSound, Listening,
      Coordinating, FirstSteps, Crew!PromoteLoad, Crew!Goto, Crew!At, Crew!redis,
      Crew!relay, Crew!listener, Crew!world
<1>4. DocTrue(doc, team)'
  BY <1>2, DocKept DEF CrewInv, CrewType, DocTrue, Crew!PromoteLoad, Crew!Goto, Crew!At,
      Crew!redis, Crew!relay, Crew!listener, Crew!world
<1>5. ASSUME NEW m \in Nodes PROVE InboxTrue(m)'
  BY <1>2, <1>5, InboxKept DEF CrewInv, NodeSound, Crew!PromoteLoad, Crew!Goto, Crew!At,
      Crew!redis, Crew!relay, Crew!listener, Crew!world
<1>6. ASSUME NEW m \in Nodes PROVE Listening(m, team)'
  BY <1>2, <1>6, ListeningKept DEF CrewInv, NodeSound, Crew!PromoteLoad, Crew!Goto,
      Crew!At, Crew!redis, Crew!relay, Crew!listener, Crew!world
<1>7. ASSUME NEW m \in Nodes PROVE Coordinating(m, team)'
  <2>1. CASE m # n
    BY <1>2, <1>7, <2>1, CoordinatingKept DEF CrewInv, NodeSound, CrewType,
        Crew!PromoteLoad, Crew!Goto, Crew!At, Crew!redis, Crew!relay, Crew!listener,
        Crew!world
  <2>2. CASE m = n
    <3>1. /\ pc[n] = "promote_load" /\ pc'[n] = "promote_sub"
          /\ doc = NoDoc => results'[n] = results[n]
          /\ doc # NoDoc => expected'[n] = team
          /\ doc # NoDoc => \A a \in team : results'[n][a] = "completed" => doc.placed[a] = "completed"
          /\ copy'[n] = copy[n] /\ verdict'[n] = verdict[n]
          /\ UNCHANGED <<doc, hash, work, up>>
      BY DEF CrewInv, CrewType, Crew!PromoteLoad, Crew!Goto, Crew!At, Crew!redis,
          Crew!relay, Crew!listener, Crew!world
    <3>2. DocTrue(copy[n], team)'
      BY <1>2, <1>4, <3>1, DocKept DEF CrewInv, NodeSound, Coordinating, CrewType, DocTrue
    <3>3. \A a \in team : results'[n][a] = "completed" => work'[a] = "completed"
      BY <1>2, <3>1 DEF CrewInv, NodeSound, Coordinating, CrewGrows, CrewType, DocTrue, Stored,
                        Documents, Answers, Matches
    <3> QED
      BY <1>2, <2>2, <3>1, <3>2, <3>3
         DEF CrewInv, NodeSound, Coordinating, Collecting, FirstSteps, CollectSteps, LastSteps,
             PromoteSteps, CrewGrows, AllCompleted, Begun, CrewType, Answers
  <2> QED
    BY <2>1, <2>2
<1> QED
  BY <1>1, <1>3, <1>4, <1>5, <1>6, <1>7 DEF CrewInv, NodeSound

LEMMA PromoteSubscribeKeeps ==
  ASSUME NEW team \in {Agents, LoneTeam}, NEW marks, CrewInv(team), NEW n \in Nodes,
         Crew(team, marks)!PromoteSubscribe(n)
  PROVE  CrewInv(team)'
<1>1. CrewType(team)'
  BY CrewPlaced DEF CrewInv, CrewType, Stored, Documents, Messages, CrewSteps, FirstSteps,
      CollectSteps, LastSteps, PromoteSteps, Answers, Verdicts, Crew!PromoteSubscribe,
      Crew!Goto, Crew!At, Crew!redis, Crew!listener, Crew!memory, Crew!world
<1>2. CrewGrows(team)
  BY DEF CrewInv, CrewGrows, Begun, CrewType, Crew!PromoteSubscribe, Crew!Goto, Crew!At,
      Crew!redis, Crew!listener, Crew!memory, Crew!world
<1>3. Begun(team)' /\ HashTrue(team)'
  BY CrewPlaced DEF CrewInv, Begun, HashTrue, CrewType, NodeSound, Listening,
      Coordinating, FirstSteps, Crew!PromoteSubscribe, Crew!Goto, Crew!At, Crew!redis,
      Crew!listener, Crew!memory, Crew!world
<1>4. DocTrue(doc, team)'
  BY <1>2, DocKept DEF CrewInv, CrewType, DocTrue, Crew!PromoteSubscribe, Crew!Goto,
      Crew!At, Crew!redis, Crew!listener, Crew!memory, Crew!world
<1>5. ASSUME NEW m \in Nodes PROVE InboxTrue(m)'
  BY <1>2, <1>5, InboxKept DEF CrewInv, NodeSound, Crew!PromoteSubscribe, Crew!Goto,
      Crew!At, Crew!redis, Crew!listener, Crew!memory, Crew!world
<1>6. ASSUME NEW m \in Nodes PROVE Listening(m, team)'
  BY <1>2, <1>6, ListeningKept DEF CrewInv, NodeSound, Crew!PromoteSubscribe, Crew!Goto,
      Crew!At, Crew!redis, Crew!listener, Crew!memory, Crew!world
<1>7. ASSUME NEW m \in Nodes PROVE Coordinating(m, team)'
  <2>1. CASE m # n
    BY <1>2, <1>7, <2>1, CoordinatingKept DEF CrewInv, NodeSound, CrewType,
        Crew!PromoteSubscribe, Crew!Goto, Crew!At, Crew!redis, Crew!listener, Crew!memory,
        Crew!world
  <2>2. CASE m = n
    <3>1. /\ pc[n] = "promote_sub" /\ pc'[n] = "collect"
          /\ copy'[n] = copy[n] /\ expected'[n] = expected[n]
          /\ results'[n] = results[n] /\ verdict'[n] = verdict[n]
          /\ UNCHANGED <<doc, hash, work, up>>
      BY DEF CrewInv, CrewType, Crew!PromoteSubscribe, Crew!Goto, Crew!At, Crew!redis,
          Crew!listener, Crew!memory, Crew!world
    <3>2. DocTrue(copy[n], team)'
      BY <1>2, <1>4, <3>1, DocKept DEF CrewInv, NodeSound, Coordinating, CrewType, DocTrue
    <3>3. \A a \in team : results'[n][a] = "completed" => work'[a] = "completed"
      BY <1>2, <3>1 DEF CrewInv, NodeSound, Coordinating, CrewGrows, CrewType, DocTrue, Stored,
                        Documents, Answers, Matches
    <3> QED
      BY <1>2, <2>2, <3>1, <3>2, <3>3
         DEF CrewInv, NodeSound, Coordinating, Collecting, FirstSteps, CollectSteps, LastSteps,
             PromoteSteps, CrewGrows, AllCompleted, Begun, CrewType, Answers
  <2> QED
    BY <2>1, <2>2
<1> QED
  BY <1>1, <1>3, <1>4, <1>5, <1>6, <1>7 DEF CrewInv, NodeSound

LEMMA CrashKeeps ==
  ASSUME NEW team \in {Agents, LoneTeam}, NEW marks, CrewInv(team),
         Crew(team, marks)!Crash(First)
  PROVE  CrewInv(team)'
<1>1. CrewType(team)'
  <2>1. /\ results' \in [Nodes -> [team -> {"none"} \cup Answers]]
        /\ inbox' \in [Nodes -> Seq(Messages(team))] /\ hmsg' \in [Nodes -> Seq(Messages(team))]
    <3>1. [a \in team |-> "none"] \in [team -> {"none"} \cup Answers] /\ <<>> \in Seq(Messages(team))
      OBVIOUS
    <3> QED
      BY <3>1 DEF CrewInv, CrewType, Crew!Crash, Crew!Forget
  <2> QED
    BY <2>1, CrewPlaced DEF CrewInv, CrewType, Stored, Verdicts, CrewSteps, FirstSteps,
        CollectSteps, LastSteps, PromoteSteps, Crew!Crash, Crew!Goto, Crew!Forget,
        Crew!redis
<1>2. CrewGrows(team)
  BY DEF CrewInv, CrewGrows, Begun, CrewType, Crew!Crash, Crew!Goto, Crew!Forget,
      Crew!redis
<1>3. Begun(team)' /\ HashTrue(team)'
  BY CrewPlaced DEF CrewInv, Begun, HashTrue, CrewType, NodeSound, Listening,
      Coordinating, FirstSteps, Crew!Crash, Crew!Goto, Crew!Forget, Crew!redis
<1>4. DocTrue(doc, team)'
  BY <1>2, DocKept DEF CrewInv, CrewType, DocTrue, Crew!Crash, Crew!Goto, Crew!Forget,
      Crew!redis
<1>5. ASSUME NEW m \in Nodes PROVE InboxTrue(m)'
  <2>1. CASE m = First
    <3>1. inbox'[m] = <<>>
      BY <2>1, CrewPlaced DEF CrewInv, CrewType, Crew!Crash, Crew!Forget
    <3> QED
      BY <3>1 DEF InboxTrue
  <2>2. CASE m # First
    BY <1>2, <1>5, <2>2, InboxKept DEF CrewInv, CrewType, NodeSound, Crew!Crash, Crew!Forget
  <2> QED
    BY <2>1, <2>2
<1>6. ASSUME NEW m \in Nodes PROVE Listening(m, team)'
  <2>1. CASE m # First
    BY <1>2, <1>6, <2>1, ListeningKept DEF CrewInv, NodeSound, CrewType, Crew!Crash,
        Crew!Goto, Crew!Forget, Crew!redis
  <2>2. CASE m = First
    BY <1>2, <2>2, DocKept DEF CrewInv, NodeSound, Listening, DocTrue, CrewType, Stored,
        Documents, Messages, CrewSteps, FirstSteps, CollectSteps, LastSteps, PromoteSteps,
        Answers, Verdicts, Crew!Crash, Crew!Goto, Crew!Forget, Crew!redis
  <2> QED
    BY <2>1, <2>2
<1>7. ASSUME NEW m \in Nodes PROVE Coordinating(m, team)'
  <2>1. CASE m # First
    BY <1>2, <1>7, <2>1, CoordinatingKept DEF CrewInv, NodeSound, CrewType, Crew!Crash,
        Crew!Goto, Crew!Forget, Crew!redis
  <2>2. CASE m = First
    BY <1>2, <2>2, DocKept DEF CrewInv, NodeSound, Coordinating, Collecting, DocTrue,
        CrewGrows, AllCompleted, Begun, CrewType, Stored, Documents, Messages, CrewSteps,
        FirstSteps, CollectSteps, LastSteps, PromoteSteps, Answers, Verdicts, Crew!Crash,
        Crew!Goto, Crew!Forget, Crew!redis
  <2> QED
    BY <2>1, <2>2
<1> QED
  BY <1>1, <1>3, <1>4, <1>5, <1>6, <1>7 DEF CrewInv, NodeSound

LEMMA DeadlinePassesKeeps ==
  ASSUME NEW team \in {Agents, LoneTeam}, NEW marks, CrewInv(team),
         Crew(team, marks)!DeadlinePasses
  PROVE  CrewInv(team)'
<1>1. CrewType(team)'
  BY CrewPlaced DEF CrewInv, CrewType, Stored, Documents, Messages, CrewSteps, FirstSteps,
      CollectSteps, LastSteps, PromoteSteps, Answers, Verdicts, Crew!DeadlinePasses,
      Crew!redis, Crew!relay, Crew!listener, Crew!task, Crew!memory
<1>2. CrewGrows(team)
  BY DEF CrewInv, CrewGrows, Begun, CrewType, Crew!DeadlinePasses, Crew!redis, Crew!relay,
      Crew!listener, Crew!task, Crew!memory
<1>3. Begun(team)' /\ HashTrue(team)'
  BY CrewPlaced DEF CrewInv, Begun, HashTrue, CrewType, NodeSound, Listening,
      Coordinating, FirstSteps, Crew!DeadlinePasses, Crew!redis, Crew!relay,
      Crew!listener, Crew!task, Crew!memory
<1>4. DocTrue(doc, team)'
  BY <1>2, DocKept DEF CrewInv, CrewType, DocTrue, Crew!DeadlinePasses, Crew!redis,
      Crew!relay, Crew!listener, Crew!task, Crew!memory
<1>5. ASSUME NEW m \in Nodes PROVE InboxTrue(m)'
  BY <1>2, <1>5, InboxKept DEF CrewInv, NodeSound, Crew!DeadlinePasses, Crew!redis,
      Crew!relay, Crew!listener, Crew!task, Crew!memory
<1>6. ASSUME NEW m \in Nodes PROVE Listening(m, team)'
  BY <1>2, <1>6, ListeningKept DEF CrewInv, NodeSound, Crew!DeadlinePasses, Crew!redis,
      Crew!relay, Crew!listener, Crew!task, Crew!memory
<1>7. ASSUME NEW m \in Nodes PROVE Coordinating(m, team)'
  BY <1>2, <1>7, CoordinatingKept DEF CrewInv, NodeSound, Crew!DeadlinePasses, Crew!redis,
      Crew!relay, Crew!listener, Crew!task, Crew!memory
<1> QED
  BY <1>1, <1>3, <1>4, <1>5, <1>6, <1>7 DEF CrewInv, NodeSound

LEMMA CrewInvStep ==
  ASSUME NEW team \in {Agents, LoneTeam}, NEW marks, CrewInv(team),
         Crew(team, marks)!Next \/ UNCHANGED crewVars
  PROVE  CrewInv(team)'
<1>1. CASE UNCHANGED crewVars
  <2>1. CrewType(team)' /\ Begun(team)' /\ HashTrue(team)'
    BY <1>1 DEF CrewInv, CrewType, Begun, HashTrue, crewVars
  <2>2. CrewGrows(team)
    BY <1>1 DEF CrewGrows, crewVars
  <2>3. DocTrue(doc, team)'
    BY <1>1 DEF CrewInv, DocTrue, Matches, AllCompleted, crewVars
  <2>4. \A n \in Nodes : NodeSound(n, team)'
    BY <1>1, <2>2, InboxKept, ListeningKept, CoordinatingKept DEF CrewInv, NodeSound, crewVars
  <2> QED
    BY <2>1, <2>3, <2>4 DEF CrewInv
<1>2. CASE Crew(team, marks)!Plan
  BY <1>2, CreateStateKeeps, CreateAgentsKeeps, SubscribeKeeps, HandoffKeeps, DistributedKeeps,
     RunLocalKeeps DEF Crew!Plan
<1>3. ASSUME NEW n \in Nodes, Crew(team, marks)!Coordinate(n) PROVE CrewInv(team)'
  <2>1. CASE Crew(team, marks)!SetStatusWrite(n, "run_write", "running", "local")
    BY <2>1, SetStatusWriteKeeps
  <2>2. CASE Crew(team, marks)!SetStatusWrite(n, "final_write", verdict[n], "cleanup")
    <3>1. \A s : s = verdict[n] /\ Crew(team, marks)!SetStatusWrite(n, "final_write", s, "cleanup")
            => CrewInv(team)'
      BY SetStatusWriteKeeps
    <3> QED
      BY <2>2, <3>1
  <2> QED
    BY <1>3, <2>1, <2>2, SetStatusReadKeeps, AllCollectedKeeps, TimeOutKeeps,
       CheckNodeHealthKeeps,
       HealthAskKeeps, HealthAnswerKeeps, CleanupKeeps, PromoteReadKeeps, PromoteWriteKeeps,
       PromoteLoadKeeps, PromoteSubscribeKeeps DEF Crew!Coordinate
<1>4. ASSUME NEW n \in Nodes, Crew(team, marks)!Listen(n) PROVE CrewInv(team)'
  BY <1>4, ReceiveKeeps, UpdateHashKeeps, UpdateReadKeeps, UpdateWriteKeeps DEF Crew!Listen
<1> QED
  BY <1>1, <1>2, <1>3, <1>4, DeadlinePassesKeeps, CrashKeeps, PromoteKeeps, PublishResultKeeps,
     PublishCheckpointKeeps DEF Crew!Next

LEMMA CrewHolds ==
  ASSUME NEW team \in {Agents, LoneTeam}, NEW marks, CrewInv(team)
  PROVE  CrewHonestIn(team, marks)
<1>1. Crew(team, marks)!CompletedTrue
  BY DEF CrewInv, DocTrue, AllCompleted, Crew!CompletedTrue
<1>2. Crew(team, marks)!HashAhead
  BY DEF CrewInv, DocTrue, Matches, Crew!HashAhead
<1>3. Crew(team, marks)!EveryAgentAnswered
  BY DEF CrewInv, NodeSound, Coordinating, LastSteps, Crew!EveryAgentAnswered
<1> QED
  BY <1>1, <1>2, <1>3 DEF CrewHonestIn

----------------------------------------------------------------------------
(* The fleet's inventory                                                    *)

Records   == [beat : Nat, expires : Nat]
Beats     == Nat \cup {NoRecord}
NodeSteps == {"off", "writing", "joining", "on", "beating", "leaving"}

InventoryType ==
  /\ now \in Nat /\ started \in Nat /\ epc \in {"idle", "get", "judge"}
  /\ record \in [RegNodes -> Records \cup {NoRecord}]
  /\ nodeSet \subseteq RegNodes /\ groupSet \subseteq RegNodes /\ ids \subseteq RegNodes
  /\ proc \in [RegNodes -> NodeSteps] /\ todo \in [RegNodes -> SUBSET Registry!Commands]
  /\ beat \in [RegNodes -> Nat] /\ left \in [RegNodes -> Nat]
  /\ found \in [RegNodes -> Beats] /\ cut \subseteq Registry!Commands \X RegNodes

\* No heartbeat is taken ahead of the clock, and none after its node stopped.
BeatTaken(n) ==
  /\ beat[n] <= now /\ left[n] <= now
  /\ record[n] # NoRecord =>
       /\ record[n].beat <= now
       /\ proc[n] \in {"off", "leaving"} => record[n].beat <= left[n]

\* What a punctual node has in Redis: a record no older than an interval that does not
\* expire before it would be dead, and its names but those it is about to write.
Written(n) == record[n] # NoRecord /\ record[n].beat + NodeTTL < record[n].expires
Fresh(n) ==
  /\ proc[n] \in {"joining", "on"} => record[n].beat = beat[n] /\ now <= beat[n] + 1
  /\ proc[n] = "beating" => beat[n] = now /\ now <= record[n].beat + 1
Named(n) ==
  /\ n \in nodeSet \/ (proc[n] = "joining" /\ "nodes" \in todo[n])
  /\ n \in groupSet \/ (proc[n] = "joining" /\ "group" \in todo[n])

\* The eviction under way has read no heartbeat of it that is too old by now, and removes
\* nothing of it.
Spared(n) ==
  /\ found[n] # NoRecord => started <= found[n] + 1
  /\ \A c \in Registry!Commands : <<c, n>> \notin cut

Punctual(n) ==
  /\ proc[n] = "writing" => epc = "idle" /\ now <= beat[n] + 1
  /\ proc[n] \in {"joining", "on", "beating"} => Written(n) /\ Fresh(n) /\ Named(n) /\ Spared(n)

EvictionInv ==
  /\ epc = "idle" => ids = {} /\ cut = {} /\ found = [n \in RegNodes |-> NoRecord]
  /\ epc = "judge" => ids = {}
  /\ epc # "idle" => started <= now /\ (now = started \/ now < started + NodeTTL - 1)

InventoryInv ==
  /\ InventoryType /\ EvictionInv
  /\ \A n \in RegNodes : BeatTaken(n) /\ (n \notin excused => Punctual(n))

LEMMA InventoryInvInit == Registry!Init => InventoryInv
BY NodeTimes DEF Registry!Init, InventoryInv, InventoryType, EvictionInv, BeatTaken, Punctual,
       NodeSteps, Beats, Registry!Commands

LEMMA RegisterKeeps ==
  ASSUME InventoryInv, NEW n \in RegNodes, Registry!Register(n)
  PROVE InventoryInv'
<1>1. InventoryType'
  BY NodeTimes DEF InventoryInv, InventoryType, Registry!Register, NodeSteps, Registry!keys,
                   Registry!evictor
<1>2. EvictionInv'
  BY DEF InventoryInv, EvictionInv, Registry!Register, Registry!keys, Registry!evictor
<1>3. ASSUME NEW m \in RegNodes PROVE BeatTaken(m)' /\ (m \notin excused' => Punctual(m)')
  BY <1>3, NodeTimes, NodeRecords
     DEF InventoryInv, InventoryType, EvictionInv, BeatTaken, Punctual, Written, Fresh, Named,
         Spared, Registry!Register, NodeSteps, Registry!keys, Registry!evictor
<1> QED
  BY <1>1, <1>2, <1>3 DEF InventoryInv

LEMMA WriteNodeKeeps ==
  ASSUME InventoryInv, NEW n \in RegNodes, Registry!WriteNode(n)
  PROVE InventoryInv'
<1>1. InventoryType'
  <2>1. [beat |-> beat[n], expires |-> now + 3 * NodeTTL] \in Records
    BY NodeTimes DEF InventoryInv, InventoryType, Records
  <2>2. record' \in [RegNodes -> Records \cup {NoRecord}]
    BY <2>1 DEF InventoryInv, InventoryType, Registry!WriteNode, Registry!Written
  <2> QED
    BY <2>2 DEF InventoryInv, InventoryType, Registry!WriteNode, NodeSteps, Registry!Commands,
                Registry!evictor
<1>2. EvictionInv'
  BY DEF InventoryInv, EvictionInv, Registry!WriteNode, Registry!evictor
<1>3. ASSUME NEW m \in RegNodes PROVE BeatTaken(m)' /\ (m \notin excused' => Punctual(m)')
  BY <1>3, NodeTimes, NodeRecords
     DEF InventoryInv, InventoryType, EvictionInv, BeatTaken, Punctual, Written, Fresh, Named,
         Spared, Registry!WriteNode, NodeSteps, Registry!Written, Records, Registry!evictor
<1> QED
  BY <1>1, <1>2, <1>3 DEF InventoryInv

LEMMA JoinKeeps == ASSUME InventoryInv, NEW n \in RegNodes, Registry!Join(n) PROVE InventoryInv'
<1>1. InventoryType'
  BY NodeTimes DEF InventoryInv, InventoryType, Registry!Join, NodeSteps, Registry!Commands,
                   Registry!evictor
<1>2. EvictionInv'
  BY DEF InventoryInv, EvictionInv, Registry!Join, Registry!evictor
<1>3. ASSUME NEW m \in RegNodes PROVE BeatTaken(m)' /\ (m \notin excused' => Punctual(m)')
  <2>1. CASE m # n
    BY <1>3, <2>1, NodeTimes
       DEF InventoryInv, InventoryType, BeatTaken, Punctual, Written, Fresh, Named, Spared,
           Registry!Join, NodeSteps, Registry!evictor
  <2>2. CASE m = n
    <3>1. PICK c \in todo[n] :
            /\ todo' = [todo EXCEPT ![n] = @ \ {c}]
            /\ nodeSet'  = IF c = "nodes" THEN nodeSet \cup {n} ELSE nodeSet
            /\ groupSet' = IF c = "group" THEN groupSet \cup {n} ELSE groupSet
            /\ proc' = [proc EXCEPT ![n] = IF todo[n] = {c} THEN "on" ELSE @]
      BY DEF Registry!Join
    <3>2. /\ proc[n] = "joining" /\ proc'[n] = (IF todo[n] = {c} THEN "on" ELSE "joining")
          /\ todo'[n] = todo[n] \ {c}
          /\ UNCHANGED <<now, record, beat, excused, left, epc, found, cut, started>>
      BY <3>1 DEF InventoryInv, InventoryType, Registry!Join, Registry!evictor
    <3>3. BeatTaken(n)'
      BY <3>2 DEF InventoryInv, BeatTaken
    <3>4. ASSUME n \notin excused' PROVE Punctual(n)'
      <4>1. Written(n) /\ Fresh(n) /\ Named(n) /\ Spared(n)
        BY <3>2, <3>4 DEF InventoryInv, Punctual
      <4>2. ASSUME NEW k \in Registry!Commands, k \in todo[n]
            PROVE  k = c \/ (proc'[n] = "joining" /\ k \in todo'[n])
        BY <3>2, <4>2
      <4>5. n \in nodeSet' \/ (proc'[n] = "joining" /\ "nodes" \in todo'[n])
        <5>1. nodeSet \subseteq nodeSet' /\ (c = "nodes" => n \in nodeSet')
          BY <3>1
        <5>2. n \in nodeSet \/ "nodes" \in todo[n]
          BY <4>1 DEF Named
        <5>3. "nodes" \in todo[n] => "nodes" = c \/ (proc'[n] = "joining" /\ "nodes" \in todo'[n])
          BY <4>2 DEF Registry!Commands
        <5> QED
          BY <5>1, <5>2, <5>3, Zenon
      <4>6. n \in groupSet' \/ (proc'[n] = "joining" /\ "group" \in todo'[n])
        <5>1. groupSet \subseteq groupSet' /\ (c = "group" => n \in groupSet')
          BY <3>1
        <5>2. n \in groupSet \/ "group" \in todo[n]
          BY <4>1 DEF Named
        <5>3. "group" \in todo[n] => "group" = c \/ (proc'[n] = "joining" /\ "group" \in todo'[n])
          BY <4>2 DEF Registry!Commands
        <5> QED
          BY <5>1, <5>2, <5>3, Zenon
      <4>3. Written(n)' /\ Spared(n)'
        BY <3>2, <4>1 DEF Written, Spared
      <4>4. Fresh(n)'
        BY <3>2, <4>1 DEF Fresh, InventoryInv, InventoryType
      <4> QED
        BY <3>2, <4>3, <4>4, <4>5, <4>6 DEF Punctual, Named
    <3> QED
      BY <2>2, <3>3, <3>4
  <2> QED
    BY <2>1, <2>2
<1> QED
  BY <1>1, <1>2, <1>3 DEF InventoryInv

LEMMA HeartbeatTakenKeeps ==
  ASSUME InventoryInv, NEW n \in RegNodes, Registry!HeartbeatTaken(n)
  PROVE InventoryInv'
<1>1. InventoryType'
  BY NodeTimes DEF InventoryInv, InventoryType, Registry!HeartbeatTaken, NodeSteps, Registry!keys,
                   Registry!evictor
<1>2. EvictionInv'
  BY DEF InventoryInv, EvictionInv, Registry!HeartbeatTaken, Registry!keys, Registry!evictor
<1>3. ASSUME NEW m \in RegNodes PROVE BeatTaken(m)' /\ (m \notin excused' => Punctual(m)')
  BY <1>3, NodeTimes, NodeRecords
     DEF InventoryInv, InventoryType, EvictionInv, BeatTaken, Punctual, Written, Fresh, Named,
         Spared, Registry!HeartbeatTaken, NodeSteps, Registry!keys, Registry!evictor
<1> QED
  BY <1>1, <1>2, <1>3 DEF InventoryInv

LEMMA HeartbeatWrittenKeeps ==
  ASSUME InventoryInv, NEW n \in RegNodes, Registry!HeartbeatWritten(n)
  PROVE InventoryInv'
<1>1. InventoryType'
  BY NodeTimes DEF InventoryInv, InventoryType, Registry!HeartbeatWritten, NodeSteps,
                   Registry!Written, Records, Registry!evictor
<1>2. EvictionInv'
  BY DEF InventoryInv, EvictionInv, Registry!HeartbeatWritten, Registry!evictor
<1>3. ASSUME NEW m \in RegNodes PROVE BeatTaken(m)' /\ (m \notin excused' => Punctual(m)')
  BY <1>3, NodeTimes, NodeRecords
     DEF InventoryInv, InventoryType, EvictionInv, BeatTaken, Punctual, Written, Fresh, Named,
         Spared, Registry!HeartbeatWritten, NodeSteps, Registry!Written, Records, Registry!evictor
<1> QED
  BY <1>1, <1>2, <1>3 DEF InventoryInv

LEMMA DeregisterKeeps ==
  ASSUME InventoryInv, NEW n \in RegNodes, Registry!Deregister(n)
  PROVE InventoryInv'
<1>1. InventoryType'
  BY NodeTimes DEF InventoryInv, InventoryType, Registry!Deregister, NodeSteps, Registry!Written,
                   Records, Registry!Commands, Registry!evictor
<1>2. EvictionInv'
  BY DEF InventoryInv, EvictionInv, Registry!Deregister, Registry!evictor
<1>3. ASSUME NEW m \in RegNodes PROVE BeatTaken(m)' /\ (m \notin excused' => Punctual(m)')
  BY <1>3, NodeTimes, NodeRecords
     DEF InventoryInv, InventoryType, EvictionInv, BeatTaken, Punctual, Written, Fresh, Named,
         Spared, Registry!Deregister, NodeSteps, Registry!Written, Records, Registry!Commands, Registry!evictor
<1> QED
  BY <1>1, <1>2, <1>3 DEF InventoryInv

LEMMA LeaveKeeps == ASSUME InventoryInv, NEW n \in RegNodes, Registry!Leave(n) PROVE InventoryInv'
<1>1. InventoryType'
  BY NodeTimes DEF InventoryInv, InventoryType, Registry!Leave, NodeSteps, Registry!Removed,
                   Registry!Commands, Registry!evictor
<1>2. EvictionInv'
  BY DEF InventoryInv, EvictionInv, Registry!Leave, Registry!evictor
<1>3. ASSUME NEW m \in RegNodes PROVE BeatTaken(m)' /\ (m \notin excused' => Punctual(m)')
  BY <1>3, NodeTimes, NodeRecords
     DEF InventoryInv, InventoryType, EvictionInv, BeatTaken, Punctual, Written, Fresh, Named,
         Spared, Registry!Leave, NodeSteps, Registry!Removed, Registry!Commands, Registry!evictor
<1> QED
  BY <1>1, <1>2, <1>3 DEF InventoryInv

LEMMA NodeCrashKeeps ==
  ASSUME InventoryInv, NEW n \in RegNodes, Registry!Crash(n)
  PROVE InventoryInv'
<1>1. InventoryType'
  BY NodeTimes DEF InventoryInv, InventoryType, Registry!Crash, NodeSteps, Registry!keys,
                   Registry!evictor
<1>2. EvictionInv'
  BY DEF InventoryInv, EvictionInv, Registry!Crash, Registry!keys, Registry!evictor
<1>3. ASSUME NEW m \in RegNodes PROVE BeatTaken(m)' /\ (m \notin excused' => Punctual(m)')
  BY <1>3, NodeTimes, NodeRecords
     DEF InventoryInv, InventoryType, EvictionInv, BeatTaken, Punctual, Written, Fresh, Named,
         Spared, Registry!Crash, NodeSteps, Registry!keys, Registry!evictor
<1> QED
  BY <1>1, <1>2, <1>3 DEF InventoryInv

LEMMA EvictNamesKeeps == ASSUME InventoryInv, Registry!EvictNames PROVE InventoryInv'
<1>1. InventoryType'
  BY NodeTimes DEF InventoryInv, InventoryType, Registry!EvictNames, Registry!keys
<1>2. EvictionInv'
  BY NodeTimes DEF InventoryInv, InventoryType, EvictionInv, Registry!EvictNames, Registry!keys
<1>3. ASSUME NEW m \in RegNodes PROVE BeatTaken(m)' /\ (m \notin excused' => Punctual(m)')
  BY <1>3, NodeTimes, NodeRecords
     DEF InventoryInv, InventoryType, EvictionInv, BeatTaken, Punctual, Written, Fresh, Named,
         Spared, Registry!EvictNames, Registry!keys
<1> QED
  BY <1>1, <1>2, <1>3 DEF InventoryInv

LEMMA EvictGetKeeps == ASSUME InventoryInv, Registry!EvictGet PROVE InventoryInv'
<1>1. InventoryType'
  BY NodeTimes DEF InventoryInv, InventoryType, Registry!EvictGet, Registry!keys, Beats, Records
<1>2. EvictionInv'
  BY NodeTimes DEF InventoryInv, InventoryType, EvictionInv, Registry!EvictGet, Registry!keys,
                   Beats, Records
<1>3. ASSUME NEW m \in RegNodes PROVE BeatTaken(m)' /\ (m \notin excused' => Punctual(m)')
  BY <1>3, NodeTimes, NodeRecords
     DEF InventoryInv, InventoryType, EvictionInv, BeatTaken, Punctual, Written, Fresh, Named,
         Spared, Registry!EvictGet, Registry!keys, Beats, Records
<1> QED
  BY <1>1, <1>2, <1>3 DEF InventoryInv

LEMMA EvictReadKeeps == ASSUME InventoryInv, Registry!EvictRead PROVE InventoryInv'
<1>1. InventoryType'
  BY NodeTimes DEF InventoryInv, InventoryType, Registry!EvictRead, Registry!keys
<1>2. EvictionInv'
  BY NodeTimes DEF InventoryInv, InventoryType, EvictionInv, Registry!EvictRead, Registry!keys
<1>3. ASSUME NEW m \in RegNodes PROVE BeatTaken(m)' /\ (m \notin excused' => Punctual(m)')
  BY <1>3, NodeTimes, NodeRecords
     DEF InventoryInv, InventoryType, EvictionInv, BeatTaken, Punctual, Written, Fresh, Named,
         Spared, Registry!EvictRead, Registry!keys
<1> QED
  BY <1>1, <1>2, <1>3 DEF InventoryInv

LEMMA EvictJudgeKeeps == ASSUME InventoryInv, Registry!EvictJudge PROVE InventoryInv'
<1>1. InventoryType'
  BY NodeTimes DEF InventoryInv, InventoryType, Registry!EvictJudge, Registry!keys, Beats,
                   Registry!IsAlive, Registry!Commands
<1>2. EvictionInv'
  BY NodeTimes DEF InventoryInv, InventoryType, EvictionInv, Registry!EvictJudge, Registry!keys,
                   Beats, Registry!IsAlive, Registry!Commands
<1>3. ASSUME NEW m \in RegNodes PROVE BeatTaken(m)' /\ (m \notin excused' => Punctual(m)')
  BY <1>3, NodeTimes, NodeRecords
     DEF InventoryInv, InventoryType, EvictionInv, BeatTaken, Punctual, Written, Fresh, Named,
         Spared, Registry!EvictJudge, Registry!keys, Beats, Registry!IsAlive, Registry!Commands
<1> QED
  BY <1>1, <1>2, <1>3 DEF InventoryInv

LEMMA EvictRemoveKeeps == ASSUME InventoryInv, Registry!EvictRemove PROVE InventoryInv'
<1>1. InventoryType'
  BY NodeTimes DEF InventoryInv, InventoryType, Registry!EvictRemove, Registry!Removed,
                   Registry!Commands
<1>2. EvictionInv'
  BY NodeTimes DEF InventoryInv, InventoryType, EvictionInv, Registry!EvictRemove,
                   Registry!Removed, Registry!Commands
<1>3. ASSUME NEW m \in RegNodes PROVE BeatTaken(m)' /\ (m \notin excused' => Punctual(m)')
  BY <1>3, NodeTimes, NodeRecords
     DEF InventoryInv, InventoryType, EvictionInv, BeatTaken, Punctual, Written, Fresh, Named,
         Spared, Registry!EvictRemove, Registry!Removed, Registry!Commands
<1> QED
  BY <1>1, <1>2, <1>3 DEF InventoryInv

LEMMA EvictDoneKeeps == ASSUME InventoryInv, Registry!EvictDone PROVE InventoryInv'
<1>1. InventoryType'
  BY NodeTimes DEF InventoryInv, InventoryType, Registry!EvictDone, Registry!keys
<1>2. EvictionInv'
  <2>1. found = [n \in RegNodes |-> NoRecord] /\ ids = {}
    BY DEF InventoryInv, InventoryType, EvictionInv, Registry!EvictDone
  <2> QED
    BY <2>1 DEF EvictionInv, Registry!EvictDone
<1>3. ASSUME NEW m \in RegNodes PROVE BeatTaken(m)' /\ (m \notin excused' => Punctual(m)')
  BY <1>3, NodeTimes, NodeRecords
     DEF InventoryInv, InventoryType, EvictionInv, BeatTaken, Punctual, Written, Fresh, Named,
         Spared, Registry!EvictDone, Registry!keys
<1> QED
  BY <1>1, <1>2, <1>3 DEF InventoryInv

LEMMA TickKeeps == ASSUME InventoryInv, Registry!Tick PROVE InventoryInv'
<1>1. InventoryType'
  BY NodeTimes DEF InventoryInv, InventoryType, Registry!Tick, Registry!evictor, Records
<1>2. EvictionInv'
  BY NodeTimes DEF InventoryInv, InventoryType, EvictionInv, Registry!Tick, Registry!evictor,
                   Records
<1>3. ASSUME NEW m \in RegNodes PROVE BeatTaken(m)' /\ (m \notin excused' => Punctual(m)')
  <2>1. /\ now' = now + 1 /\ now \in Nat /\ beat[m] \in Nat /\ left[m] \in Nat
        /\ UNCHANGED <<proc, beat, left, todo, nodeSet, groupSet, found, cut, started, epc>>
    BY DEF InventoryInv, InventoryType, Registry!Tick, Registry!evictor
  <2>2. /\ record[m] # NoRecord => record[m].beat \in Nat /\ record[m].expires \in Nat
        /\ record'[m] # NoRecord => record'[m] = record[m] /\ record[m] # NoRecord
        /\ record[m] # NoRecord /\ now + 1 < record[m].expires => record'[m] = record[m]
    BY <2>1 DEF InventoryInv, InventoryType, Registry!Tick, Records
  <2>3. BeatTaken(m)'
    BY <2>1, <2>2 DEF InventoryInv, BeatTaken
  <2>4. ASSUME m \notin excused' PROVE Punctual(m)'
    <3>1. /\ m \notin excused /\ proc[m] # "beating"
          /\ proc[m] \notin {"off", "leaving"} => now + 1 <= beat[m] + 1
          /\ proc[m] \in {"writing", "joining"} => now = beat[m]
      BY <2>1, <2>4 DEF Registry!Tick
    <3>2. Punctual(m)
      BY <3>1 DEF InventoryInv
    <3>3. proc[m] = "writing" => epc' = "idle" /\ now + 1 <= beat[m] + 1
      BY <2>1, <3>1, <3>2 DEF Punctual
    <3>4. CASE proc[m] \in {"joining", "on"}
      <4>1. Written(m) /\ Fresh(m) /\ Named(m) /\ Spared(m)
        BY <3>2, <3>4 DEF Punctual
      <4>2. record[m] # NoRecord /\ record[m].beat = beat[m] /\ now + 1 <= beat[m] + 1
        BY <3>1, <3>4, <4>1 DEF Written, Fresh
      <4>3. record'[m] = record[m]
        BY <2>1, <2>2, <4>1, <4>2, NodeTimes DEF Written
      <4>4. Written(m)' /\ Fresh(m)'
        BY <2>1, <3>4, <4>1, <4>2, <4>3 DEF Written, Fresh
      <4>5. Named(m)' /\ Spared(m)'
        BY <2>1, <4>1 DEF Named, Spared
      <4> QED
        BY <2>1, <3>4, <4>4, <4>5 DEF Punctual
    <3> QED
      BY <2>1, <3>1, <3>3, <3>4 DEF Punctual
  <2> QED
    BY <2>3, <2>4
<1> QED
  BY <1>1, <1>2, <1>3 DEF InventoryInv

LEMMA InventoryStep == ASSUME InventoryInv, [Registry!Next]_regVars PROVE InventoryInv'
<1>1. CASE UNCHANGED regVars
  BY <1>1 DEF InventoryInv, InventoryType, EvictionInv, BeatTaken, Punctual, Written, Fresh,
              Named,
              Spared, regVars
<1>2. CASE Registry!Evict
  BY <1>2, EvictNamesKeeps, EvictGetKeeps, EvictReadKeeps, EvictJudgeKeeps, EvictRemoveKeeps,
     EvictDoneKeeps DEF Registry!Evict
<1> QED
  BY <1>1, <1>2, TickKeeps, RegisterKeeps, WriteNodeKeeps, JoinKeeps, HeartbeatTakenKeeps,
     HeartbeatWrittenKeeps, DeregisterKeeps, LeaveKeeps, NodeCrashKeeps DEF Registry!Next

LEMMA InventoryHolds == InventoryInv => NodesListed
<1> SUFFICES ASSUME InventoryInv PROVE NodesListed
  OBVIOUS
<1>1. Registry!GoneInTime
  BY NodeTimes DEF InventoryInv, InventoryType, BeatTaken, Registry!GoneInTime,
                   Registry!NodeAlive,
     Registry!IsAlive, Records
<1>2. Registry!PunctualListed
  BY NodeTimes DEF InventoryInv, InventoryType, Punctual, Written, Fresh, Named,
     Registry!PunctualListed, Registry!AliveNodes, Registry!GroupNodes, Registry!NodeAlive,
     Registry!IsAlive, Records
<1> QED
  BY <1>1, <1>2 DEF NodesListed

----------------------------------------------------------------------------
(* The runs of a server, for any finite set of crews and any team of agents *)
(* that run one after the other, from the first                             *)

Teams == {t \in SUBSET (Nat \ {0}) : \A k \in t : 1..k \subseteq t}

RunSteps == {"none", "stored", "start", "update", "build", "execute", "agents", "handling",
             "aggregate", "webhook", "ended"}
Ended    == {"completed", "partial", "failed", "cancelled"}
RunStatuses  == {"absent", "pending", "running"} \cup Ended
Returns  == {"none", "build", "aggregate", "webhook", "ended"}

RunType(crews, team) ==
  /\ runPc \in [crews -> RunSteps] /\ crewRec \in [crews -> RunStatuses]
  /\ want \in [crews -> RunStatuses] /\ back \in [crews -> Returns]
  /\ unwritten \in [crews -> SUBSET {"crew", "task"}]
  /\ outcomes \in [crews -> [team -> {"none", "completed", "failed"}]]
  /\ next \in [crews -> Nat] /\ told \in [crews -> RunStatuses \cup {"none"}]
  /\ active \in Int /\ failures \in Nat

\* A status is written at one of five places, each of which has its own way on.
Updating(c, then) == runPc[c] = "update" /\ back[c] = then
WantKnown(c) ==
  runPc[c] = "update" =>
    \/ want[c] = "running" /\ back[c] = "build"
    \/ want[c] = "failed" /\ back[c] \in {"aggregate", "webhook", "ended"}
    \/ want[c] \in {"completed", "partial"} /\ back[c] = "webhook"

\* The agents run in order, and after the last of them none is without an outcome.
AgentsInOrder(c, team) ==
  /\ runPc[c] = "handling" => next[c] \in team
  /\ runPc[c] \in {"agents", "handling"} =>
       next[c] > 0 /\ \A k \in team : k < next[c] => outcomes[c][k] # "none"
  /\ runPc[c] = "aggregate" \/ Updating(c, "aggregate") =>
       c \in unplaced \/ \A k \in team : outcomes[c][k] # "none"

\* Completed is written, or about to be, only past the agents, all of which completed.
SaidCompleted(c) == crewRec[c] = "completed" \/ (runPc[c] = "update" /\ want[c] = "completed")
CompletedSound(c, team) ==
  SaidCompleted(c) =>
    /\ runPc[c] \in {"webhook", "ended"} \/ Updating(c, "webhook")
    /\ c \in unplaced \/ \A k \in team : outcomes[c][k] = "completed"

\* The last update of a run ends the record once that was written.
EndWritten(c) ==
  /\ runPc[c] \in {"webhook", "ended"} /\ c \notin lost => crewRec[c] \in Ended
  /\ (Updating(c, "webhook") \/ Updating(c, "ended")) /\ "crew" \notin unwritten[c] =>
       crewRec[c] \in Ended

RunSound(c, team) ==
  /\ WantKnown(c) /\ AgentsInOrder(c, team) /\ CompletedSound(c, team) /\ EndWritten(c)
  /\ c \in slots => runPc[c] \in {"agents", "handling"}
  /\ told[c] # "none" /\ c \notin lost => told[c] \in Ended

\* A run counts from its start until the gauge is lowered for it.
Counted(c) ==
  \/ runPc[c] \in {"build", "execute", "agents", "handling", "aggregate"}
  \/ Updating(c, "build") \/ Updating(c, "aggregate")
Counting(crews) == {c \in crews : Counted(c)}
GaugeInv(crews) == failures = 0 => active >= Cardinality(Counting(crews))

RunInv(crews, team) ==
  /\ RunType(crews, team) /\ GaugeInv(crews)
  /\ \A c \in crews : RunSound(c, team)

LEMMA RunInvInit ==
  ASSUME NEW crews, NEW team, NEW devices, NEW faults,
         Runs(crews, team, devices, faults)!Init
  PROVE  RunInv(crews, team)
<1>1. RunType(crews, team)
  BY DEF Runs!Init, RunType, RunSteps, RunStatuses, Returns
<1>2. \A c \in crews : RunSound(c, team)
  BY DEF Runs!Init, RunSound, WantKnown, AgentsInOrder, CompletedSound, SaidCompleted, EndWritten,
         Updating
<1>3. Counting(crews) = {}
  BY DEF Runs!Init, Counting, Counted, Updating
<1>4. active = 0 /\ Cardinality(Counting(crews)) = 0
  BY <1>3, FS_EmptySet DEF Runs!Init
<1> QED
  BY <1>1, <1>2, <1>4 DEF RunInv, GaugeInv

\* The gauge follows the runs that count, however one of them moves on.
LEMMA GaugeFollows ==
  ASSUME NEW crews, IsFiniteSet(crews), NEW c \in crews, GaugeInv(crews),
         active \in Int, failures \in Nat, failures' \in Nat, failures' = 0 => failures = 0,
         active' \in Int, \A d \in crews \ {c} : Counted(d)' = Counted(d),
         \/ failures' > 0
         \/ active' = active /\ (Counted(c)' => Counted(c))
         \/ active' = active + 1
         \/ active' = active - 1 /\ Counted(c) /\ ~Counted(c)'
  PROVE  GaugeInv(crews)'
<1> DEFINE before == Counting(crews)
           after  == Counting(crews)'
<1>1. IsFiniteSet(before) /\ IsFiniteSet(after) /\ before \subseteq crews /\ after \subseteq crews
  BY FS_Subset DEF Counting
<1>2. Cardinality(before) \in Nat /\ Cardinality(after) \in Nat
  BY <1>1, FS_CardinalityType
<1>3. after \subseteq before \cup {c} /\ before \subseteq after \cup {c}
  BY DEF Counting
<1>4. Cardinality(after) <= Cardinality(before) + 1
  <2>1. Cardinality(after) <= Cardinality(before \cup {c}) /\ IsFiniteSet(before \cup {c})
    BY <1>1, <1>3, FS_Subset, FS_AddElement
  <2>2. Cardinality(before \cup {c}) = (IF c \in before THEN Cardinality(before)
                                         ELSE Cardinality(before) + 1)
    BY <1>1, FS_AddElement
  <2> HIDE DEF before, after
  <2> QED
    BY <1>2, <2>1, <2>2
<1>5. (Counted(c)' => Counted(c)) => Cardinality(after) <= Cardinality(before)
  <2>1. (Counted(c)' => Counted(c)) => after \subseteq before
    BY <1>3 DEF Counting
  <2> QED
    BY <2>1, <1>1, FS_Subset
<1>6. Counted(c) /\ ~Counted(c)' => Cardinality(after) = Cardinality(before) - 1
  <2>1. Counted(c) /\ ~Counted(c)' => after = before \ {c} /\ c \in before
    BY <1>3 DEF Counting
  <2> QED
    BY <2>1, <1>1, <1>2, FS_RemoveElement
<1>7. failures = 0 => active >= Cardinality(before)
  BY DEF GaugeInv
<1>8. failures' = 0 => active' >= Cardinality(after)
  <2> DEFINE b == Cardinality(before)
             a == Cardinality(after)
  <2>1. b \in Nat /\ a \in Nat /\ a <= b + 1 /\ (failures = 0 => active >= b)
        /\ ((Counted(c)' => Counted(c)) => a <= b) /\ (Counted(c) /\ ~Counted(c)' => a = b - 1)
    BY <1>2, <1>4, <1>5, <1>6, <1>7
  <2> HIDE DEF a, b
  <2> QED
    BY <2>1 DEF a
<1> QED
  BY <1>8 DEF GaugeInv

\* What one run does leaves the others as they are.
LEMMA OtherRuns ==
  ASSUME NEW team, NEW d, RunSound(d, team),
         runPc'[d] = runPc[d], crewRec'[d] = crewRec[d], want'[d] = want[d], back'[d] = back[d],
         unwritten'[d] = unwritten[d], outcomes'[d] = outcomes[d], next'[d] = next[d],
         told'[d] = told[d], d \in slots' => d \in slots, d \in unplaced => d \in unplaced',
         d \in lost => d \in lost'
  PROVE  RunSound(d, team)' /\ Counted(d)' = Counted(d)
BY DEF RunSound, WantKnown, AgentsInOrder, CompletedSound, SaidCompleted, EndWritten, Updating,
       Counted

LEMMA RunCrewKeeps ==
  ASSUME NEW crews, NEW team \in Teams, NEW devices, NEW faults, IsFiniteSet(crews),
         RunInv(crews, team), NEW c \in crews, Runs(crews, team, devices, faults)!RunCrew(c)
  PROVE  RunInv(crews, team)'
<1>1. RunType(crews, team)'
  BY DEF RunInv, RunType, RunSteps, RunStatuses, Returns, Ended, Runs!RunCrew,
      Runs!Goto, Runs!update, Runs!agentry, Runs!history
<1>2. ASSUME NEW d \in crews, d # c PROVE RunSound(d, team)' /\ Counted(d)' = Counted(d)
  <2>1. /\ runPc'[d] = runPc[d] /\ crewRec'[d] = crewRec[d] /\ want'[d] = want[d]
        /\ back'[d] = back[d] /\ unwritten'[d] = unwritten[d] /\ outcomes'[d] = outcomes[d]
        /\ next'[d] = next[d] /\ told'[d] = told[d] /\ (d \in slots' => d \in slots)
        /\ (d \in unplaced => d \in unplaced') /\ (d \in lost => d \in lost')
    BY <1>2 DEF RunInv, RunType, RunSteps, RunStatuses, Returns, Ended, Runs!RunCrew,
      Runs!Goto, Runs!update, Runs!agentry, Runs!history
  <2> QED
    BY <2>1, OtherRuns DEF RunInv
<1>3. RunSound(c, team)'
  BY DEF RunInv, RunType, RunSteps, RunStatuses, Returns, Ended, RunSound, WantKnown,
      AgentsInOrder, CompletedSound, SaidCompleted, EndWritten, Updating, Runs!RunCrew,
      Runs!Goto, Runs!update, Runs!agentry, Runs!history
<1>4. GaugeInv(crews)'
  <2>1. /\ active \in Int /\ failures \in Nat /\ failures' \in Nat /\ active' \in Int
        /\ (failures' = 0 => failures = 0)
    BY <1>1 DEF RunInv, RunType, Runs!RunCrew, Runs!Goto, Runs!update, Runs!agentry, Runs!history
  <2>2. \/ failures' > 0
        \/ active' = active /\ (Counted(c)' => Counted(c))
        \/ active' = active + 1
        \/ active' = active - 1 /\ Counted(c) /\ ~Counted(c)'
    BY DEF RunInv, RunType, RunSteps, RunStatuses, Returns, Ended, WantKnown, Counted,
      RunSound, Updating, Runs!RunCrew, Runs!Goto, Runs!update, Runs!agentry,
      Runs!history
  <2> QED
    BY <1>2, <2>1, <2>2, GaugeFollows DEF RunInv
<1> QED
  BY <1>1, <1>2, <1>3, <1>4 DEF RunInv

LEMMA StoreTaskKeeps ==
  ASSUME NEW crews, NEW team \in Teams, NEW devices, NEW faults, IsFiniteSet(crews),
         RunInv(crews, team), NEW c \in crews, Runs(crews, team, devices, faults)!StoreTask(c)
  PROVE  RunInv(crews, team)'
<1>1. RunType(crews, team)'
  BY DEF RunInv, RunType, RunSteps, RunStatuses, Returns, Ended, Runs!StoreTask,
      Runs!Goto, Runs!update, Runs!agentry, Runs!history
<1>2. ASSUME NEW d \in crews, d # c PROVE RunSound(d, team)' /\ Counted(d)' = Counted(d)
  <2>1. /\ runPc'[d] = runPc[d] /\ crewRec'[d] = crewRec[d] /\ want'[d] = want[d]
        /\ back'[d] = back[d] /\ unwritten'[d] = unwritten[d] /\ outcomes'[d] = outcomes[d]
        /\ next'[d] = next[d] /\ told'[d] = told[d] /\ (d \in slots' => d \in slots)
        /\ (d \in unplaced => d \in unplaced') /\ (d \in lost => d \in lost')
    BY <1>2 DEF RunInv, RunType, RunSteps, RunStatuses, Returns, Ended, Runs!StoreTask,
      Runs!Goto, Runs!update, Runs!agentry, Runs!history
  <2> QED
    BY <2>1, OtherRuns DEF RunInv
<1>3. RunSound(c, team)'
  BY DEF RunInv, RunType, RunSteps, RunStatuses, Returns, Ended, RunSound, WantKnown,
      AgentsInOrder, CompletedSound, SaidCompleted, EndWritten, Updating,
      Runs!StoreTask, Runs!Goto, Runs!update, Runs!agentry, Runs!history
<1>4. GaugeInv(crews)'
  <2>1. /\ active \in Int /\ failures \in Nat /\ failures' \in Nat /\ active' \in Int
        /\ (failures' = 0 => failures = 0)
    BY <1>1 DEF RunInv, RunType, Runs!StoreTask, Runs!Goto, Runs!update, Runs!agentry,
                Runs!history
  <2>2. \/ failures' > 0
        \/ active' = active /\ (Counted(c)' => Counted(c))
        \/ active' = active + 1
        \/ active' = active - 1 /\ Counted(c) /\ ~Counted(c)'
    BY DEF RunInv, RunType, RunSteps, RunStatuses, Returns, Ended, WantKnown, Counted,
      RunSound, Updating, Runs!StoreTask, Runs!Goto, Runs!update, Runs!agentry,
      Runs!history
  <2> QED
    BY <1>2, <2>1, <2>2, GaugeFollows DEF RunInv
<1> QED
  BY <1>1, <1>2, <1>3, <1>4 DEF RunInv

LEMMA WriteCrewKeeps ==
  ASSUME NEW crews, NEW team \in Teams, NEW devices, NEW faults, IsFiniteSet(crews),
         RunInv(crews, team), NEW c \in crews, Runs(crews, team, devices, faults)!WriteCrew(c)
  PROVE  RunInv(crews, team)'
<1>1. RunType(crews, team)'
  BY DEF RunInv, RunType, RunSteps, RunStatuses, Returns, Ended, Runs!WriteCrew,
      Runs!update, Runs!agentry, Runs!history
<1>2. ASSUME NEW d \in crews, d # c PROVE RunSound(d, team)' /\ Counted(d)' = Counted(d)
  <2>1. /\ runPc'[d] = runPc[d] /\ crewRec'[d] = crewRec[d] /\ want'[d] = want[d]
        /\ back'[d] = back[d] /\ unwritten'[d] = unwritten[d] /\ outcomes'[d] = outcomes[d]
        /\ next'[d] = next[d] /\ told'[d] = told[d] /\ (d \in slots' => d \in slots)
        /\ (d \in unplaced => d \in unplaced') /\ (d \in lost => d \in lost')
    BY <1>2 DEF RunInv, RunType, RunSteps, RunStatuses, Returns, Ended, Runs!WriteCrew,
      Runs!update, Runs!agentry, Runs!history
  <2> QED
    BY <2>1, OtherRuns DEF RunInv
<1>3. RunSound(c, team)'
  BY DEF RunInv, RunType, RunSteps, RunStatuses, Returns, Ended, RunSound, WantKnown,
      AgentsInOrder, CompletedSound, SaidCompleted, EndWritten, Updating,
      Runs!WriteCrew, Runs!update, Runs!agentry, Runs!history
<1>4. GaugeInv(crews)'
  <2>1. /\ active \in Int /\ failures \in Nat /\ failures' \in Nat /\ active' \in Int
        /\ (failures' = 0 => failures = 0)
    BY <1>1 DEF RunInv, RunType, Runs!WriteCrew, Runs!update, Runs!agentry, Runs!history
  <2>2. \/ failures' > 0
        \/ active' = active /\ (Counted(c)' => Counted(c))
        \/ active' = active + 1
        \/ active' = active - 1 /\ Counted(c) /\ ~Counted(c)'
    BY DEF RunInv, RunType, RunSteps, RunStatuses, Returns, Ended, WantKnown, Counted,
      RunSound, Updating, Runs!WriteCrew, Runs!update, Runs!agentry, Runs!history
  <2> QED
    BY <1>2, <2>1, <2>2, GaugeFollows DEF RunInv
<1> QED
  BY <1>1, <1>2, <1>3, <1>4 DEF RunInv

LEMMA WriteTaskKeeps ==
  ASSUME NEW crews, NEW team \in Teams, NEW devices, NEW faults, IsFiniteSet(crews),
         RunInv(crews, team), NEW c \in crews, Runs(crews, team, devices, faults)!WriteTask(c)
  PROVE  RunInv(crews, team)'
<1>1. RunType(crews, team)'
  BY DEF RunInv, RunType, RunSteps, RunStatuses, Returns, Ended, Runs!WriteTask,
      Runs!update, Runs!agentry, Runs!history
<1>2. ASSUME NEW d \in crews, d # c PROVE RunSound(d, team)' /\ Counted(d)' = Counted(d)
  <2>1. /\ runPc'[d] = runPc[d] /\ crewRec'[d] = crewRec[d] /\ want'[d] = want[d]
        /\ back'[d] = back[d] /\ unwritten'[d] = unwritten[d] /\ outcomes'[d] = outcomes[d]
        /\ next'[d] = next[d] /\ told'[d] = told[d] /\ (d \in slots' => d \in slots)
        /\ (d \in unplaced => d \in unplaced') /\ (d \in lost => d \in lost')
    BY <1>2 DEF RunInv, RunType, RunSteps, RunStatuses, Returns, Ended, Runs!WriteTask,
      Runs!update, Runs!agentry, Runs!history
  <2> QED
    BY <2>1, OtherRuns DEF RunInv
<1>3. RunSound(c, team)'
  BY DEF RunInv, RunType, RunSteps, RunStatuses, Returns, Ended, RunSound, WantKnown,
      AgentsInOrder, CompletedSound, SaidCompleted, EndWritten, Updating,
      Runs!WriteTask, Runs!update, Runs!agentry, Runs!history
<1>4. GaugeInv(crews)'
  <2>1. /\ active \in Int /\ failures \in Nat /\ failures' \in Nat /\ active' \in Int
        /\ (failures' = 0 => failures = 0)
    BY <1>1 DEF RunInv, RunType, Runs!WriteTask, Runs!update, Runs!agentry, Runs!history
  <2>2. \/ failures' > 0
        \/ active' = active /\ (Counted(c)' => Counted(c))
        \/ active' = active + 1
        \/ active' = active - 1 /\ Counted(c) /\ ~Counted(c)'
    BY DEF RunInv, RunType, RunSteps, RunStatuses, Returns, Ended, WantKnown, Counted,
      RunSound, Updating, Runs!WriteTask, Runs!update, Runs!agentry, Runs!history
  <2> QED
    BY <1>2, <2>1, <2>2, GaugeFollows DEF RunInv
<1> QED
  BY <1>1, <1>2, <1>3, <1>4 DEF RunInv

LEMMA UpdatedKeeps ==
  ASSUME NEW crews, NEW team \in Teams, NEW devices, NEW faults, IsFiniteSet(crews),
         RunInv(crews, team), NEW c \in crews, Runs(crews, team, devices, faults)!Updated(c)
  PROVE  RunInv(crews, team)'
<1>1. RunType(crews, team)'
  BY DEF RunInv, RunType, RunSteps, RunStatuses, Returns, Ended, Runs!Updated,
      Runs!Goto, Runs!records, Runs!update, Runs!agentry, Runs!history
<1>2. ASSUME NEW d \in crews, d # c PROVE RunSound(d, team)' /\ Counted(d)' = Counted(d)
  <2>1. /\ runPc'[d] = runPc[d] /\ crewRec'[d] = crewRec[d] /\ want'[d] = want[d]
        /\ back'[d] = back[d] /\ unwritten'[d] = unwritten[d] /\ outcomes'[d] = outcomes[d]
        /\ next'[d] = next[d] /\ told'[d] = told[d] /\ (d \in slots' => d \in slots)
        /\ (d \in unplaced => d \in unplaced') /\ (d \in lost => d \in lost')
    BY <1>2 DEF RunInv, RunType, RunSteps, RunStatuses, Returns, Ended, Runs!Updated,
      Runs!Goto, Runs!records, Runs!update, Runs!agentry, Runs!history
  <2> QED
    BY <2>1, OtherRuns DEF RunInv
<1>3. RunSound(c, team)'
  BY DEF RunInv, RunType, RunSteps, RunStatuses, Returns, Ended, RunSound, WantKnown,
      AgentsInOrder, CompletedSound, SaidCompleted, EndWritten, Updating, Runs!Updated,
      Runs!Goto, Runs!records, Runs!update, Runs!agentry, Runs!history
<1>4. GaugeInv(crews)'
  <2>1. /\ active \in Int /\ failures \in Nat /\ failures' \in Nat /\ active' \in Int
        /\ (failures' = 0 => failures = 0)
    BY <1>1 DEF RunInv, RunType, Runs!Updated, Runs!Goto, Runs!records, Runs!update, Runs!agentry,
                Runs!history
  <2>2. \/ failures' > 0
        \/ active' = active /\ (Counted(c)' => Counted(c))
        \/ active' = active + 1
        \/ active' = active - 1 /\ Counted(c) /\ ~Counted(c)'
    BY DEF RunInv, RunType, RunSteps, RunStatuses, Returns, Ended, WantKnown, Counted,
      RunSound, Updating, Runs!Updated, Runs!Goto, Runs!records, Runs!update,
      Runs!agentry, Runs!history
  <2> QED
    BY <1>2, <2>1, <2>2, GaugeFollows DEF RunInv
<1> QED
  BY <1>1, <1>2, <1>3, <1>4 DEF RunInv

LEMMA UpdateFailsKeeps ==
  ASSUME NEW crews, NEW team \in Teams, NEW devices, NEW faults, IsFiniteSet(crews),
         RunInv(crews, team), NEW c \in crews, Runs(crews, team, devices, faults)!UpdateFails(c)
  PROVE  RunInv(crews, team)'
<1>1. RunType(crews, team)'
  <2>1. /\ failures' = failures + 1
        /\ UNCHANGED <<crewRec, outcomes, next, told>>
    BY DEF Runs!UpdateFails, Runs!records
  <2>2. CASE want[c] = "failed" /\ back[c] = "webhook"
    <3>1. /\ runPc' = [runPc EXCEPT ![c] = "webhook"] /\ unwritten' = [unwritten EXCEPT ![c] = {}]
          /\ UNCHANGED <<want, back, active>>
      BY <2>2 DEF Runs!UpdateFails, Runs!Goto
    <3> QED
      BY <2>1, <3>1 DEF RunInv, RunType, RunSteps
  <2>3. CASE ~(want[c] = "failed" /\ back[c] = "webhook")
    <3>1. /\ runPc' = [runPc EXCEPT ![c] = "update"] /\ active' = active - 1
          /\ unwritten' = [unwritten EXCEPT ![c] = {"crew", "task"}]
          /\ want' = [want EXCEPT ![c] = "failed"] /\ back' = [back EXCEPT ![c] = "webhook"]
      BY <2>3 DEF Runs!UpdateFails, Runs!Goto, Runs!Fail, Runs!Update
    <3> QED
      BY <2>1, <3>1 DEF RunInv, RunType, RunSteps, RunStatuses, Returns, Ended
  <2> QED
    BY <2>2, <2>3
<1>2. ASSUME NEW d \in crews, d # c PROVE RunSound(d, team)' /\ Counted(d)' = Counted(d)
  <2>1. /\ runPc'[d] = runPc[d] /\ crewRec'[d] = crewRec[d] /\ want'[d] = want[d]
        /\ back'[d] = back[d] /\ unwritten'[d] = unwritten[d] /\ outcomes'[d] = outcomes[d]
        /\ next'[d] = next[d] /\ told'[d] = told[d] /\ (d \in slots' => d \in slots)
        /\ (d \in unplaced => d \in unplaced') /\ (d \in lost => d \in lost')
    BY <1>2 DEF RunInv, RunType, RunSteps, RunStatuses, Returns, Ended, Runs!UpdateFails,
      Runs!Goto, Runs!Fail, Runs!records, Runs!update, Runs!Update
  <2> QED
    BY <2>1, OtherRuns DEF RunInv
<1>3. RunSound(c, team)'
  BY DEF RunInv, RunType, RunSteps, RunStatuses, Returns, Ended, RunSound, WantKnown,
      AgentsInOrder, CompletedSound, SaidCompleted, EndWritten, Updating,
      Runs!UpdateFails, Runs!Goto, Runs!Fail, Runs!records, Runs!update, Runs!Update
<1>4. GaugeInv(crews)'
  <2>1. /\ active \in Int /\ failures \in Nat /\ failures' \in Nat /\ active' \in Int
        /\ (failures' = 0 => failures = 0)
    BY <1>1 DEF RunInv, RunType, Runs!UpdateFails, Runs!Goto, Runs!Fail, Runs!records,
                Runs!update, Runs!Update
  <2>2. \/ failures' > 0
        \/ active' = active /\ (Counted(c)' => Counted(c))
        \/ active' = active + 1
        \/ active' = active - 1 /\ Counted(c) /\ ~Counted(c)'
    BY DEF RunInv, RunType, RunSteps, RunStatuses, Returns, Ended, WantKnown, Counted,
      RunSound, Updating, Runs!UpdateFails, Runs!Goto, Runs!Fail, Runs!records,
      Runs!update, Runs!Update
  <2> QED
    BY <1>2, <2>1, <2>2, GaugeFollows DEF RunInv
<1> QED
  BY <1>1, <1>2, <1>3, <1>4 DEF RunInv

LEMMA StartKeeps ==
  ASSUME NEW crews, NEW team \in Teams, NEW devices, NEW faults, IsFiniteSet(crews),
         RunInv(crews, team), NEW c \in crews, Runs(crews, team, devices, faults)!Start(c)
  PROVE  RunInv(crews, team)'
<1>1. RunType(crews, team)'
  BY DEF RunInv, RunType, RunSteps, RunStatuses, Returns, Ended, Runs!Start,
      Runs!Update, Runs!records, Runs!agentry, Runs!Goto, Runs!update
<1>2. ASSUME NEW d \in crews, d # c PROVE RunSound(d, team)' /\ Counted(d)' = Counted(d)
  <2>1. /\ runPc'[d] = runPc[d] /\ crewRec'[d] = crewRec[d] /\ want'[d] = want[d]
        /\ back'[d] = back[d] /\ unwritten'[d] = unwritten[d] /\ outcomes'[d] = outcomes[d]
        /\ next'[d] = next[d] /\ told'[d] = told[d] /\ (d \in slots' => d \in slots)
        /\ (d \in unplaced => d \in unplaced') /\ (d \in lost => d \in lost')
    BY <1>2 DEF RunInv, RunType, RunSteps, RunStatuses, Returns, Ended, Runs!Start,
      Runs!Update, Runs!records, Runs!agentry, Runs!Goto, Runs!update
  <2> QED
    BY <2>1, OtherRuns DEF RunInv
<1>3. RunSound(c, team)'
  BY DEF RunInv, RunType, RunSteps, RunStatuses, Returns, Ended, RunSound, WantKnown,
      AgentsInOrder, CompletedSound, SaidCompleted, EndWritten, Updating, Runs!Start,
      Runs!Update, Runs!records, Runs!agentry, Runs!Goto, Runs!update
<1>4. GaugeInv(crews)'
  <2>1. /\ active \in Int /\ failures \in Nat /\ failures' \in Nat /\ active' \in Int
        /\ (failures' = 0 => failures = 0)
    BY <1>1 DEF RunInv, RunType, Runs!Start, Runs!Update, Runs!records, Runs!agentry, Runs!Goto,
                Runs!update
  <2>2. \/ failures' > 0
        \/ active' = active /\ (Counted(c)' => Counted(c))
        \/ active' = active + 1
        \/ active' = active - 1 /\ Counted(c) /\ ~Counted(c)'
    BY DEF RunInv, RunType, RunSteps, RunStatuses, Returns, Ended, WantKnown, Counted,
      RunSound, Updating, Runs!Start, Runs!Update, Runs!records, Runs!agentry,
      Runs!Goto, Runs!update
  <2> QED
    BY <1>2, <2>1, <2>2, GaugeFollows DEF RunInv
<1> QED
  BY <1>1, <1>2, <1>3, <1>4 DEF RunInv

LEMMA NoAgentsKeeps ==
  ASSUME NEW crews, NEW team \in Teams, NEW devices, NEW faults, IsFiniteSet(crews),
         RunInv(crews, team), NEW c \in crews, Runs(crews, team, devices, faults)!NoAgents(c)
  PROVE  RunInv(crews, team)'
<1>1. RunType(crews, team)'
  BY DEF RunInv, RunType, RunSteps, RunStatuses, Returns, Ended, Runs!NoAgents,
      Runs!ReturnEarly, Runs!records, Runs!agentry, Runs!history, Runs!Update,
      Runs!Goto, Runs!update
<1>2. ASSUME NEW d \in crews, d # c PROVE RunSound(d, team)' /\ Counted(d)' = Counted(d)
  <2>1. /\ runPc'[d] = runPc[d] /\ crewRec'[d] = crewRec[d] /\ want'[d] = want[d]
        /\ back'[d] = back[d] /\ unwritten'[d] = unwritten[d] /\ outcomes'[d] = outcomes[d]
        /\ next'[d] = next[d] /\ told'[d] = told[d] /\ (d \in slots' => d \in slots)
        /\ (d \in unplaced => d \in unplaced') /\ (d \in lost => d \in lost')
    BY <1>2 DEF RunInv, RunType, RunSteps, RunStatuses, Returns, Ended, Runs!NoAgents,
      Runs!ReturnEarly, Runs!records, Runs!agentry, Runs!history, Runs!Update,
      Runs!Goto, Runs!update
  <2> QED
    BY <2>1, OtherRuns DEF RunInv
<1>3. RunSound(c, team)'
  BY DEF RunInv, RunType, RunSteps, RunStatuses, Returns, Ended, RunSound, WantKnown,
      AgentsInOrder, CompletedSound, SaidCompleted, EndWritten, Updating, Runs!NoAgents,
      Runs!ReturnEarly, Runs!records, Runs!agentry, Runs!history, Runs!Update,
      Runs!Goto, Runs!update
<1>4. GaugeInv(crews)'
  <2>1. /\ active \in Int /\ failures \in Nat /\ failures' \in Nat /\ active' \in Int
        /\ (failures' = 0 => failures = 0)
    BY <1>1 DEF RunInv, RunType, Runs!NoAgents, Runs!ReturnEarly, Runs!records, Runs!agentry,
                Runs!history, Runs!Update, Runs!Goto, Runs!update
  <2>2. \/ failures' > 0
        \/ active' = active /\ (Counted(c)' => Counted(c))
        \/ active' = active + 1
        \/ active' = active - 1 /\ Counted(c) /\ ~Counted(c)'
    BY DEF RunInv, RunType, RunSteps, RunStatuses, Returns, Ended, WantKnown, Counted,
      RunSound, Updating, Runs!NoAgents, Runs!ReturnEarly, Runs!records, Runs!agentry,
      Runs!history, Runs!Update, Runs!Goto, Runs!update
  <2> QED
    BY <1>2, <2>1, <2>2, GaugeFollows DEF RunInv
<1> QED
  BY <1>1, <1>2, <1>3, <1>4 DEF RunInv

LEMMA BuildAgentsKeeps ==
  ASSUME NEW crews, NEW team \in Teams, NEW devices, NEW faults, IsFiniteSet(crews),
         RunInv(crews, team), NEW c \in crews, Runs(crews, team, devices, faults)!BuildAgents(c)
  PROVE  RunInv(crews, team)'
<1>1. RunType(crews, team)'
  BY DEF RunInv, RunType, RunSteps, RunStatuses, Returns, Ended, Runs!BuildAgents,
      Runs!Goto, Runs!records, Runs!update, Runs!agentry, Runs!history
<1>2. ASSUME NEW d \in crews, d # c PROVE RunSound(d, team)' /\ Counted(d)' = Counted(d)
  <2>1. /\ runPc'[d] = runPc[d] /\ crewRec'[d] = crewRec[d] /\ want'[d] = want[d]
        /\ back'[d] = back[d] /\ unwritten'[d] = unwritten[d] /\ outcomes'[d] = outcomes[d]
        /\ next'[d] = next[d] /\ told'[d] = told[d] /\ (d \in slots' => d \in slots)
        /\ (d \in unplaced => d \in unplaced') /\ (d \in lost => d \in lost')
    BY <1>2 DEF RunInv, RunType, RunSteps, RunStatuses, Returns, Ended, Runs!BuildAgents,
      Runs!Goto, Runs!records, Runs!update, Runs!agentry, Runs!history
  <2> QED
    BY <2>1, OtherRuns DEF RunInv
<1>3. RunSound(c, team)'
  BY DEF RunInv, RunType, RunSteps, RunStatuses, Returns, Ended, RunSound, WantKnown,
      AgentsInOrder, CompletedSound, SaidCompleted, EndWritten, Updating,
      Runs!BuildAgents, Runs!Goto, Runs!records, Runs!update, Runs!agentry, Runs!history
<1>4. GaugeInv(crews)'
  <2>1. /\ active \in Int /\ failures \in Nat /\ failures' \in Nat /\ active' \in Int
        /\ (failures' = 0 => failures = 0)
    BY <1>1 DEF RunInv, RunType, Runs!BuildAgents, Runs!Goto, Runs!records, Runs!update,
                Runs!agentry, Runs!history
  <2>2. \/ failures' > 0
        \/ active' = active /\ (Counted(c)' => Counted(c))
        \/ active' = active + 1
        \/ active' = active - 1 /\ Counted(c) /\ ~Counted(c)'
    BY DEF RunInv, RunType, RunSteps, RunStatuses, Returns, Ended, WantKnown, Counted,
      RunSound, Updating, Runs!BuildAgents, Runs!Goto, Runs!records, Runs!update,
      Runs!agentry, Runs!history
  <2> QED
    BY <1>2, <2>1, <2>2, GaugeFollows DEF RunInv
<1> QED
  BY <1>1, <1>2, <1>3, <1>4 DEF RunInv

LEMMA RaiseKeeps ==
  ASSUME NEW crews, NEW team \in Teams, NEW devices, NEW faults, IsFiniteSet(crews),
         RunInv(crews, team), NEW c \in crews, Runs(crews, team, devices, faults)!Raise(c)
  PROVE  RunInv(crews, team)'
<1>1. RunType(crews, team)'
  BY DEF RunInv, RunType, RunSteps, RunStatuses, Returns, Ended, Runs!Raise, Runs!Fail,
      Runs!records, Runs!Update, Runs!Goto, Runs!update
<1>2. ASSUME NEW d \in crews, d # c PROVE RunSound(d, team)' /\ Counted(d)' = Counted(d)
  <2>1. /\ runPc'[d] = runPc[d] /\ crewRec'[d] = crewRec[d] /\ want'[d] = want[d]
        /\ back'[d] = back[d] /\ unwritten'[d] = unwritten[d] /\ outcomes'[d] = outcomes[d]
        /\ next'[d] = next[d] /\ told'[d] = told[d] /\ (d \in slots' => d \in slots)
        /\ (d \in unplaced => d \in unplaced') /\ (d \in lost => d \in lost')
    BY <1>2 DEF RunInv, RunType, RunSteps, RunStatuses, Returns, Ended, Runs!Raise, Runs!Fail,
      Runs!records, Runs!Update, Runs!Goto, Runs!update
  <2> QED
    BY <2>1, OtherRuns DEF RunInv
<1>3. RunSound(c, team)'
  BY DEF RunInv, RunType, RunSteps, RunStatuses, Returns, Ended, RunSound, WantKnown,
      AgentsInOrder, CompletedSound, SaidCompleted, EndWritten, Updating, Runs!Raise,
      Runs!Fail, Runs!records, Runs!Update, Runs!Goto, Runs!update
<1>4. GaugeInv(crews)'
  <2>1. /\ active \in Int /\ failures \in Nat /\ failures' \in Nat /\ active' \in Int
        /\ (failures' = 0 => failures = 0)
    BY <1>1 DEF RunInv, RunType, Runs!Raise, Runs!Fail, Runs!records, Runs!Update, Runs!Goto,
                Runs!update
  <2>2. \/ failures' > 0
        \/ active' = active /\ (Counted(c)' => Counted(c))
        \/ active' = active + 1
        \/ active' = active - 1 /\ Counted(c) /\ ~Counted(c)'
    BY DEF RunInv, RunType, RunSteps, RunStatuses, Returns, Ended, WantKnown, Counted,
      RunSound, Updating, Runs!Raise, Runs!Fail, Runs!records, Runs!Update, Runs!Goto,
      Runs!update
  <2> QED
    BY <1>2, <2>1, <2>2, GaugeFollows DEF RunInv
<1> QED
  BY <1>1, <1>2, <1>3, <1>4 DEF RunInv

LEMMA RemoteKeeps ==
  ASSUME NEW crews, NEW team \in Teams, NEW devices, NEW faults, IsFiniteSet(crews),
         RunInv(crews, team), NEW c \in crews, Runs(crews, team, devices, faults)!Remote(c)
  PROVE  RunInv(crews, team)'
<1>1. RunType(crews, team)'
  <2>1. outcomes' \in [crews -> [team -> {"none", "completed", "failed"}]]
    <3>1. CASE UNCHANGED outcomes
      BY <3>1 DEF RunInv, RunType
    <3>2. ASSUME NEW out \in [team -> {"completed", "failed"}], outcomes' = [outcomes EXCEPT ![c] = out]
          PROVE  outcomes' \in [crews -> [team -> {"none", "completed", "failed"}]]
      <4>1. out \in [team -> {"none", "completed", "failed"}]
        OBVIOUS
      <4> QED
        BY <3>2, <4>1 DEF RunInv, RunType
    <3> QED
      BY <3>1, <3>2 DEF Runs!Remote, Runs!Outcomes
  <2> QED
    BY <2>1 DEF RunInv, RunType, RunSteps, Runs!Remote, Runs!Goto, Runs!records, Runs!update
<1>2. ASSUME NEW d \in crews, d # c PROVE RunSound(d, team)' /\ Counted(d)' = Counted(d)
  <2>1. /\ runPc'[d] = runPc[d] /\ crewRec'[d] = crewRec[d] /\ want'[d] = want[d]
        /\ back'[d] = back[d] /\ unwritten'[d] = unwritten[d] /\ outcomes'[d] = outcomes[d]
        /\ next'[d] = next[d] /\ told'[d] = told[d] /\ (d \in slots' => d \in slots)
        /\ (d \in unplaced => d \in unplaced') /\ (d \in lost => d \in lost')
    BY <1>2 DEF RunInv, RunType, RunSteps, RunStatuses, Returns, Ended, Runs!Remote, Runs!Goto,
      Runs!records, Runs!update, Runs!Outcomes
  <2> QED
    BY <2>1, OtherRuns DEF RunInv
<1>3. RunSound(c, team)'
  BY DEF RunInv, RunType, RunSteps, RunStatuses, Returns, Ended, RunSound, WantKnown,
      AgentsInOrder, CompletedSound, SaidCompleted, EndWritten, Updating, Runs!Remote,
      Runs!Goto, Runs!records, Runs!update, Runs!Outcomes
<1>4. GaugeInv(crews)'
  <2>1. /\ active \in Int /\ failures \in Nat /\ failures' \in Nat /\ active' \in Int
        /\ (failures' = 0 => failures = 0)
    BY <1>1 DEF RunInv, RunType, Runs!Remote, Runs!Goto, Runs!records, Runs!update, Runs!Outcomes
  <2>2. \/ failures' > 0
        \/ active' = active /\ (Counted(c)' => Counted(c))
        \/ active' = active + 1
        \/ active' = active - 1 /\ Counted(c) /\ ~Counted(c)'
    BY DEF RunInv, RunType, RunSteps, RunStatuses, Returns, Ended, WantKnown, Counted,
      RunSound, Updating, Runs!Remote, Runs!Goto, Runs!records, Runs!update,
      Runs!Outcomes
  <2> QED
    BY <1>2, <2>1, <2>2, GaugeFollows DEF RunInv
<1> QED
  BY <1>1, <1>2, <1>3, <1>4 DEF RunInv

LEMMA BackendErrorKeeps ==
  ASSUME NEW crews, NEW team \in Teams, NEW devices, NEW faults, IsFiniteSet(crews),
         RunInv(crews, team), NEW c \in crews, Runs(crews, team, devices, faults)!BackendError(c)
  PROVE  RunInv(crews, team)'
<1>1. RunType(crews, team)'
  BY DEF RunInv, RunType, RunSteps, RunStatuses, Returns, Ended, Runs!BackendError,
      Runs!ReturnEarly, Runs!records, Runs!agentry, Runs!history, Runs!Update,
      Runs!Goto, Runs!update
<1>2. ASSUME NEW d \in crews, d # c PROVE RunSound(d, team)' /\ Counted(d)' = Counted(d)
  <2>1. /\ runPc'[d] = runPc[d] /\ crewRec'[d] = crewRec[d] /\ want'[d] = want[d]
        /\ back'[d] = back[d] /\ unwritten'[d] = unwritten[d] /\ outcomes'[d] = outcomes[d]
        /\ next'[d] = next[d] /\ told'[d] = told[d] /\ (d \in slots' => d \in slots)
        /\ (d \in unplaced => d \in unplaced') /\ (d \in lost => d \in lost')
    BY <1>2 DEF RunInv, RunType, RunSteps, RunStatuses, Returns, Ended, Runs!BackendError,
      Runs!ReturnEarly, Runs!records, Runs!agentry, Runs!history, Runs!Update,
      Runs!Goto, Runs!update
  <2> QED
    BY <2>1, OtherRuns DEF RunInv
<1>3. RunSound(c, team)'
  BY DEF RunInv, RunType, RunSteps, RunStatuses, Returns, Ended, RunSound, WantKnown,
      AgentsInOrder, CompletedSound, SaidCompleted, EndWritten, Updating,
      Runs!BackendError, Runs!ReturnEarly, Runs!records, Runs!agentry, Runs!history,
      Runs!Update, Runs!Goto, Runs!update
<1>4. GaugeInv(crews)'
  <2>1. /\ active \in Int /\ failures \in Nat /\ failures' \in Nat /\ active' \in Int
        /\ (failures' = 0 => failures = 0)
    BY <1>1 DEF RunInv, RunType, Runs!BackendError, Runs!ReturnEarly, Runs!records, Runs!agentry,
                Runs!history, Runs!Update, Runs!Goto, Runs!update
  <2>2. \/ failures' > 0
        \/ active' = active /\ (Counted(c)' => Counted(c))
        \/ active' = active + 1
        \/ active' = active - 1 /\ Counted(c) /\ ~Counted(c)'
    BY DEF RunInv, RunType, RunSteps, RunStatuses, Returns, Ended, WantKnown, Counted,
      RunSound, Updating, Runs!BackendError, Runs!ReturnEarly, Runs!records,
      Runs!agentry, Runs!history, Runs!Update, Runs!Goto, Runs!update
  <2> QED
    BY <1>2, <2>1, <2>2, GaugeFollows DEF RunInv
<1> QED
  BY <1>1, <1>2, <1>3, <1>4 DEF RunInv

LEMMA PlanRefusedKeeps ==
  ASSUME NEW crews, NEW team \in Teams, NEW devices, NEW faults, IsFiniteSet(crews),
         RunInv(crews, team), NEW c \in crews, Runs(crews, team, devices, faults)!PlanRefused(c)
  PROVE  RunInv(crews, team)'
<1>1. RunType(crews, team)'
  BY DEF RunInv, RunType, RunSteps, RunStatuses, Returns, Ended, Runs!PlanRefused,
      Runs!Update, Runs!records, Runs!agentry, Runs!Goto, Runs!update
<1>2. ASSUME NEW d \in crews, d # c PROVE RunSound(d, team)' /\ Counted(d)' = Counted(d)
  <2>1. /\ runPc'[d] = runPc[d] /\ crewRec'[d] = crewRec[d] /\ want'[d] = want[d]
        /\ back'[d] = back[d] /\ unwritten'[d] = unwritten[d] /\ outcomes'[d] = outcomes[d]
        /\ next'[d] = next[d] /\ told'[d] = told[d] /\ (d \in slots' => d \in slots)
        /\ (d \in unplaced => d \in unplaced') /\ (d \in lost => d \in lost')
    BY <1>2 DEF RunInv, RunType, RunSteps, RunStatuses, Returns, Ended, Runs!PlanRefused,
      Runs!Update, Runs!records, Runs!agentry, Runs!Goto, Runs!update
  <2> QED
    BY <2>1, OtherRuns DEF RunInv
<1>3. RunSound(c, team)'
  BY DEF RunInv, RunType, RunSteps, RunStatuses, Returns, Ended, RunSound, WantKnown,
      AgentsInOrder, CompletedSound, SaidCompleted, EndWritten, Updating,
      Runs!PlanRefused, Runs!Update, Runs!records, Runs!agentry, Runs!Goto, Runs!update
<1>4. GaugeInv(crews)'
  <2>1. /\ active \in Int /\ failures \in Nat /\ failures' \in Nat /\ active' \in Int
        /\ (failures' = 0 => failures = 0)
    BY <1>1 DEF RunInv, RunType, Runs!PlanRefused, Runs!Update, Runs!records, Runs!agentry,
                Runs!Goto, Runs!update
  <2>2. \/ failures' > 0
        \/ active' = active /\ (Counted(c)' => Counted(c))
        \/ active' = active + 1
        \/ active' = active - 1 /\ Counted(c) /\ ~Counted(c)'
    BY DEF RunInv, RunType, RunSteps, RunStatuses, Returns, Ended, WantKnown, Counted,
      RunSound, Updating, Runs!PlanRefused, Runs!Update, Runs!records, Runs!agentry,
      Runs!Goto, Runs!update
  <2> QED
    BY <1>2, <2>1, <2>2, GaugeFollows DEF RunInv
<1> QED
  BY <1>1, <1>2, <1>3, <1>4 DEF RunInv

LEMMA ScheduleLocalKeeps ==
  ASSUME NEW crews, NEW team \in Teams, NEW devices, NEW faults, IsFiniteSet(crews),
         RunInv(crews, team), NEW c \in crews, Runs(crews, team, devices, faults)!ScheduleLocal(c)
  PROVE  RunInv(crews, team)'
<1>1. RunType(crews, team)'
  BY DEF RunInv, RunType, RunSteps, RunStatuses, Returns, Ended, Runs!ScheduleLocal,
      Runs!Goto, Runs!records, Runs!update, Runs!history
<1>2. ASSUME NEW d \in crews, d # c PROVE RunSound(d, team)' /\ Counted(d)' = Counted(d)
  <2>1. /\ runPc'[d] = runPc[d] /\ crewRec'[d] = crewRec[d] /\ want'[d] = want[d]
        /\ back'[d] = back[d] /\ unwritten'[d] = unwritten[d] /\ outcomes'[d] = outcomes[d]
        /\ next'[d] = next[d] /\ told'[d] = told[d] /\ (d \in slots' => d \in slots)
        /\ (d \in unplaced => d \in unplaced') /\ (d \in lost => d \in lost')
    BY <1>2 DEF RunInv, RunType, RunSteps, RunStatuses, Returns, Ended, Runs!ScheduleLocal,
      Runs!Goto, Runs!records, Runs!update, Runs!history
  <2> QED
    BY <2>1, OtherRuns DEF RunInv
<1>3. RunSound(c, team)'
  <2>1. /\ runPc[c] = "execute" /\ runPc'[c] = "agents" /\ next'[c] = 1
        /\ UNCHANGED <<crewRec, want, back, unwritten, told, unplaced, lost, outcomes>>
    BY DEF RunInv, RunType, Runs!ScheduleLocal, Runs!Goto, Runs!records, Runs!update, Runs!history
  <2>2. \A k \in team : ~(k < 1)
    BY DEF Teams
  <2> QED
    BY <2>1, <2>2
       DEF RunInv, RunSound, WantKnown, AgentsInOrder, CompletedSound, SaidCompleted, EndWritten,
           Updating
<1>4. GaugeInv(crews)'
  <2>1. /\ active \in Int /\ failures \in Nat /\ failures' \in Nat /\ active' \in Int
        /\ (failures' = 0 => failures = 0)
    BY <1>1 DEF RunInv, RunType, Runs!ScheduleLocal, Runs!Goto, Runs!records, Runs!update,
                Runs!history
  <2>2. \/ failures' > 0
        \/ active' = active /\ (Counted(c)' => Counted(c))
        \/ active' = active + 1
        \/ active' = active - 1 /\ Counted(c) /\ ~Counted(c)'
    BY DEF RunInv, RunType, RunSteps, RunStatuses, Returns, Ended, WantKnown, Counted,
      RunSound, Updating, Runs!ScheduleLocal, Runs!Goto, Runs!records, Runs!update,
      Runs!history
  <2> QED
    BY <1>2, <2>1, <2>2, GaugeFollows DEF RunInv
<1> QED
  BY <1>1, <1>2, <1>3, <1>4 DEF RunInv

LEMMA SetEnvironmentKeeps ==
  ASSUME NEW crews, NEW team \in Teams, NEW devices, NEW faults, IsFiniteSet(crews),
         RunInv(crews, team), NEW c \in crews, Runs(crews, team, devices, faults)!SetEnvironment(c)
  PROVE  RunInv(crews, team)'
<1>1. RunType(crews, team)'
  BY DEF RunInv, RunType, RunSteps, RunStatuses, Returns, Ended, Runs!SetEnvironment,
      Runs!Goto, Runs!records, Runs!update, Runs!history
<1>2. ASSUME NEW d \in crews, d # c PROVE RunSound(d, team)' /\ Counted(d)' = Counted(d)
  <2>1. /\ runPc'[d] = runPc[d] /\ crewRec'[d] = crewRec[d] /\ want'[d] = want[d]
        /\ back'[d] = back[d] /\ unwritten'[d] = unwritten[d] /\ outcomes'[d] = outcomes[d]
        /\ next'[d] = next[d] /\ told'[d] = told[d] /\ (d \in slots' => d \in slots)
        /\ (d \in unplaced => d \in unplaced') /\ (d \in lost => d \in lost')
    BY <1>2 DEF RunInv, RunType, RunSteps, RunStatuses, Returns, Ended, Runs!SetEnvironment,
      Runs!Goto, Runs!records, Runs!update, Runs!history
  <2> QED
    BY <2>1, OtherRuns DEF RunInv
<1>3. RunSound(c, team)'
  <2>1. /\ runPc[c] = "agents" /\ runPc'[c] = "handling" /\ next[c] \in team
        /\ UNCHANGED <<crewRec, want, back, unwritten, told, slots, unplaced, lost, next, outcomes>>
    BY DEF RunInv, RunType, Runs!SetEnvironment, Runs!Goto, Runs!records, Runs!update,
       Runs!history
  <2> QED
    BY <2>1 DEF RunInv, RunSound, WantKnown, AgentsInOrder, CompletedSound, SaidCompleted,
                EndWritten, Updating
<1>4. GaugeInv(crews)'
  <2>1. /\ active \in Int /\ failures \in Nat /\ failures' \in Nat /\ active' \in Int
        /\ (failures' = 0 => failures = 0)
    BY <1>1 DEF RunInv, RunType, Runs!SetEnvironment, Runs!Goto, Runs!records, Runs!update,
                Runs!history
  <2>2. \/ failures' > 0
        \/ active' = active /\ (Counted(c)' => Counted(c))
        \/ active' = active + 1
        \/ active' = active - 1 /\ Counted(c) /\ ~Counted(c)'
    BY DEF RunInv, RunType, RunSteps, RunStatuses, Returns, Ended, WantKnown, Counted,
      RunSound, Updating, Runs!SetEnvironment, Runs!Goto, Runs!records, Runs!update,
      Runs!history
  <2> QED
    BY <1>2, <2>1, <2>2, GaugeFollows DEF RunInv
<1> QED
  BY <1>1, <1>2, <1>3, <1>4 DEF RunInv

LEMMA AgentDoneKeeps ==
  ASSUME NEW crews, NEW team \in Teams, NEW devices, NEW faults, IsFiniteSet(crews),
         RunInv(crews, team), NEW c \in crews, Runs(crews, team, devices, faults)!AgentDone(c)
  PROVE  RunInv(crews, team)'
<1>1. RunType(crews, team)'
  <2>1. next[c] \in team /\ next[c] \in Nat
    BY DEF RunInv, RunType, RunSound, AgentsInOrder, Runs!AgentDone
  <2>2. outcomes' \in [crews -> [team -> {"none", "completed", "failed"}]]
    <3>1. PICK out \in {"completed", "failed"} : outcomes' = [outcomes EXCEPT ![c][next[c]] = out]
      BY DEF Runs!AgentDone, Runs!Outcomes
    <3>2. [outcomes[c] EXCEPT ![next[c]] = out] \in [team -> {"none", "completed", "failed"}]
      BY DEF RunInv, RunType
    <3> QED
      BY <3>1, <3>2 DEF RunInv, RunType
  <2> QED
    BY <2>1, <2>2 DEF RunInv, RunType, RunSteps, Runs!AgentDone, Runs!Goto, Runs!records,
                      Runs!update, Runs!history
<1>2. ASSUME NEW d \in crews, d # c PROVE RunSound(d, team)' /\ Counted(d)' = Counted(d)
  <2>1. /\ runPc'[d] = runPc[d] /\ crewRec'[d] = crewRec[d] /\ want'[d] = want[d]
        /\ back'[d] = back[d] /\ unwritten'[d] = unwritten[d] /\ outcomes'[d] = outcomes[d]
        /\ next'[d] = next[d] /\ told'[d] = told[d] /\ (d \in slots' => d \in slots)
        /\ (d \in unplaced => d \in unplaced') /\ (d \in lost => d \in lost')
    BY <1>2 DEF RunInv, RunType, RunSteps, RunStatuses, Returns, Ended, Runs!AgentDone,
      Runs!Goto, Runs!records, Runs!update, Runs!history, Runs!Outcomes
  <2> QED
    BY <2>1, OtherRuns DEF RunInv
<1>3. RunSound(c, team)'
  <2>1. next[c] \in team /\ next[c] \in Nat /\ next[c] > 0 /\ team \subseteq Nat
    BY DEF RunInv, RunType, RunSound, AgentsInOrder, Runs!AgentDone, Teams
  <2>2. PICK out \in {"completed", "failed"} : outcomes' = [outcomes EXCEPT ![c][next[c]] = out]
    BY DEF Runs!AgentDone, Runs!Outcomes
  <2>3. outcomes'[c] = [outcomes[c] EXCEPT ![next[c]] = out]
    BY <2>2 DEF RunInv, RunType
  <2>4. ASSUME NEW k \in team, k < next[c] + 1 PROVE outcomes'[c][k] # "none"
    BY <2>1, <2>3, <2>4 DEF RunInv, RunType, RunSound, AgentsInOrder, Runs!AgentDone
  <2>5. /\ runPc[c] = "handling" /\ runPc'[c] = "agents" /\ next'[c] = next[c] + 1
        /\ UNCHANGED <<crewRec, want, back, unwritten, told, slots, unplaced, lost>>
    BY DEF RunInv, RunType, Runs!AgentDone, Runs!Goto, Runs!records, Runs!update, Runs!history
  <2> HIDE DEF Teams
  <2> QED
    BY <2>1, <2>4, <2>5
       DEF RunInv, RunSound, WantKnown, AgentsInOrder, CompletedSound, SaidCompleted, EndWritten,
           Updating
<1>4. GaugeInv(crews)'
  <2>1. /\ active \in Int /\ failures \in Nat /\ failures' \in Nat /\ active' \in Int
        /\ (failures' = 0 => failures = 0)
    BY <1>1 DEF RunInv, RunType, Runs!AgentDone, Runs!Goto, Runs!records, Runs!update,
                Runs!history, Runs!Outcomes
  <2>2. \/ failures' > 0
        \/ active' = active /\ (Counted(c)' => Counted(c))
        \/ active' = active + 1
        \/ active' = active - 1 /\ Counted(c) /\ ~Counted(c)'
    BY DEF RunInv, RunType, RunSteps, RunStatuses, Returns, Ended, WantKnown, Counted,
      RunSound, Updating, Runs!AgentDone, Runs!Goto, Runs!records, Runs!update,
      Runs!history, Runs!Outcomes
  <2> QED
    BY <1>2, <2>1, <2>2, GaugeFollows DEF RunInv
<1> QED
  BY <1>1, <1>2, <1>3, <1>4 DEF RunInv

LEMMA LocalDoneKeeps ==
  ASSUME NEW crews, NEW team \in Teams, NEW devices, NEW faults, IsFiniteSet(crews),
         RunInv(crews, team), NEW c \in crews, Runs(crews, team, devices, faults)!LocalDone(c)
  PROVE  RunInv(crews, team)'
<1>1. RunType(crews, team)'
  BY DEF RunInv, RunType, RunSteps, RunStatuses, Returns, Ended, Runs!LocalDone,
      Runs!Goto, Runs!records, Runs!update, Runs!history
<1>2. ASSUME NEW d \in crews, d # c PROVE RunSound(d, team)' /\ Counted(d)' = Counted(d)
  <2>1. /\ runPc'[d] = runPc[d] /\ crewRec'[d] = crewRec[d] /\ want'[d] = want[d]
        /\ back'[d] = back[d] /\ unwritten'[d] = unwritten[d] /\ outcomes'[d] = outcomes[d]
        /\ next'[d] = next[d] /\ told'[d] = told[d] /\ (d \in slots' => d \in slots)
        /\ (d \in unplaced => d \in unplaced') /\ (d \in lost => d \in lost')
    BY <1>2 DEF RunInv, RunType, RunSteps, RunStatuses, Returns, Ended, Runs!LocalDone,
      Runs!Goto, Runs!records, Runs!update, Runs!history
  <2> QED
    BY <2>1, OtherRuns DEF RunInv
<1>3. RunSound(c, team)'
  <2>1. /\ runPc[c] = "agents" /\ runPc'[c] = "aggregate" /\ next[c] \notin team
        /\ c \notin slots' /\ next[c] \in Nat /\ next[c] > 0
        /\ UNCHANGED <<crewRec, want, back, unwritten, told, unplaced, lost, outcomes>>
    BY DEF RunInv, RunType, RunSound, AgentsInOrder, Runs!LocalDone, Runs!Goto, Runs!records,
           Runs!update, Runs!history
  <2>2. ASSUME NEW k \in team PROVE k < next[c]
    <3>1. k \in Nat /\ 1..k \subseteq team
      BY DEF Teams
    <3>2. ~(next[c] \in 1..k)
      BY <2>1, <3>1
    <3> QED
      BY <2>1, <3>1, <3>2
  <2>3. \A k \in team : outcomes[c][k] # "none"
    BY <2>1, <2>2 DEF RunInv, RunSound, AgentsInOrder
  <2> QED
    BY <2>1, <2>3
       DEF RunInv, RunSound, WantKnown, AgentsInOrder, CompletedSound, SaidCompleted, EndWritten,
           Updating
<1>4. GaugeInv(crews)'
  <2>1. /\ active \in Int /\ failures \in Nat /\ failures' \in Nat /\ active' \in Int
        /\ (failures' = 0 => failures = 0)
    BY <1>1 DEF RunInv, RunType, Runs!LocalDone, Runs!Goto, Runs!records, Runs!update,
                Runs!history
  <2>2. \/ failures' > 0
        \/ active' = active /\ (Counted(c)' => Counted(c))
        \/ active' = active + 1
        \/ active' = active - 1 /\ Counted(c) /\ ~Counted(c)'
    BY DEF RunInv, RunType, RunSteps, RunStatuses, Returns, Ended, WantKnown, Counted,
      RunSound, Updating, Runs!LocalDone, Runs!Goto, Runs!records, Runs!update,
      Runs!history
  <2> QED
    BY <1>2, <2>1, <2>2, GaugeFollows DEF RunInv
<1> QED
  BY <1>1, <1>2, <1>3, <1>4 DEF RunInv

LEMMA AggregateKeeps ==
  ASSUME NEW crews, NEW team \in Teams, NEW devices, NEW faults, IsFiniteSet(crews),
         RunInv(crews, team), NEW c \in crews, Runs(crews, team, devices, faults)!Aggregate(c)
  PROVE  RunInv(crews, team)'
<1>1. RunType(crews, team)'
  BY DEF RunInv, RunType, RunSteps, RunStatuses, Returns, Ended, Runs!Aggregate,
      Runs!Update, Runs!records, Runs!agentry, Runs!FinalStatus, Runs!Goto, Runs!update
<1>2. ASSUME NEW d \in crews, d # c PROVE RunSound(d, team)' /\ Counted(d)' = Counted(d)
  <2>1. /\ runPc'[d] = runPc[d] /\ crewRec'[d] = crewRec[d] /\ want'[d] = want[d]
        /\ back'[d] = back[d] /\ unwritten'[d] = unwritten[d] /\ outcomes'[d] = outcomes[d]
        /\ next'[d] = next[d] /\ told'[d] = told[d] /\ (d \in slots' => d \in slots)
        /\ (d \in unplaced => d \in unplaced') /\ (d \in lost => d \in lost')
    BY <1>2 DEF RunInv, RunType, RunSteps, RunStatuses, Returns, Ended, Runs!Aggregate,
      Runs!Update, Runs!records, Runs!agentry, Runs!FinalStatus, Runs!Goto, Runs!update
  <2> QED
    BY <2>1, OtherRuns DEF RunInv
<1>3. RunSound(c, team)'
  BY DEF RunInv, RunType, RunSteps, RunStatuses, Returns, Ended, RunSound, WantKnown,
      AgentsInOrder, CompletedSound, SaidCompleted, EndWritten, Updating,
      Runs!Aggregate, Runs!Update, Runs!records, Runs!agentry, Runs!FinalStatus,
      Runs!Goto, Runs!update
<1>4. GaugeInv(crews)'
  <2>1. /\ active \in Int /\ failures \in Nat /\ failures' \in Nat /\ active' \in Int
        /\ (failures' = 0 => failures = 0)
    BY <1>1 DEF RunInv, RunType, Runs!Aggregate, Runs!Update, Runs!records, Runs!agentry,
                Runs!FinalStatus, Runs!Goto, Runs!update
  <2>2. \/ failures' > 0
        \/ active' = active /\ (Counted(c)' => Counted(c))
        \/ active' = active + 1
        \/ active' = active - 1 /\ Counted(c) /\ ~Counted(c)'
    BY DEF RunInv, RunType, RunSteps, RunStatuses, Returns, Ended, WantKnown, Counted,
      RunSound, Updating, Runs!Aggregate, Runs!Update, Runs!records, Runs!agentry,
      Runs!FinalStatus, Runs!Goto, Runs!update
  <2> QED
    BY <1>2, <2>1, <2>2, GaugeFollows DEF RunInv
<1> QED
  BY <1>1, <1>2, <1>3, <1>4 DEF RunInv

LEMMA FinalizeCrewKeeps ==
  ASSUME NEW crews, NEW team \in Teams, NEW devices, NEW faults, IsFiniteSet(crews),
         RunInv(crews, team), NEW c \in crews, Runs(crews, team, devices, faults)!FinalizeCrew(c)
  PROVE  RunInv(crews, team)'
<1>1. RunType(crews, team)'
  BY DEF RunInv, RunType, RunSteps, RunStatuses, Returns, Ended, Runs!FinalizeCrew,
      Runs!Goto, Runs!records, Runs!update, Runs!agentry, Runs!history
<1>2. ASSUME NEW d \in crews, d # c PROVE RunSound(d, team)' /\ Counted(d)' = Counted(d)
  <2>1. /\ runPc'[d] = runPc[d] /\ crewRec'[d] = crewRec[d] /\ want'[d] = want[d]
        /\ back'[d] = back[d] /\ unwritten'[d] = unwritten[d] /\ outcomes'[d] = outcomes[d]
        /\ next'[d] = next[d] /\ told'[d] = told[d] /\ (d \in slots' => d \in slots)
        /\ (d \in unplaced => d \in unplaced') /\ (d \in lost => d \in lost')
    BY <1>2 DEF RunInv, RunType, RunSteps, RunStatuses, Returns, Ended, Runs!FinalizeCrew,
      Runs!Goto, Runs!records, Runs!update, Runs!agentry, Runs!history
  <2> QED
    BY <2>1, OtherRuns DEF RunInv
<1>3. RunSound(c, team)'
  BY DEF RunInv, RunType, RunSteps, RunStatuses, Returns, Ended, RunSound, WantKnown,
      AgentsInOrder, CompletedSound, SaidCompleted, EndWritten, Updating,
      Runs!FinalizeCrew, Runs!Goto, Runs!records, Runs!update, Runs!agentry,
      Runs!history
<1>4. GaugeInv(crews)'
  <2>1. /\ active \in Int /\ failures \in Nat /\ failures' \in Nat /\ active' \in Int
        /\ (failures' = 0 => failures = 0)
    BY <1>1 DEF RunInv, RunType, Runs!FinalizeCrew, Runs!Goto, Runs!records, Runs!update,
                Runs!agentry, Runs!history
  <2>2. \/ failures' > 0
        \/ active' = active /\ (Counted(c)' => Counted(c))
        \/ active' = active + 1
        \/ active' = active - 1 /\ Counted(c) /\ ~Counted(c)'
    BY DEF RunInv, RunType, RunSteps, RunStatuses, Returns, Ended, WantKnown, Counted,
      RunSound, Updating, Runs!FinalizeCrew, Runs!Goto, Runs!records, Runs!update,
      Runs!agentry, Runs!history
  <2> QED
    BY <1>2, <2>1, <2>2, GaugeFollows DEF RunInv
<1> QED
  BY <1>1, <1>2, <1>3, <1>4 DEF RunInv

LEMMA CancelCrewKeeps ==
  ASSUME NEW crews, NEW team \in Teams, NEW devices, NEW faults, IsFiniteSet(crews),
         RunInv(crews, team), NEW c \in crews, Runs(crews, team, devices, faults)!CancelCrew(c)
  PROVE  RunInv(crews, team)'
<1>1. RunType(crews, team)'
  BY DEF RunInv, RunType, RunSteps, RunStatuses, Returns, Ended, Runs!CancelCrew,
      Runs!records, Runs!update, Runs!agentry, Runs!history
<1>2. ASSUME NEW d \in crews, d # c PROVE RunSound(d, team)' /\ Counted(d)' = Counted(d)
  <2>1. /\ runPc'[d] = runPc[d] /\ crewRec'[d] = crewRec[d] /\ want'[d] = want[d]
        /\ back'[d] = back[d] /\ unwritten'[d] = unwritten[d] /\ outcomes'[d] = outcomes[d]
        /\ next'[d] = next[d] /\ told'[d] = told[d] /\ (d \in slots' => d \in slots)
        /\ (d \in unplaced => d \in unplaced') /\ (d \in lost => d \in lost')
    BY <1>2 DEF RunInv, RunType, RunSteps, RunStatuses, Returns, Ended, Runs!CancelCrew,
      Runs!records, Runs!update, Runs!agentry, Runs!history
  <2> QED
    BY <2>1, OtherRuns DEF RunInv
<1>3. RunSound(c, team)'
  BY DEF RunInv, RunType, RunSteps, RunStatuses, Returns, Ended, RunSound, WantKnown,
      AgentsInOrder, CompletedSound, SaidCompleted, EndWritten, Updating,
      Runs!CancelCrew, Runs!records, Runs!update, Runs!agentry, Runs!history
<1>4. GaugeInv(crews)'
  <2>1. /\ active \in Int /\ failures \in Nat /\ failures' \in Nat /\ active' \in Int
        /\ (failures' = 0 => failures = 0)
    BY <1>1 DEF RunInv, RunType, Runs!CancelCrew, Runs!records, Runs!update, Runs!agentry,
                Runs!history
  <2>2. \/ failures' > 0
        \/ active' = active /\ (Counted(c)' => Counted(c))
        \/ active' = active + 1
        \/ active' = active - 1 /\ Counted(c) /\ ~Counted(c)'
    BY DEF RunInv, RunType, RunSteps, RunStatuses, Returns, Ended, WantKnown, Counted,
      RunSound, Updating, Runs!CancelCrew, Runs!records, Runs!update, Runs!agentry,
      Runs!history
  <2> QED
    BY <1>2, <2>1, <2>2, GaugeFollows DEF RunInv
<1> QED
  BY <1>1, <1>2, <1>3, <1>4 DEF RunInv

LEMMA CancelWriteCrewKeeps ==
  ASSUME NEW crews, NEW team \in Teams, NEW devices, NEW faults, IsFiniteSet(crews),
         RunInv(crews, team), NEW c \in crews, Runs(crews, team, devices, faults)!CancelWriteCrew(c)
  PROVE  RunInv(crews, team)'
<1>1. RunType(crews, team)'
  BY DEF RunInv, RunType, RunSteps, RunStatuses, Returns, Ended, Runs!CancelWriteCrew,
      Runs!update, Runs!agentry, Runs!history
<1>2. ASSUME NEW d \in crews, d # c PROVE RunSound(d, team)' /\ Counted(d)' = Counted(d)
  <2>1. /\ runPc'[d] = runPc[d] /\ crewRec'[d] = crewRec[d] /\ want'[d] = want[d]
        /\ back'[d] = back[d] /\ unwritten'[d] = unwritten[d] /\ outcomes'[d] = outcomes[d]
        /\ next'[d] = next[d] /\ told'[d] = told[d] /\ (d \in slots' => d \in slots)
        /\ (d \in unplaced => d \in unplaced') /\ (d \in lost => d \in lost')
    BY <1>2 DEF RunInv, RunType, RunSteps, RunStatuses, Returns, Ended, Runs!CancelWriteCrew,
      Runs!update, Runs!agentry, Runs!history
  <2> QED
    BY <2>1, OtherRuns DEF RunInv
<1>3. RunSound(c, team)'
  BY DEF RunInv, RunType, RunSteps, RunStatuses, Returns, Ended, RunSound, WantKnown,
      AgentsInOrder, CompletedSound, SaidCompleted, EndWritten, Updating,
      Runs!CancelWriteCrew, Runs!update, Runs!agentry, Runs!history
<1>4. GaugeInv(crews)'
  <2>1. /\ active \in Int /\ failures \in Nat /\ failures' \in Nat /\ active' \in Int
        /\ (failures' = 0 => failures = 0)
    BY <1>1 DEF RunInv, RunType, Runs!CancelWriteCrew, Runs!update, Runs!agentry, Runs!history
  <2>2. \/ failures' > 0
        \/ active' = active /\ (Counted(c)' => Counted(c))
        \/ active' = active + 1
        \/ active' = active - 1 /\ Counted(c) /\ ~Counted(c)'
    BY DEF RunInv, RunType, RunSteps, RunStatuses, Returns, Ended, WantKnown, Counted,
      RunSound, Updating, Runs!CancelWriteCrew, Runs!update, Runs!agentry, Runs!history
  <2> QED
    BY <1>2, <2>1, <2>2, GaugeFollows DEF RunInv
<1> QED
  BY <1>1, <1>2, <1>3, <1>4 DEF RunInv

LEMMA CancelReadTaskKeeps ==
  ASSUME NEW crews, NEW team \in Teams, NEW devices, NEW faults, IsFiniteSet(crews),
         RunInv(crews, team), NEW c \in crews, Runs(crews, team, devices, faults)!CancelReadTask(c)
  PROVE  RunInv(crews, team)'
<1>1. RunType(crews, team)'
  BY DEF RunInv, RunType, RunSteps, RunStatuses, Returns, Ended, Runs!CancelReadTask,
      Runs!records, Runs!update, Runs!agentry, Runs!history
<1>2. ASSUME NEW d \in crews, d # c PROVE RunSound(d, team)' /\ Counted(d)' = Counted(d)
  <2>1. /\ runPc'[d] = runPc[d] /\ crewRec'[d] = crewRec[d] /\ want'[d] = want[d]
        /\ back'[d] = back[d] /\ unwritten'[d] = unwritten[d] /\ outcomes'[d] = outcomes[d]
        /\ next'[d] = next[d] /\ told'[d] = told[d] /\ (d \in slots' => d \in slots)
        /\ (d \in unplaced => d \in unplaced') /\ (d \in lost => d \in lost')
    BY <1>2 DEF RunInv, RunType, RunSteps, RunStatuses, Returns, Ended, Runs!CancelReadTask,
      Runs!records, Runs!update, Runs!agentry, Runs!history
  <2> QED
    BY <2>1, OtherRuns DEF RunInv
<1>3. RunSound(c, team)'
  BY DEF RunInv, RunType, RunSteps, RunStatuses, Returns, Ended, RunSound, WantKnown,
      AgentsInOrder, CompletedSound, SaidCompleted, EndWritten, Updating,
      Runs!CancelReadTask, Runs!records, Runs!update, Runs!agentry, Runs!history
<1>4. GaugeInv(crews)'
  <2>1. /\ active \in Int /\ failures \in Nat /\ failures' \in Nat /\ active' \in Int
        /\ (failures' = 0 => failures = 0)
    BY <1>1 DEF RunInv, RunType, Runs!CancelReadTask, Runs!records, Runs!update, Runs!agentry,
                Runs!history
  <2>2. \/ failures' > 0
        \/ active' = active /\ (Counted(c)' => Counted(c))
        \/ active' = active + 1
        \/ active' = active - 1 /\ Counted(c) /\ ~Counted(c)'
    BY DEF RunInv, RunType, RunSteps, RunStatuses, Returns, Ended, WantKnown, Counted,
      RunSound, Updating, Runs!CancelReadTask, Runs!records, Runs!update, Runs!agentry,
      Runs!history
  <2> QED
    BY <1>2, <2>1, <2>2, GaugeFollows DEF RunInv
<1> QED
  BY <1>1, <1>2, <1>3, <1>4 DEF RunInv

LEMMA CancelTaskKeeps ==
  ASSUME NEW crews, NEW team \in Teams, NEW devices, NEW faults, IsFiniteSet(crews),
         RunInv(crews, team), NEW c \in crews, Runs(crews, team, devices, faults)!CancelTask(c)
  PROVE  RunInv(crews, team)'
<1>1. RunType(crews, team)'
  BY DEF RunInv, RunType, RunSteps, RunStatuses, Returns, Ended, Runs!CancelTask,
      Runs!records, Runs!update, Runs!agentry, Runs!history
<1>2. ASSUME NEW d \in crews, d # c PROVE RunSound(d, team)' /\ Counted(d)' = Counted(d)
  <2>1. /\ runPc'[d] = runPc[d] /\ crewRec'[d] = crewRec[d] /\ want'[d] = want[d]
        /\ back'[d] = back[d] /\ unwritten'[d] = unwritten[d] /\ outcomes'[d] = outcomes[d]
        /\ next'[d] = next[d] /\ told'[d] = told[d] /\ (d \in slots' => d \in slots)
        /\ (d \in unplaced => d \in unplaced') /\ (d \in lost => d \in lost')
    BY <1>2 DEF RunInv, RunType, RunSteps, RunStatuses, Returns, Ended, Runs!CancelTask,
      Runs!records, Runs!update, Runs!agentry, Runs!history
  <2> QED
    BY <2>1, OtherRuns DEF RunInv
<1>3. RunSound(c, team)'
  BY DEF RunInv, RunType, RunSteps, RunStatuses, Returns, Ended, RunSound, WantKnown,
      AgentsInOrder, CompletedSound, SaidCompleted, EndWritten, Updating,
      Runs!CancelTask, Runs!records, Runs!update, Runs!agentry, Runs!history
<1>4. GaugeInv(crews)'
  <2>1. /\ active \in Int /\ failures \in Nat /\ failures' \in Nat /\ active' \in Int
        /\ (failures' = 0 => failures = 0)
    BY <1>1 DEF RunInv, RunType, Runs!CancelTask, Runs!records, Runs!update, Runs!agentry,
                Runs!history
  <2>2. \/ failures' > 0
        \/ active' = active /\ (Counted(c)' => Counted(c))
        \/ active' = active + 1
        \/ active' = active - 1 /\ Counted(c) /\ ~Counted(c)'
    BY DEF RunInv, RunType, RunSteps, RunStatuses, Returns, Ended, WantKnown, Counted,
      RunSound, Updating, Runs!CancelTask, Runs!records, Runs!update, Runs!agentry,
      Runs!history
  <2> QED
    BY <1>2, <2>1, <2>2, GaugeFollows DEF RunInv
<1> QED
  BY <1>1, <1>2, <1>3, <1>4 DEF RunInv

LEMMA CancelWriteTaskKeeps ==
  ASSUME NEW crews, NEW team \in Teams, NEW devices, NEW faults, IsFiniteSet(crews),
         RunInv(crews, team), NEW c \in crews, Runs(crews, team, devices, faults)!CancelWriteTask(c)
  PROVE  RunInv(crews, team)'
<1>1. RunType(crews, team)'
  BY DEF RunInv, RunType, RunSteps, RunStatuses, Returns, Ended, Runs!CancelWriteTask,
      Runs!update, Runs!agentry, Runs!history
<1>2. ASSUME NEW d \in crews, d # c PROVE RunSound(d, team)' /\ Counted(d)' = Counted(d)
  <2>1. /\ runPc'[d] = runPc[d] /\ crewRec'[d] = crewRec[d] /\ want'[d] = want[d]
        /\ back'[d] = back[d] /\ unwritten'[d] = unwritten[d] /\ outcomes'[d] = outcomes[d]
        /\ next'[d] = next[d] /\ told'[d] = told[d] /\ (d \in slots' => d \in slots)
        /\ (d \in unplaced => d \in unplaced') /\ (d \in lost => d \in lost')
    BY <1>2 DEF RunInv, RunType, RunSteps, RunStatuses, Returns, Ended, Runs!CancelWriteTask,
      Runs!update, Runs!agentry, Runs!history
  <2> QED
    BY <2>1, OtherRuns DEF RunInv
<1>3. RunSound(c, team)'
  BY DEF RunInv, RunType, RunSteps, RunStatuses, Returns, Ended, RunSound, WantKnown,
      AgentsInOrder, CompletedSound, SaidCompleted, EndWritten, Updating,
      Runs!CancelWriteTask, Runs!update, Runs!agentry, Runs!history
<1>4. GaugeInv(crews)'
  <2>1. /\ active \in Int /\ failures \in Nat /\ failures' \in Nat /\ active' \in Int
        /\ (failures' = 0 => failures = 0)
    BY <1>1 DEF RunInv, RunType, Runs!CancelWriteTask, Runs!update, Runs!agentry, Runs!history
  <2>2. \/ failures' > 0
        \/ active' = active /\ (Counted(c)' => Counted(c))
        \/ active' = active + 1
        \/ active' = active - 1 /\ Counted(c) /\ ~Counted(c)'
    BY DEF RunInv, RunType, RunSteps, RunStatuses, Returns, Ended, WantKnown, Counted,
      RunSound, Updating, Runs!CancelWriteTask, Runs!update, Runs!agentry, Runs!history
  <2> QED
    BY <1>2, <2>1, <2>2, GaugeFollows DEF RunInv
<1> QED
  BY <1>1, <1>2, <1>3, <1>4 DEF RunInv

LEMMA RunInvStep ==
  ASSUME NEW crews, NEW team \in Teams, NEW devices, NEW faults, IsFiniteSet(crews),
         RunInv(crews, team), Runs(crews, team, devices, faults)!Next \/ UNCHANGED runVars
  PROVE  RunInv(crews, team)'
<1>1. CASE UNCHANGED runVars
  <2>1. RunType(crews, team)'
    BY <1>1 DEF RunInv, RunType, runVars
  <2>2. \A c \in crews : RunSound(c, team)' /\ Counted(c)' = Counted(c)
    BY <1>1 DEF runVars, RunInv, RunSound, WantKnown, AgentsInOrder, CompletedSound,
                SaidCompleted,
                EndWritten, Updating, Counted
  <2>3. Counting(crews)' = Counting(crews)
    BY <2>2 DEF Counting
  <2> QED
    BY <1>1, <2>1, <2>2, <2>3 DEF RunInv, GaugeInv, runVars
<1>2. ASSUME NEW c \in crews, Runs(crews, team, devices, faults)!Background(c)
      PROVE  RunInv(crews, team)'
  BY <1>2, StartKeeps, WriteCrewKeeps, WriteTaskKeeps, UpdatedKeeps, NoAgentsKeeps,
     BuildAgentsKeeps, RaiseKeeps, RemoteKeeps, BackendErrorKeeps, PlanRefusedKeeps,
     ScheduleLocalKeeps, SetEnvironmentKeeps, AgentDoneKeeps, LocalDoneKeeps, AggregateKeeps,
     FinalizeCrewKeeps DEF Runs!Background
<1>3. ASSUME NEW c \in crews, Runs(crews, team, devices, faults)!Cancelling(c)
      PROVE  RunInv(crews, team)'
  BY <1>3, CancelCrewKeeps, CancelWriteCrewKeeps, CancelReadTaskKeeps, CancelTaskKeeps,
     CancelWriteTaskKeeps DEF Runs!Cancelling
<1> QED
  BY <1>1, <1>2, <1>3, RunCrewKeeps, StoreTaskKeeps, UpdateFailsKeeps
     DEF Runs!Next, Runs!RetryTask

LEMMA RunsHold ==
  ASSUME NEW crews, NEW team, NEW devices, NEW faults, IsFiniteSet(crews), RunInv(crews, team)
  PROVE  RunsSettledIn(crews, team, devices, faults)
<1>1. Runs(crews, team, devices, faults)!CompletedHonest
  BY DEF RunInv, RunSound, CompletedSound, SaidCompleted, Runs!CompletedHonest
<1>2. Runs(crews, team, devices, faults)!EndedSettled
  BY DEF RunInv, RunSound, EndWritten, Ended, Runs!EndedSettled, Runs!Ended, Runs!Idle
<1>3. Runs(crews, team, devices, faults)!WebhookTellsEnd
  BY DEF RunInv, RunSound, Ended, Runs!WebhookTellsEnd, Runs!Ended
<1>4. Runs(crews, team, devices, faults)!SlotsReleased
  BY DEF RunInv, RunSound, Runs!SlotsReleased
<1>5. Runs(crews, team, devices, faults)!GaugeCovers
  <2> DEFINE shown == {c \in crews : runPc[c] \in {"build", "execute", "agents", "handling",
                                                   "aggregate"}}
  <2>1. shown \subseteq Counting(crews) /\ Counting(crews) \subseteq crews
    BY DEF Counting, Counted
  <2>2. IsFiniteSet(Counting(crews)) /\ IsFiniteSet(shown)
    BY <2>1, FS_Subset
  <2>3. Cardinality(shown) <= Cardinality(Counting(crews))
    BY <2>1, <2>2, FS_Subset
  <2>4. Cardinality(shown) \in Nat /\ Cardinality(Counting(crews)) \in Nat /\ active \in Int
    BY <2>2, FS_CardinalityType DEF RunInv, RunType
  <2>5. failures = 0 => active >= Cardinality(Counting(crews))
    BY DEF RunInv, GaugeInv
  <2>6. failures = 0 => active >= Cardinality(shown)
    <3> DEFINE a == Cardinality(Counting(crews))
               b == Cardinality(shown)
    <3>1. a \in Nat /\ b \in Nat /\ b <= a /\ (failures = 0 => active >= a) /\ active \in Int
      BY <2>3, <2>4, <2>5
    <3> HIDE DEF a, b
    <3>2. failures = 0 => active >= b
      BY <3>1
    <3> QED
      BY <3>2 DEF b
  <2>7. Cardinality(shown) = Runs(crews, team, devices, faults)!Cardinality(shown)
    BY DEF Cardinality, Runs!Cardinality
  <2> QED
    BY <2>6, <2>7 DEF Runs!GaugeCovers
<1> QED
  BY <1>1, <1>2, <1>3, <1>4, <1>5 DEF RunsSettledIn

----------------------------------------------------------------------------
(* The alerts                                                               *)

\* What is to be told of the poll under way is told or left to tell; between polls the
\* next is compared to the last one that was answered.
PollInv ==
  /\ monitor = [step |-> monitor.step, ping |-> monitor.ping, seen |-> monitor.seen,
                left |-> monitor.left, way |-> monitor.way, tries |-> monitor.tries]
  /\ monitor.step \in {"off", "sleep", "asked", "fire", "deliver"}
  /\ polled = <<polled[1], polled[2]>>
  /\ IF monitor.step \in {"fire", "deliver"}
     THEN /\ compared = polled[1] /\ monitor.seen = polled[2]
          /\ Alerting!Transitions(polled[1], polled[2]) \subseteq accounted \cup monitor.left
     ELSE compared = polled[2] /\ accounted = {}

\* A key that is kept has the time of the last alert with it; one that is gone is older
\* than the cooldown, or was pushed out.
CooldownInv ==
  /\ IsFiniteSet(DOMAIN heard) /\ DOMAIN fired \subseteq DOMAIN heard
  /\ \A a \in DOMAIN heard :
       /\ heard[a] = [age |-> heard[a].age, later |-> heard[a].later,
                      gap |-> heard[a].gap, since |-> heard[a].since]
       /\ heard[a].age \in 0 .. EvictAge + 1 /\ heard[a].later \subseteq DOMAIN heard
       /\ heard[a].gap >= Cooldown \/ heard[a].since >= MaxEntries
       /\ a \notin DOMAIN fired =>
            heard[a].age >= Cooldown \/ Cardinality(heard[a].later) >= MaxEntries
  /\ \A a \in DOMAIN fired :
       /\ fired[a] = [age |-> fired[a].age, later |-> fired[a].later]
       /\ fired[a].age = heard[a].age /\ fired[a].later \subseteq heard[a].later

AlertInv == PollInv /\ CooldownInv

LEMMA AlertInit == Alerting!Init => AlertInv
<1> SUFFICES ASSUME Alerting!Init PROVE AlertInv
  OBVIOUS
<1>1. /\ monitor = [step |-> "off", ping |-> TRUE, seen |-> Alerting!NoHealth, left |-> {},
                    way |-> 0, tries |-> 0]
      /\ compared = Alerting!NoHealth /\ polled = <<Alerting!NoHealth, Alerting!NoHealth>>
      /\ accounted = {} /\ fired = <<>> /\ heard = <<>>
  BY Zenon DEF Alerting!Init, Alerting!Off, Alerting!Asleep
<1>2. PollInv
  <2> DEFINE none == Alerting!NoHealth
  <2>1. /\ monitor = [step |-> "off", ping |-> TRUE, seen |-> none, left |-> {},
                      way |-> 0, tries |-> 0]
        /\ compared = none /\ polled = <<none, none>> /\ accounted = {}
    BY <1>1
  <2> HIDE DEF none
  <2> QED
    BY <2>1 DEF PollInv
<1>3. CooldownInv
  <2>1. DOMAIN heard = {} /\ DOMAIN fired = {}
    BY <1>1
  <2> QED
    BY <2>1, FS_EmptySet DEF CooldownInv
<1> QED
  BY <1>2, <1>3 DEF AlertInv

LEMMA TimesKept ==
  ASSUME CooldownInv, UNCHANGED <<fired, heard>> PROVE CooldownInv'
  BY DEF CooldownInv

LEMMA PollKept ==
  ASSUME PollInv, UNCHANGED <<monitor, compared, polled, accounted>> PROVE PollInv'
<1> DEFINE reported(p) == Alerting!Transitions(p[1], p[2])
<1>1. reported(polled)' = reported(polled')
  BY DEF Alerting!Transitions, Alerting!OverallAlert, Alerting!AgentAlerts,
         Alerting!AgentAlert, Alerting!Alert
<1>2. reported(polled') = reported(polled)
  OBVIOUS
<1>3. /\ monitor' = monitor /\ compared' = compared /\ polled' = polled
      /\ accounted' = accounted
  OBVIOUS
<1>4. Alerting!Transitions(polled[1], polled[2])' = Alerting!Transitions(polled[1], polled[2])
  BY <1>1, <1>2
<1> QED
  BY <1>3, <1>4 DEF PollInv

LEMMA AgesPass ==
  ASSUME CooldownInv, Alerting!Tick PROVE CooldownInv'
<1> DEFINE Older(x) == IF x = EvictAge + 1 THEN x ELSE x + 1
<1>1. /\ DOMAIN fired' = DOMAIN fired /\ DOMAIN heard' = DOMAIN heard
      /\ \A a \in DOMAIN fired : fired'[a] = [fired[a] EXCEPT !.age = Older(fired[a].age)]
      /\ \A a \in DOMAIN heard : heard'[a] = [heard[a] EXCEPT !.age = Older(heard[a].age)]
  BY DEF Alerting!Tick, Alerting!Older, Alerting!Old
<1>2. ASSUME NEW x \in 0 .. EvictAge + 1
      PROVE  Older(x) \in 0 .. EvictAge + 1 /\ Older(x) >= x
  <2>1. EvictAge \in Nat /\ x \in Nat /\ x <= EvictAge + 1
    BY SiteAlerts
  <2>2. CASE x = EvictAge + 1
    BY <2>1, <2>2
  <2>3. CASE x # EvictAge + 1
    BY <2>1, <2>3
  <2> QED
    BY <2>2, <2>3
<1> HIDE DEF Older
<1>3. ASSUME NEW a \in DOMAIN heard
      PROVE  /\ heard'[a] = [age |-> heard'[a].age, later |-> heard'[a].later,
                             gap |-> heard'[a].gap, since |-> heard'[a].since]
             /\ heard'[a].age = Older(heard[a].age) /\ heard'[a].later = heard[a].later
             /\ heard'[a].gap = heard[a].gap /\ heard'[a].since = heard[a].since
  BY <1>1 DEF CooldownInv
<1>4. ASSUME NEW a \in DOMAIN fired
      PROVE  /\ fired'[a] = [age |-> fired'[a].age, later |-> fired'[a].later]
             /\ fired'[a].age = Older(fired[a].age) /\ fired'[a].later = fired[a].later
  BY <1>1 DEF CooldownInv
<1>5. ASSUME NEW a \in DOMAIN heard'
      PROVE  /\ heard'[a] = [age |-> heard'[a].age, later |-> heard'[a].later,
                             gap |-> heard'[a].gap, since |-> heard'[a].since]
             /\ heard'[a].age \in 0 .. EvictAge + 1 /\ heard'[a].later \subseteq DOMAIN heard'
             /\ heard'[a].gap >= Cooldown \/ heard'[a].since >= MaxEntries
             /\ a \notin DOMAIN fired' =>
                  heard'[a].age >= Cooldown \/ Cardinality(heard'[a].later) >= MaxEntries
  <2>1. a \in DOMAIN heard /\ heard[a].age \in 0 .. EvictAge + 1
    BY <1>1 DEF CooldownInv
  <2>2. Older(heard[a].age) \in 0 .. EvictAge + 1 /\ Older(heard[a].age) >= heard[a].age
    BY <2>1, <1>2
  <2>3. heard[a].age >= Cooldown => heard'[a].age >= Cooldown
    <3>1. heard'[a].age = Older(heard[a].age)
      BY <2>1, <1>3, Zenon
    <3>2. \A x, y \in Int : x >= Cooldown /\ y >= x => y >= Cooldown
      BY SiteAlerts
    <3>3. heard[a].age \in Int /\ Older(heard[a].age) \in Int
      BY <2>1, <2>2, SiteAlerts
    <3> QED
      BY <3>1, <3>2, <3>3, <2>2
  <2> QED
    BY <2>1, <2>2, <2>3, <1>1, <1>3 DEF CooldownInv
<1>6. ASSUME NEW a \in DOMAIN fired'
      PROVE  /\ fired'[a] = [age |-> fired'[a].age, later |-> fired'[a].later]
             /\ fired'[a].age = heard'[a].age /\ fired'[a].later \subseteq heard'[a].later
  <2>1. a \in DOMAIN fired /\ a \in DOMAIN heard
    BY <1>1 DEF CooldownInv
  <2>2. fired[a].age = heard[a].age /\ fired[a].later \subseteq heard[a].later
    BY <2>1 DEF CooldownInv
  <2> QED
    BY <2>1, <2>2, <1>3, <1>4, Zenon
<1>7. IsFiniteSet(DOMAIN heard') /\ DOMAIN fired' \subseteq DOMAIN heard'
  BY <1>1 DEF CooldownInv
<1> QED
  BY <1>5, <1>6, <1>7 DEF CooldownInv

\* A step that leaves what is told as it is: of a poll that goes on, or between polls.
LEMMA PollSteps ==
  ASSUME PollInv,
         \/ Alerting!Start \/ Alerting!Ping \/ Alerting!Answered \/ Alerting!Unanswered
         \/ Alerting!EndPoll \/ Alerting!Deliver \/ Alerting!DeliveryFails \/ Alerting!Publish
  PROVE  PollInv'
<1> SUFFICES PollInv'
  OBVIOUS
<1> DEFINE reported(p) == Alerting!Transitions(p[1], p[2])
<1>1. reported(polled)' = reported(polled')
  BY DEF Alerting!Transitions, Alerting!OverallAlert, Alerting!AgentAlerts,
         Alerting!AgentAlert, Alerting!Alert
<1>2. Alerting!Transitions(polled[1], polled[2])' = reported(polled')
  BY <1>1
<1>3. reported(polled) = Alerting!Transitions(polled[1], polled[2])
  OBVIOUS
<1> HIDE DEF reported
<1>4. /\ polled = <<polled[1], polled[2]>>
      /\ IF monitor.step \in {"fire", "deliver"}
         THEN compared = polled[1] /\ monitor.seen = polled[2] /\ reported(polled) \subseteq accounted \cup monitor.left
         ELSE compared = polled[2] /\ accounted = {}
  BY <1>3 DEF PollInv
<1>5. ASSUME NEW m,
             m = [step |-> m.step, ping |-> m.ping, seen |-> m.seen, left |-> m.left,
                  way |-> m.way, tries |-> m.tries],
             monitor' = m, m.step \in {"off", "sleep", "asked", "fire", "deliver"},
             polled' = <<polled'[1], polled'[2]>>,
             IF m.step \in {"fire", "deliver"}
             THEN /\ compared' = polled'[1] /\ m.seen = polled'[2]
                  /\ reported(polled') \subseteq accounted' \cup m.left
             ELSE compared' = polled'[2] /\ accounted' = {}
      PROVE  PollInv'
  BY <1>2, <1>5 DEF PollInv
<1>6. CASE Alerting!Start \/ Alerting!Ping \/ Alerting!Unanswered \/ Alerting!EndPoll
  <2>1. PICK step, ping :
          /\ step \in {"sleep", "asked"} /\ polled' = polled
          /\ monitor' = [step |-> step, ping |-> ping, seen |-> Alerting!NoHealth, left |-> {},
                         way |-> 0, tries |-> 0]
    <3>1. CASE Alerting!Start
      BY <3>1, Zenon DEF Alerting!Start, Alerting!Asleep
    <3>2. CASE Alerting!Ping
      BY <3>2, Zenon DEF Alerting!Ping, Alerting!Asleep
    <3>3. CASE Alerting!Unanswered
      BY <3>3, Zenon DEF Alerting!Unanswered, Alerting!Asleep
    <3>4. CASE Alerting!EndPoll
      BY <3>4, Zenon DEF Alerting!EndPoll, Alerting!Asleep
    <3> QED
      BY <1>6, <3>1, <3>2, <3>3, <3>4
  <2>2. compared' = polled[2] /\ accounted' = {}
    <3>1. CASE Alerting!Start
      BY <3>1, <1>4 DEF Alerting!Start, Alerting!manager
    <3>2. CASE Alerting!Ping
      BY <3>2, <1>4 DEF Alerting!Ping, Alerting!manager
    <3>3. CASE Alerting!Unanswered
      BY <3>3, <1>4 DEF Alerting!Unanswered, Alerting!manager
    <3>4. CASE Alerting!EndPoll
      BY <3>4, <1>4 DEF Alerting!EndPoll
    <3> QED
      BY <1>6, <3>1, <3>2, <3>3, <3>4
  <2>3. PICK m : /\ m = monitor' /\ m.step \in {"sleep", "asked"}
                 /\ m = [step |-> m.step, ping |-> m.ping, seen |-> m.seen, left |-> m.left,
                         way |-> m.way, tries |-> m.tries]
    BY <2>1
  <2> QED
    BY <2>1, <2>2, <2>3, <1>4, <1>5
<1>7. CASE Alerting!Answered
  <2>1. /\ monitor.step = "asked" /\ compared' = compared /\ accounted' = accounted
        /\ monitor' = [monitor EXCEPT !.step = "fire", !.seen = Alerting!Health,
                       !.left = Alerting!Transitions(compared, Alerting!Health)]
        /\ polled' = <<polled[2], Alerting!Health>>
    BY <1>7 DEF Alerting!Answered, Alerting!manager
  <2>2. PICK t : t = Alerting!Transitions(compared, Alerting!Health)
    OBVIOUS
  <2>3. PICK h : h = Alerting!Health
    OBVIOUS
  <2>8. PICK r : r = monitor /\ r = [step |-> r.step, ping |-> r.ping, seen |-> r.seen,
                                     left |-> r.left, way |-> r.way, tries |-> r.tries]
    BY DEF PollInv
  <2>9. monitor' = [r EXCEPT !.step = "fire", !.seen = h, !.left = t]
    BY <2>1, <2>2, <2>3, <2>8
  <2>10. PICK m : m = [r EXCEPT !.step = "fire", !.seen = h, !.left = t]
    OBVIOUS
  <2>4. /\ m = monitor' /\ m.step = "fire" /\ m.seen = h /\ m.left = t
        /\ m = [step |-> m.step, ping |-> m.ping, seen |-> m.seen, left |-> m.left,
                way |-> m.way, tries |-> m.tries]
    BY <2>8, <2>9, <2>10, Zenon
  <2>5. polled'[1] = polled[2] /\ polled'[2] = h /\ polled' = <<polled'[1], polled'[2]>>
    BY <2>1, <2>3
  <2>6. compared = polled[2]
    BY <2>1, <1>4
  <2>7. reported(polled') = t
    BY <2>2, <2>3, <2>5, <2>6 DEF reported
  <2> QED
    BY <2>1, <2>4, <2>5, <2>6, <2>7, <1>5
<1>8. CASE Alerting!Deliver \/ Alerting!DeliveryFails \/ Alerting!Publish
  <2> DEFINE same(m) == /\ m.step \in {"fire", "deliver"}
                        /\ m.seen = monitor.seen /\ m.left = monitor.left
                        /\ m = [step |-> m.step, ping |-> m.ping, seen |-> m.seen,
                               left |-> m.left, way |-> m.way, tries |-> m.tries]
  <2>1. /\ monitor.step = "deliver" /\ compared' = compared /\ accounted' = accounted
        /\ polled' = polled
        /\ \/ monitor' = [monitor EXCEPT !.step = "fire"]
           \/ monitor' = [monitor EXCEPT !.tries = @ + 1]
           \/ monitor' = [monitor EXCEPT !.way = @ + 1, !.tries = 0]
    <3>1. CASE Alerting!Deliver
      BY <3>1 DEF Alerting!Deliver, Alerting!NextWay, Alerting!manager
    <3>2. CASE Alerting!DeliveryFails
      BY <3>2 DEF Alerting!DeliveryFails, Alerting!NextWay, Alerting!manager
    <3>3. CASE Alerting!Publish
      BY <3>3 DEF Alerting!Publish, Alerting!manager
    <3> QED
      BY <1>8, <3>1, <3>2, <3>3
  <2>2. same(monitor')
    <3>1. CASE monitor' = [monitor EXCEPT !.step = "fire"]
      BY <3>1 DEF PollInv
    <3>2. CASE monitor' = [monitor EXCEPT !.tries = @ + 1]
      BY <2>1, <3>2 DEF PollInv
    <3>3. CASE monitor' = [monitor EXCEPT !.way = @ + 1, !.tries = 0]
      BY <2>1, <3>3, Zenon DEF PollInv
    <3> QED
      BY <2>1, <3>1, <3>2, <3>3
  <2>3. PICK m : m = monitor' /\ same(m)
    BY <2>2
  <2>4. reported(polled') = reported(polled)
    BY <2>1
  <2> QED
    BY <2>1, <2>3, <2>4, <1>4, <1>5
<1> QED
  BY <1>6, <1>7, <1>8

LEMMA AlertsStop ==
  ASSUME Alerting!Stop PROVE AlertInv'
<1> DEFINE none == Alerting!NoHealth
<1>1. /\ monitor' = [step |-> "off", ping |-> TRUE, seen |-> none, left |-> {},
                     way |-> 0, tries |-> 0]
      /\ compared' = none /\ polled' = <<none, none>>
      /\ accounted' = {} /\ fired' = <<>> /\ heard' = <<>>
  BY Zenon DEF Alerting!Stop, Alerting!Off, Alerting!Asleep
<1>2. PICK h : h = none
  OBVIOUS
<1>3. DOMAIN heard' = {} /\ DOMAIN fired' = {}
  BY <1>1
<1>4. CooldownInv'
  BY <1>3, FS_EmptySet DEF CooldownInv
<1>5. PICK m : m = monitor' /\ m.step = "off"
               /\ m = [step |-> m.step, ping |-> m.ping, seen |-> m.seen, left |-> m.left,
                       way |-> m.way, tries |-> m.tries]
  BY <1>1
<1>6. polled'[2] = h /\ polled' = <<polled'[1], polled'[2]>> /\ compared' = h
  BY <1>1, <1>2
<1>7. PollInv'
  BY <1>1, <1>5, <1>6 DEF PollInv
<1> QED
  BY <1>4, <1>7 DEF AlertInv

\* An alert that is accounted for need no longer be left.
LEMMA AlertOut ==
  ASSUME PollInv, NEW a, monitor.step = "fire", accounted \cup {a} \subseteq accounted',
         UNCHANGED <<compared, polled>>,
         \/ monitor' = [monitor EXCEPT !.left = @ \ {a}]
         \/ monitor' = [monitor EXCEPT !.step = "deliver", !.left = @ \ {a}, !.way = 1, !.tries = 0]
  PROVE  PollInv'
<1> DEFINE reported(p) == Alerting!Transitions(p[1], p[2])
<1>1. reported(polled)' = reported(polled')
  BY DEF Alerting!Transitions, Alerting!OverallAlert, Alerting!AgentAlerts,
         Alerting!AgentAlert, Alerting!Alert
<1>2. Alerting!Transitions(polled[1], polled[2])' = reported(polled')
  BY <1>1
<1>3. reported(polled) = Alerting!Transitions(polled[1], polled[2])
  OBVIOUS
<1> HIDE DEF reported
<1>4. /\ polled = <<polled[1], polled[2]>> /\ polled' = polled /\ compared' = compared
      /\ compared = polled[1] /\ monitor.seen = polled[2]
      /\ reported(polled) \subseteq accounted \cup monitor.left
  BY <1>3 DEF PollInv
<1>5. PICK r : r = monitor /\ r = [step |-> r.step, ping |-> r.ping, seen |-> r.seen,
                                   left |-> r.left, way |-> r.way, tries |-> r.tries]
  BY DEF PollInv
<1>6. PICK m : /\ m = monitor' /\ m.step \in {"fire", "deliver"}
               /\ m.seen = r.seen /\ m.left = r.left \ {a}
               /\ m = [step |-> m.step, ping |-> m.ping, seen |-> m.seen, left |-> m.left,
                       way |-> m.way, tries |-> m.tries]
  <2> DEFINE same(m) == /\ m.step \in {"fire", "deliver"}
                        /\ m.seen = r.seen /\ m.left = r.left \ {a}
                        /\ m = [step |-> m.step, ping |-> m.ping, seen |-> m.seen,
                                left |-> m.left, way |-> m.way, tries |-> m.tries]
  <2>1. CASE monitor' = [monitor EXCEPT !.left = @ \ {a}]
    <3>1. same(monitor')
      BY <1>5, <2>1
    <3> QED
      BY <3>1
  <2>2. CASE monitor' = [monitor EXCEPT !.step = "deliver", !.left = @ \ {a}, !.way = 1, !.tries = 0]
    <3>1. same(monitor')
      BY <1>5, <2>2, Zenon
    <3> QED
      BY <3>1
  <2> QED
    BY <2>1, <2>2
<1>7. reported(polled') \subseteq accounted' \cup m.left
  BY <1>4, <1>5, <1>6
<1> QED
  BY <1>2, <1>4, <1>5, <1>6, <1>7 DEF PollInv

\* What the cooldown holds back was begun within it.
LEMMA AlertSuppressed ==
  ASSUME AlertInv, NEW a, Alerting!Suppress(a) PROVE AlertInv'
<1>1. /\ monitor.step = "fire" /\ Alerting!AgeOf(a, fired) < Cooldown
      /\ monitor' = [monitor EXCEPT !.left = @ \ {a}]
      /\ accounted' = IF Alerting!AgeOf(a, heard) < Cooldown THEN accounted \cup {a}
                      ELSE accounted
      /\ UNCHANGED <<compared, fired, heard, polled>>
  BY DEF Alerting!Suppress, Alerting!IsNext
<1>2. a \in DOMAIN fired /\ fired[a].age < Cooldown
  <2>1. ~(EvictAge + 1 < Cooldown)
    BY SiteAlerts
  <2> QED
    BY <1>1, <2>1 DEF Alerting!AgeOf, Alerting!Old
<1>3. Alerting!AgeOf(a, heard) < Cooldown
  BY <1>2 DEF Alerting!AgeOf, AlertInv, CooldownInv
<1>4. accounted \cup {a} \subseteq accounted'
  BY <1>1, <1>3
<1>5. PollInv'
  BY <1>1, <1>4, AlertOut, Zenon DEF AlertInv
<1>6. CooldownInv'
  BY <1>1, TimesKept DEF AlertInv
<1> QED
  BY <1>5, <1>6 DEF AlertInv

\* Eviction drops what is old and what too many others are later than, and no other's time
\* changes.
LEMMA EvictedIs ==
  ASSUME NEW s, \A b \in DOMAIN s : s[b] = [age |-> s[b].age, later |-> s[b].later],
         NEW t, t = Alerting!Evicted(s)
  PROVE  /\ DOMAIN t \subseteq DOMAIN s
         /\ \A b \in DOMAIN t : /\ t[b] = [age |-> t[b].age, later |-> t[b].later]
                                /\ t[b].age = s[b].age /\ t[b].later \subseteq s[b].later
         /\ \A b \in DOMAIN s : b \notin DOMAIN t =>
              \/ ~(s[b].age <= EvictAge)
              \/ \E later \in SUBSET s[b].later : ~(Cardinality(later) < MaxEntries)
<1>1. ASSUME NEW u, NEW keys, keys \subseteq DOMAIN u,
             \A b \in DOMAIN u : u[b] = [age |-> u[b].age, later |-> u[b].later],
             NEW v, v = Alerting!Only(u, keys)
      PROVE  /\ DOMAIN v = keys
             /\ \A b \in DOMAIN v : /\ v[b] = [age |-> v[b].age, later |-> v[b].later]
                                    /\ v[b].age = u[b].age /\ v[b].later \subseteq u[b].later
  <2>1. DOMAIN v = keys /\ \A b \in keys : v[b] = [u[b] EXCEPT !.later = @ \cap keys]
    BY <1>1 DEF Alerting!Only
  <2>2. ASSUME NEW b \in keys
        PROVE  /\ v[b] = [age |-> v[b].age, later |-> v[b].later]
               /\ v[b].age = u[b].age /\ v[b].later \subseteq u[b].later
    <3>1. PICK x, y : u[b] = [age |-> x, later |-> y]
      BY <1>1, Zenon
    <3>2. v[b] = [age |-> x, later |-> y \cap keys]
      BY <2>1, <3>1
    <3> QED
      BY <3>1, <3>2
  <2> QED
    BY <2>1, <2>2
<1>2. CASE t = s
  BY <1>2
<1>3. CASE t # s
  <2>1. PICK u : u = Alerting!EvictStale(s)
    OBVIOUS
  <2>2. t = Alerting!Capped(u)
    BY <1>3, <2>1 DEF Alerting!Evicted
  <2>3. PICK young : young = {b \in DOMAIN s : s[b].age <= EvictAge}
    BY Zenon
  <2>4. u = Alerting!Only(s, young) /\ young \subseteq DOMAIN s
    BY <2>1, <2>3 DEF Alerting!EvictStale
  <2>5. /\ DOMAIN u = young
        /\ \A b \in DOMAIN u : /\ u[b] = [age |-> u[b].age, later |-> u[b].later]
                               /\ u[b].age = s[b].age /\ u[b].later \subseteq s[b].later
    BY <1>1, <2>4
  <2>6. PICK few : few = {b \in DOMAIN u : Cardinality(u[b].later) < MaxEntries}
    BY Zenon
  <2>7. t = Alerting!Only(u, few) /\ few \subseteq DOMAIN u
    BY <2>2, <2>6 DEF Alerting!Capped, Alerting!Cardinality, Cardinality
  <2>8. /\ DOMAIN t = few
        /\ \A b \in DOMAIN t : /\ t[b] = [age |-> t[b].age, later |-> t[b].later]
                               /\ t[b].age = u[b].age /\ t[b].later \subseteq u[b].later
    BY <1>1, <2>5, <2>7
  <2>9. ASSUME NEW b \in DOMAIN s, b \notin DOMAIN t, s[b].age <= EvictAge
        PROVE  \E later \in SUBSET s[b].later : ~(Cardinality(later) < MaxEntries)
    <3>1. b \in DOMAIN u
      BY <2>3, <2>5, <2>9
    <3>2. ~(Cardinality(u[b].later) < MaxEntries) /\ u[b].later \in SUBSET s[b].later
      BY <2>5, <2>6, <2>8, <2>9, <3>1
    <3> QED
      BY <3>2
  <2> QED
    BY <2>3, <2>5, <2>7, <2>8, <2>9, Zenon
<1> QED
  BY <1>2, <1>3

\* The alert that begins is the last one, so that no more come after another than before
\* with it, and it goes out only where its key is old enough or was evicted.
LEMMA AlertFired ==
  ASSUME AlertInv, NEW a, Alerting!Fire(a) PROVE AlertInv'
<1> DEFINE s == Alerting!With(a, fired, [age |-> 0, later |-> {}])
<1>1. /\ monitor.step = "fire" /\ Alerting!AgeOf(a, fired) >= Cooldown
      /\ fired' = Alerting!Evicted(s)
      /\ heard' = Alerting!With(a, heard, [age |-> 0, later |-> {},
                                           gap |-> Alerting!AgeOf(a, heard),
                                           since |-> Alerting!Since(a, heard)])
      /\ accounted' = accounted \cup {a} /\ UNCHANGED <<compared, polled>>
      /\ monitor' = [monitor EXCEPT !.step = "deliver", !.left = @ \ {a}, !.way = 1, !.tries = 0]
  BY DEF Alerting!Fire, Alerting!IsNext
<1>2. PollInv'
  BY <1>1, AlertOut, Zenon DEF AlertInv
<1>3. /\ IsFiniteSet(DOMAIN heard) /\ DOMAIN fired \subseteq DOMAIN heard
      /\ \A b \in DOMAIN heard :
           /\ heard[b] = [age |-> heard[b].age, later |-> heard[b].later,
                          gap |-> heard[b].gap, since |-> heard[b].since]
           /\ heard[b].age \in 0 .. EvictAge + 1 /\ heard[b].later \subseteq DOMAIN heard
           /\ heard[b].gap >= Cooldown \/ heard[b].since >= MaxEntries
           /\ b \notin DOMAIN fired =>
                heard[b].age >= Cooldown \/ Cardinality(heard[b].later) >= MaxEntries
      /\ \A b \in DOMAIN fired :
           /\ fired[b] = [age |-> fired[b].age, later |-> fired[b].later]
           /\ fired[b].age = heard[b].age /\ fired[b].later \subseteq heard[b].later
  BY DEF AlertInv, CooldownInv
<1>4. /\ DOMAIN s = DOMAIN fired \cup {a} /\ s[a] = [age |-> 0, later |-> {}]
      /\ \A b \in DOMAIN fired \ {a} :
           s[b] = [age |-> fired[b].age, later |-> fired[b].later \cup {a}]
  <2>1. /\ DOMAIN s = DOMAIN fired \cup {a} /\ s[a] = [age |-> 0, later |-> {}]
        /\ \A b \in DOMAIN fired \ {a} : s[b] = [fired[b] EXCEPT !.later = @ \cup {a}]
    BY DEF Alerting!With
  <2>2. ASSUME NEW b \in DOMAIN fired \ {a}
        PROVE  s[b] = [age |-> fired[b].age, later |-> fired[b].later \cup {a}]
    <3>1. PICK x, y : fired[b] = [age |-> x, later |-> y]
      BY <1>3
    <3>2. s[b] = [age |-> x, later |-> y \cup {a}]
      BY <2>1, <3>1
    <3> QED
      BY <3>1, <3>2
  <2> QED
    BY <2>1, <2>2
<1>5. /\ DOMAIN heard' = DOMAIN heard \cup {a}
      /\ heard'[a] = [age |-> 0, later |-> {}, gap |-> Alerting!AgeOf(a, heard),
                      since |-> Alerting!Since(a, heard)]
      /\ \A b \in DOMAIN heard \ {a} :
           heard'[b] = [age |-> heard[b].age, later |-> heard[b].later \cup {a},
                        gap |-> heard[b].gap, since |-> heard[b].since]
  <2>1. /\ DOMAIN heard' = DOMAIN heard \cup {a}
        /\ heard'[a] = [age |-> 0, later |-> {}, gap |-> Alerting!AgeOf(a, heard),
                        since |-> Alerting!Since(a, heard)]
        /\ \A b \in DOMAIN heard \ {a} : heard'[b] = [heard[b] EXCEPT !.later = @ \cup {a}]
    BY <1>1 DEF Alerting!With
  <2>2. ASSUME NEW b \in DOMAIN heard \ {a}
        PROVE  heard'[b] = [age |-> heard[b].age, later |-> heard[b].later \cup {a},
                            gap |-> heard[b].gap, since |-> heard[b].since]
    <3>1. PICK x, y, z, w : heard[b] = [age |-> x, later |-> y, gap |-> z, since |-> w]
      BY <1>3
    <3>2. heard'[b] = [age |-> x, later |-> y \cup {a}, gap |-> z, since |-> w]
      BY <2>1, <3>1
    <3> QED
      BY <3>1, <3>2
  <2> QED
    BY <2>1, <2>2
<1> HIDE DEF s
<1>6. \A b \in DOMAIN s : s[b] = [age |-> s[b].age, later |-> s[b].later]
  <2>1. s[a] = [age |-> s[a].age, later |-> s[a].later]
    BY <1>4
  <2>2. ASSUME NEW b \in DOMAIN fired \ {a}
        PROVE  s[b] = [age |-> s[b].age, later |-> s[b].later]
    BY <1>4
  <2> QED
    BY <1>4, <2>1, <2>2
<1>7. /\ DOMAIN fired' \subseteq DOMAIN s
      /\ \A b \in DOMAIN fired' :
           /\ fired'[b] = [age |-> fired'[b].age, later |-> fired'[b].later]
           /\ fired'[b].age = s[b].age /\ fired'[b].later \subseteq s[b].later
      /\ \A b \in DOMAIN s : b \notin DOMAIN fired' =>
           \/ ~(s[b].age <= EvictAge)
           \/ \E later \in SUBSET s[b].later : ~(Cardinality(later) < MaxEntries)
  <2>1. PICK t : t = fired'
    OBVIOUS
  <2>2. PICK u : u = s
    OBVIOUS
  <2>3. t = Alerting!Evicted(u) /\ \A b \in DOMAIN u : u[b] = [age |-> u[b].age, later |-> u[b].later]
    BY <1>1, <1>6, <2>1, <2>2
  <2>4. /\ DOMAIN t \subseteq DOMAIN u
        /\ \A b \in DOMAIN t : /\ t[b] = [age |-> t[b].age, later |-> t[b].later]
                               /\ t[b].age = u[b].age /\ t[b].later \subseteq u[b].later
        /\ \A b \in DOMAIN u : b \notin DOMAIN t =>
             \/ ~(u[b].age <= EvictAge)
             \/ \E later \in SUBSET u[b].later : ~(Cardinality(later) < MaxEntries)
    BY <2>3, EvictedIs
  <2> QED
    BY <2>1, <2>2, <2>4
<1>8. IsFiniteSet(DOMAIN heard') /\ DOMAIN fired' \subseteq DOMAIN heard'
  BY <1>3, <1>4, <1>5, <1>7, FS_AddElement
\* What more than so many came after is behind them all the longer.
<1>9. ASSUME NEW later, NEW more, IsFiniteSet(more), later \subseteq more,
             ~(Cardinality(later) < MaxEntries)
      PROVE  Cardinality(more) >= MaxEntries
  <2>1. IsFiniteSet(later) /\ Cardinality(later) <= Cardinality(more)
    BY <1>9, FS_Subset
  <2>2. Cardinality(later) \in Nat /\ Cardinality(more) \in Nat
    BY <2>1, <1>9, FS_CardinalityType
  <2> QED
    BY <1>9, <2>1, <2>2, SiteAlerts
<1>10. ASSUME NEW b \in DOMAIN heard \ {a}
       PROVE  /\ heard'[b].age = heard[b].age /\ heard'[b].later = heard[b].later \cup {a}
              /\ heard'[b].gap = heard[b].gap /\ heard'[b].since = heard[b].since
              /\ heard'[b] = [age |-> heard'[b].age, later |-> heard'[b].later,
                              gap |-> heard'[b].gap, since |-> heard'[b].since]
              /\ heard'[b].later \subseteq DOMAIN heard' /\ IsFiniteSet(heard'[b].later)
  <2>1. /\ heard'[b].age = heard[b].age /\ heard'[b].later = heard[b].later \cup {a}
        /\ heard'[b].gap = heard[b].gap /\ heard'[b].since = heard[b].since
        /\ heard'[b] = [age |-> heard'[b].age, later |-> heard'[b].later,
                        gap |-> heard'[b].gap, since |-> heard'[b].since]
    BY <1>5
  <2>2. heard'[b].later \subseteq DOMAIN heard'
    BY <1>3, <1>5, <2>1
  <2> QED
    BY <1>8, <2>1, <2>2, FS_Subset
<1>11. ASSUME NEW b \in DOMAIN heard \ {a}, b \notin DOMAIN fired'
       PROVE  heard'[b].age >= Cooldown \/ Cardinality(heard'[b].later) >= MaxEntries
  <2>1. CASE b \in DOMAIN fired
    <3>1. b \in DOMAIN s /\ s[b].age = heard'[b].age /\ s[b].later \subseteq heard'[b].later
      <4>1. s[b].age = fired[b].age /\ s[b].later = fired[b].later \cup {a}
        BY <1>4, <2>1
      <4>2. fired[b].age = heard[b].age /\ fired[b].later \subseteq heard[b].later
        BY <1>3, <2>1
      <4>3. heard'[b].age = heard[b].age /\ heard'[b].later = heard[b].later \cup {a}
        BY <1>10, Zenon
      <4> QED
        BY <1>4, <2>1, <4>1, <4>2, <4>3
    <3>2. CASE ~(s[b].age <= EvictAge)
      <4>1. heard'[b].age \in 0 .. EvictAge + 1
        BY <1>3, <1>10, Zenon
      <4> QED
        BY <3>1, <3>2, <4>1, SiteAlerts
    <3>3. CASE \E later \in SUBSET s[b].later : ~(Cardinality(later) < MaxEntries)
      <4>1. PICK later \in SUBSET s[b].later : ~(Cardinality(later) < MaxEntries)
        BY <3>3
      <4>2. later \subseteq heard'[b].later /\ IsFiniteSet(heard'[b].later)
        BY <1>10, <3>1, Zenon
      <4>3. Cardinality(heard'[b].later) >= MaxEntries
        BY <1>9, <4>1, <4>2
      <4> QED
        BY <4>3
    <3> QED
      BY <1>7, <1>11, <3>1, <3>2, <3>3
  <2>2. CASE b \notin DOMAIN fired
    <3>1. CASE heard[b].age >= Cooldown
      BY <1>10, <3>1, Zenon
    <3>2. CASE Cardinality(heard[b].later) >= MaxEntries
      <4>1. IsFiniteSet(heard[b].later)
        BY <1>3, FS_Subset
      <4>2. ~(Cardinality(heard[b].later) < MaxEntries)
        BY <3>2, <4>1, FS_CardinalityType, SiteAlerts
      <4> QED
        BY <1>9, <1>10, <4>2, Zenon
    <3> QED
      BY <1>3, <2>2, <3>1, <3>2
  <2> QED
    BY <2>1, <2>2
\* The alert's own entry: what is not kept of it is from before the cooldown.
<1>12. /\ heard'[a].age = 0 /\ heard'[a].later = {}
       /\ heard'[a].gap = Alerting!AgeOf(a, heard) /\ heard'[a].since = Alerting!Since(a, heard)
       /\ heard'[a] = [age |-> heard'[a].age, later |-> heard'[a].later,
                       gap |-> heard'[a].gap, since |-> heard'[a].since]
  BY <1>5
<1>13. heard'[a].gap >= Cooldown \/ heard'[a].since >= MaxEntries
  <2>1. CASE a \in DOMAIN fired
    BY <1>1, <1>3, <1>12, <2>1 DEF Alerting!AgeOf
  <2>2. CASE a \in DOMAIN heard /\ a \notin DOMAIN fired
    BY <1>3, <1>12, <2>2, Zenon DEF Alerting!AgeOf, Alerting!Since, Alerting!Cardinality, Cardinality
  <2>3. CASE a \notin DOMAIN heard
    BY <1>12, <2>3, SiteAlerts DEF Alerting!AgeOf, Alerting!Old
  <2> QED
    BY <2>1, <2>2, <2>3
<1>14. a \notin DOMAIN fired' => heard'[a].age >= Cooldown \/ Cardinality(heard'[a].later) >= MaxEntries
  <2> SUFFICES ASSUME a \notin DOMAIN fired'
               PROVE  Cardinality({}) >= MaxEntries
    BY <1>12
  <2>1. a \in DOMAIN s /\ s[a].age = 0 /\ s[a].later = {}
    BY <1>4
  <2>2. ~(Cardinality({}) < MaxEntries)
    BY <1>7, <2>1, SiteAlerts
  <2> QED
    BY <1>9, <2>2, FS_EmptySet
<1>15. ASSUME NEW b \in DOMAIN heard'
       PROVE  /\ heard'[b] = [age |-> heard'[b].age, later |-> heard'[b].later,
                              gap |-> heard'[b].gap, since |-> heard'[b].since]
              /\ heard'[b].age \in 0 .. EvictAge + 1 /\ heard'[b].later \subseteq DOMAIN heard'
              /\ heard'[b].gap >= Cooldown \/ heard'[b].since >= MaxEntries
              /\ b \notin DOMAIN fired' =>
                   heard'[b].age >= Cooldown \/ Cardinality(heard'[b].later) >= MaxEntries
  <2>1. CASE b = a
    <3>1. heard'[a].age \in 0 .. EvictAge + 1
      BY <1>12, SiteAlerts
    <3> QED
      BY <2>1, <3>1, <1>12, <1>13, <1>14
  <2>2. CASE b # a
    BY <2>2, <1>3, <1>5, <1>10, <1>11
  <2> QED
    BY <2>1, <2>2
<1>16. ASSUME NEW b \in DOMAIN fired'
       PROVE  /\ fired'[b] = [age |-> fired'[b].age, later |-> fired'[b].later]
              /\ fired'[b].age = heard'[b].age /\ fired'[b].later \subseteq heard'[b].later
  <2>1. CASE b = a
    BY <2>1, <1>4, <1>7, <1>12
  <2>2. CASE b # a
    <3>1. b \in DOMAIN fired /\ b \in DOMAIN heard
      BY <2>2, <1>3, <1>4, <1>7
    <3>2. s[b].age = fired[b].age /\ s[b].later = fired[b].later \cup {a}
      BY <2>2, <3>1, <1>4
    <3> QED
      BY <2>2, <3>1, <3>2, <1>3, <1>7, <1>10, Zenon
  <2> QED
    BY <2>1, <2>2
<1>17. CooldownInv'
  BY <1>8, <1>15, <1>16 DEF CooldownInv
<1> QED
  BY <1>2, <1>17 DEF AlertInv

LEMMA AlertStep == AlertInv /\ [Alerting!Next]_alertsVars => AlertInv'
<1> SUFFICES ASSUME AlertInv, Alerting!Next \/ UNCHANGED alertsVars
             PROVE  AlertInv'
  OBVIOUS
<1>1. CASE UNCHANGED alertsVars
  BY <1>1, PollKept, TimesKept DEF AlertInv, alertsVars
<1>2. CASE Alerting!ChangeService \/ Alerting!ChangeAgent
  <2>1. UNCHANGED <<monitor, compared, polled, fired, heard, accounted>>
    BY <1>2 DEF Alerting!ChangeService, Alerting!ChangeAgent, Alerting!Change, Alerting!manager
  <2> QED
    BY <2>1, PollKept, TimesKept DEF AlertInv
<1>3. CASE Alerting!Tick
  <2>1. UNCHANGED <<monitor, compared, polled, accounted>>
    BY <1>3 DEF Alerting!Tick
  <2> QED
    BY <1>3, <2>1, PollKept, AgesPass DEF AlertInv
<1>4. CASE Alerting!Stop
  BY <1>4, AlertsStop
<1>5. CASE \/ Alerting!Start \/ Alerting!Ping \/ Alerting!Answered \/ Alerting!Unanswered
           \/ Alerting!EndPoll \/ Alerting!Deliver \/ Alerting!DeliveryFails \/ Alerting!Publish
  <2>1. UNCHANGED <<fired, heard>>
    BY <1>5 DEF Alerting!Start, Alerting!Ping, Alerting!Answered, Alerting!Unanswered,
                Alerting!EndPoll, Alerting!Deliver, Alerting!DeliveryFails, Alerting!Publish,
                Alerting!manager
  <2> QED
    BY <1>5, <2>1, PollSteps, TimesKept DEF AlertInv
<1>6. CASE \E a \in monitor.left : Alerting!Suppress(a) \/ Alerting!Fire(a)
  BY <1>6, AlertSuppressed, AlertFired
<1> QED
  BY <1>1, <1>2, <1>3, <1>4, <1>5, <1>6 DEF Alerting!Next

LEMMA AlertsHave == AlertInv => Alerting!ChangesTold /\ Alerting!CooldownKept
  BY DEF AlertInv, PollInv, CooldownInv, Alerting!ChangesTold, Alerting!CooldownKept

----------------------------------------------------------------------------
(* The reports                                                              *)

\* R is a strict order of P, and rank says how many are before each.
Ranked(P, R, rank) ==
  /\ \A p \in P : <<p, p>> \notin R
  /\ \A p, q \in P : p # q => <<p, q>> \in R \/ <<q, p>> \in R
  /\ \A p, q, r \in P : <<p, q>> \in R /\ <<q, r>> \in R => <<p, r>> \in R
  /\ rank = [p \in P |-> Cardinality({o \in P : <<o, p>> \in R})]

\* In a strict order of a finite set, each has a place of its own, as many before it as
\* its place is, and no place is empty.
LEMMA Places ==
  ASSUME NEW P, IsFiniteSet(P), NEW R, NEW rank, Ranked(P, R, rank)
  PROVE  /\ \A p \in P : rank[p] \in 0 .. Cardinality(P) - 1
         /\ \A p, q \in P : <<p, q>> \in R => rank[p] < rank[q]
         /\ \A p, q \in P : rank[p] = rank[q] => p = q
         /\ \A n \in 0 .. Cardinality(P) - 1 : \E p \in P : rank[p] = n
<1> USE DEF Ranked
<1> DEFINE below(p) == {o \in P : <<o, p>> \in R}
<1>1. Cardinality(P) \in Nat
  BY FS_CardinalityType
<1>2. ASSUME NEW p \in P
      PROVE  /\ rank[p] = Cardinality(below(p)) /\ below(p) \subseteq P /\ p \notin below(p)
             /\ IsFiniteSet(below(p)) /\ Cardinality(below(p)) \in Nat
  <2>1. rank[p] = Cardinality(below(p)) /\ below(p) \subseteq P /\ p \notin below(p)
    OBVIOUS
  <2>2. IsFiniteSet(below(p))
    BY <2>1, FS_Subset, Zenon
  <2> QED
    BY <2>1, <2>2, FS_CardinalityType
<1>3. \A p, q, r \in P : q \in below(p) /\ r \in below(q) => r \in below(p)
  OBVIOUS
<1>4. \A p, q \in P : <<p, q>> \in R <=> p \in below(q)
  BY Zenon
<1> HIDE DEF below
<1>5. ASSUME NEW S, NEW T, IsFiniteSet(T), S \subseteq T, NEW x \in T, x \notin S
      PROVE  Cardinality(S) < Cardinality(T)
  <2>1. IsFiniteSet(S) /\ Cardinality(S) <= Cardinality(T) /\ (Cardinality(T) = Cardinality(S) => T = S)
    BY <1>5, FS_Subset
  <2>2. Cardinality(S) \in Nat /\ Cardinality(T) \in Nat
    BY <1>5, <2>1, FS_CardinalityType
  <2> QED
    BY <1>5, <2>1, <2>2
<1>6. ASSUME NEW p \in P PROVE rank[p] \in 0 .. Cardinality(P) - 1
  <2>1. Cardinality(below(p)) < Cardinality(P)
    BY <1>2, <1>5, Zenon
  <2> QED
    BY <1>1, <1>2, <2>1
<1>7. ASSUME NEW p \in P, NEW q \in P, <<p, q>> \in R PROVE rank[p] < rank[q]
  <2>1. p \in below(q) /\ p \notin below(p) /\ below(p) \subseteq below(q)
    BY <1>2, <1>3, <1>4, <1>7, Zenon
  <2>2. Cardinality(below(p)) < Cardinality(below(q))
    BY <1>2, <1>5, <2>1, Zenon
  <2> QED
    BY <1>2, <2>2
<1>8. ASSUME NEW p \in P, NEW q \in P, rank[p] = rank[q] PROVE p = q
  <2> SUFFICES ASSUME p # q PROVE FALSE
    OBVIOUS
  <2>1. rank[p] < rank[q] \/ rank[q] < rank[p]
    BY <1>7, Zenon
  <2>2. rank[p] \in Int /\ rank[q] \in Int
    BY <1>1, <1>6
  <2> QED
    BY <1>8, <2>1, <2>2
<1>9. ASSUME NEW n \in 0 .. Cardinality(P) - 1 PROVE \E p \in P : rank[p] = n
  <2> SUFFICES ASSUME \A p \in P : rank[p] # n PROVE FALSE
    OBVIOUS
  <2> DEFINE T == (0 .. Cardinality(P) - 1) \ {n}
  <2>1. IsFiniteSet(0 .. Cardinality(P) - 1) /\ Cardinality(0 .. Cardinality(P) - 1) = Cardinality(P)
    BY <1>1, FS_Interval
  <2>2. IsFiniteSet(T) /\ Cardinality(T) = Cardinality(P) - 1
    BY <2>1, FS_RemoveElement, Zenon
  <2>3. rank \in [P -> T]
    BY <1>6
  <2> HIDE DEF T
  <2>4. PICK x, y \in P : x # y /\ rank[x] = rank[y]
    BY <1>1, <2>2, <2>3, FS_PigeonHole
  <2> QED
    BY <2>4, <1>8
<1> QED
  BY <1>6, <1>7, <1>8, <1>9, Zenon

\* As many finite sets as a finite set has members make a finite one.
LEMMA FiniteUnion ==
  ASSUME NEW N, IsFiniteSet(N), NEW f, \A n \in N : IsFiniteSet(f[n])
  PROVE  IsFiniteSet(UNION {f[n] : n \in N})
<1> DEFINE g == [n \in N |-> f[n]]  T == {f[n] : n \in N}
<1>1. g \in Surjection(N, T)
  BY DEF Surjection
<1>2. IsFiniteSet(T)
  BY <1>1, FS_Surjection
<1> QED
  BY <1>2, FS_UNION

ChannelSet == {Channels[j] : j \in DOMAIN Channels}

\* The channels are told one after the other: those before the one at hand are, the posts
\* that failed on it are the attempts so far, and none failed on those after it.
DeliveryInv ==
  /\ tries \in Nat /\ jobAt \in ChannelSet \cup {"idle"}
  /\ taken \in [ChannelSet -> Nat] /\ refused \in [ChannelSet -> Nat]
  /\ jobAt = "idle" /\ jobRuns > 0 => DOMAIN deliveries = ChannelSet
  /\ \A k \in DOMAIN Channels : jobAt = Channels[k] =>
       /\ DOMAIN deliveries = {Channels[j] : j \in 1 .. k - 1}
       /\ refused[jobAt] = tries /\ tries < MaxRetries
       /\ \A j \in k + 1 .. Len(Channels) : refused[Channels[j]] = 0
  /\ \A c \in DOMAIN deliveries :
       IF deliveries[c] = "delivered" THEN taken[c] > 0 /\ refused[c] < MaxRetries
       ELSE refused[c] = MaxRetries

Bad == {"critical", "high"}
HasBad(list) == Reports!Range(list) \cap Bad # {}

\* What a file says of a session is what the severe results were while it was read.
Tells(f) ==
  LET asked == "address issues" \in f.content.recommendations IN
  IF f.content.failed THEN f.content.findings = {} /\ f.content.recommendations = {}
  ELSE (f.severe # {} => asked) /\ (asked => f.ever # {})

\* What has been read of a session that holds d: a key that is severe all along was read as
\* such at its places, and what was read as severe was so at some time.
Gathered(g, d) ==
  /\ g.at \in 0 .. 13 /\ DOMAIN g.got \subseteq 1 .. g.at
  /\ \A n \in DOMAIN g.got : g.got[n] \in Seq(STRING)
  /\ g.severe \subseteq Reports!SevereKeys(d) /\ Reports!SevereKeys(d) \subseteq g.ever
  /\ \A n \in 1 .. g.at : Reports!Order[n] \in g.severe => n \in DOMAIN g.got /\ HasBad(g.got[n])
  /\ \A n \in DOMAIN g.got : HasBad(g.got[n]) => Reports!Order[n] \in g.ever

Record(g) == g = [session |-> g.session, at |-> g.at, got |-> g.got, whole |-> g.whole,
                  severe |-> g.severe, ever |-> g.ever]

KeptInv ==
  /\ kept = [s \in ReportSessions |-> kept[s]]
  /\ \A s \in ReportSessions : \A k \in DOMAIN kept[s] : kept[s][k] \in Seq(STRING)
GatherInv ==
  /\ Record(gathering) /\ gathering.whole \in BOOLEAN
  /\ gathering.session # "" => gathering.session \in ReportSessions
                               /\ Gathered(gathering, kept[gathering.session])
FilesInv == \A n \in DOMAIN files : n.type = "executive_summary" => Tells(files[n])

ReportInv == DeliveryInv /\ KeptInv /\ GatherInv /\ FilesInv

LEMMA ReportInit == Reports!Init => ReportInv
<1> SUFFICES ASSUME Reports!Init PROVE ReportInv
  OBVIOUS
<1>1. DeliveryInv
  <2>1. /\ jobAt = "idle" /\ tries = 0 /\ deliveries = <<>> /\ jobRuns = 0
        /\ taken = [c \in ChannelSet |-> 0] /\ refused = [c \in ChannelSet |-> 0]
    BY Zenon DEF Reports!Init, Reports!Range, ChannelSet
  <2>2. \A k \in DOMAIN Channels : jobAt # Channels[k]
    BY <2>1, SiteReports
  <2>3. DOMAIN deliveries = {}
    BY <2>1
  <2> QED
    BY <2>1, <2>2, <2>3 DEF DeliveryInv
<1>2. KeptInv
  <2>1. kept = [s \in ReportSessions |-> <<>>]
    BY DEF Reports!Init
  <2>2. \A s \in ReportSessions : kept[s] = <<>> /\ DOMAIN kept[s] = {}
    BY <2>1
  <2> QED
    BY <2>1, <2>2 DEF KeptInv
<1>3. GatherInv
  BY DEF Reports!Init, Reports!Idle, Reports!NoSession, GatherInv, Record
<1>4. FilesInv
  <2>1. files = <<>>
    BY DEF Reports!Init
  <2>2. DOMAIN files = {}
    BY <2>1
  <2> QED
    BY <2>2, Zenon DEF FilesInv
<1> QED
  BY <1>1, <1>2, <1>3, <1>4 DEF ReportInv

LEMMA JobBegins ==
  ASSUME DeliveryInv, NEW type, Reports!RunJob(type) PROVE DeliveryInv'
<1>1. /\ jobAt' = (IF Channels = <<>> THEN "idle" ELSE Channels[1])
      /\ tries' = 0 /\ deliveries' = <<>> /\ taken' = [c \in DOMAIN taken |-> 0]
      /\ refused' = [c \in DOMAIN taken |-> 0]
  BY DEF Reports!RunJob
<1>2. taken' = [c \in ChannelSet |-> 0] /\ refused' = [c \in ChannelSet |-> 0]
  BY <1>1 DEF DeliveryInv
<1>3. DOMAIN deliveries' = {}
  BY <1>1
<1>4. CASE Channels = <<>>
  <2>1. ChannelSet = {}
    BY <1>4 DEF ChannelSet
  <2>2. \A k \in DOMAIN Channels : FALSE
    BY <1>4
  <2> QED
    BY <1>1, <1>2, <1>3, <1>4, <2>1, <2>2 DEF DeliveryInv
<1>5. CASE Channels # <<>>
  <2>1. Len(Channels) \in Nat \ {0} /\ DOMAIN Channels = 1 .. Len(Channels)
    BY <1>5, SiteReports, LenProperties, EmptySeq
  <2>2. 1 \in DOMAIN Channels /\ Channels[1] \in ChannelSet /\ Channels[1] # "idle"
    BY <2>1, SiteReports DEF ChannelSet
  <2>3. ASSUME NEW k \in DOMAIN Channels, jobAt' = Channels[k]
        PROVE  /\ DOMAIN deliveries' = {Channels[j] : j \in 1 .. k - 1}
               /\ refused'[jobAt'] = tries' /\ tries' < MaxRetries
               /\ \A j \in k + 1 .. Len(Channels) : refused'[Channels[j]] = 0
    <3>1. k = 1
      BY <1>1, <1>5, <2>2, <2>3, SiteReports
    <3>2. {Channels[j] : j \in 1 .. k - 1} = {}
      BY <3>1
    <3>3. \A j \in k + 1 .. Len(Channels) : Channels[j] \in ChannelSet
      BY <2>1, <3>1 DEF ChannelSet
    <3>4. jobAt' \in ChannelSet
      BY <2>3 DEF ChannelSet
    <3>5. refused'[jobAt'] = 0 /\ \A j \in k + 1 .. Len(Channels) : refused'[Channels[j]] = 0
      BY <1>2, <3>3, <3>4
    <3>6. tries' = 0 /\ tries' < MaxRetries
      BY <1>1, SiteReports
    <3> QED
      BY <1>3, <3>2, <3>5, <3>6
  <2>4. jobAt' \in ChannelSet /\ jobAt' # "idle"
    BY <1>1, <1>5, <2>2
  <2>5. taken' \in [ChannelSet -> Nat] /\ refused' \in [ChannelSet -> Nat] /\ tries' \in Nat
    BY <1>1, <1>2
  <2> QED
    BY <1>3, <2>3, <2>4, <2>5, Zenon DEF DeliveryInv
<1> QED
  BY <1>4, <1>5

LEMMA PostKeeps ==
  ASSUME DeliveryInv, NEW c \in ChannelSet, Reports!Post(c) PROVE DeliveryInv'
<1>1. PICK k \in DOMAIN Channels : Channels[k] = c
  BY DEF ChannelSet
<1>2. /\ DOMAIN Channels = 1 .. Len(Channels) /\ Len(Channels) \in Nat /\ k \in 1 .. Len(Channels)
      /\ (CHOOSE j \in DOMAIN Channels : Channels[j] = c) = k
  BY <1>1, SiteReports, LenProperties
<1>3. /\ jobAt = c /\ jobRuns' = jobRuns /\ tries \in Nat /\ tries < MaxRetries
      /\ refused[c] = tries /\ taken[c] \in Nat
      /\ taken \in [ChannelSet -> Nat] /\ refused \in [ChannelSet -> Nat]
      /\ DOMAIN deliveries = {Channels[j] : j \in 1 .. k - 1}
      /\ \A j \in k + 1 .. Len(Channels) : refused[Channels[j]] = 0
      /\ \A d \in DOMAIN deliveries :
           IF deliveries[d] = "delivered" THEN taken[d] > 0 /\ refused[d] < MaxRetries
           ELSE refused[d] = MaxRetries
  BY <1>1, Zenon DEF Reports!Post, DeliveryInv
<1>4. /\ \A j \in 1 .. Len(Channels) : Channels[j] \in ChannelSet
      /\ \A j \in 1 .. Len(Channels) : j # k => Channels[j] # c
      /\ ChannelSet = {Channels[j] : j \in 1 .. Len(Channels)}
  BY <1>1, <1>2, SiteReports DEF ChannelSet
<1>5. \A d \in DOMAIN deliveries : d \in ChannelSet /\ d # c
  <2> TAKE d \in DOMAIN deliveries
  <2>1. PICK j \in 1 .. k - 1 : d = Channels[j]
    BY <1>3
  <2>2. j \in 1 .. Len(Channels) /\ j # k
    BY <1>2
  <2> QED
    BY <1>4, <2>1, <2>2
<1>11. ASSUME NEW f \in [ChannelSet -> Nat], NEW g, g \in {f, [f EXCEPT ![c] = @ + 1]}
       PROVE  g \in [ChannelSet -> Nat] /\ \A d \in ChannelSet \ {c} : g[d] = f[d]
  BY <1>11
<1>6. CASE /\ refused' = [refused EXCEPT ![c] = @ + 1] /\ tries + 1 < MaxRetries
           /\ taken' \in {taken, [taken EXCEPT ![c] = @ + 1]}
           /\ tries' = tries + 1 /\ UNCHANGED <<deliveries, jobAt>>
  <2>1. /\ taken' \in [ChannelSet -> Nat] /\ refused' \in [ChannelSet -> Nat]
        /\ refused'[c] = tries' /\ tries' \in Nat /\ tries' < MaxRetries
        /\ \A d \in ChannelSet \ {c} : refused'[d] = refused[d] /\ taken'[d] = taken[d]
    <3>1. refused' \in [ChannelSet -> Nat] /\ \A d \in ChannelSet \ {c} : refused'[d] = refused[d]
      <4>1. refused' \in {refused, [refused EXCEPT ![c] = @ + 1]}
        BY <1>6
      <4> QED
        BY <1>3, <1>11, <4>1, Zenon
    <3>2. taken' \in [ChannelSet -> Nat] /\ \A d \in ChannelSet \ {c} : taken'[d] = taken[d]
      BY <1>3, <1>6, <1>11
    <3>3. refused'[c] = refused[c] + 1
      BY <1>3, <1>6
    <3> QED
      BY <1>3, <1>6, <3>1, <3>2, <3>3
  <2>2. \A j \in DOMAIN Channels : jobAt' = Channels[j] => j = k
    BY <1>2, <1>3, <1>4, <1>6
  <2>3. \A j \in k + 1 .. Len(Channels) : refused'[Channels[j]] = 0
    <3> TAKE j \in k + 1 .. Len(Channels)
    <3>1. j \in 1 .. Len(Channels) /\ j # k
      BY <1>2
    <3>2. Channels[j] \in ChannelSet \ {c}
      BY <1>4, <3>1
    <3> QED
      BY <1>3, <2>1, <3>2
  <2>4. jobAt' = c /\ jobAt' # "idle"
    BY <1>1, <1>3, <1>6, SiteReports
  <2>5. \A d \in DOMAIN deliveries' :
          IF deliveries'[d] = "delivered" THEN taken'[d] > 0 /\ refused'[d] < MaxRetries
          ELSE refused'[d] = MaxRetries
    BY <1>3, <1>5, <1>6, <2>1
  <2>6. DOMAIN deliveries' = {Channels[j] : j \in 1 .. k - 1}
    BY <1>3, <1>6
  <2> QED
    BY <2>1, <2>2, <2>3, <2>4, <2>5, <2>6, Zenon DEF DeliveryInv
<1>7. CASE \E outcome \in {"delivered", "failed"} :
             /\ taken' \in {taken, [taken EXCEPT ![c] = @ + 1]}
             /\ refused' \in {refused, [refused EXCEPT ![c] = @ + 1]}
             /\ IF outcome = "delivered" THEN taken'[c] > 0 /\ refused'[c] < MaxRetries
                ELSE refused'[c] = MaxRetries
             /\ Reports!Then(c, outcome)
  <2>1. PICK outcome \in {"delivered", "failed"} :
             /\ taken' \in {taken, [taken EXCEPT ![c] = @ + 1]}
             /\ refused' \in {refused, [refused EXCEPT ![c] = @ + 1]}
             /\ IF outcome = "delivered" THEN taken'[c] > 0 /\ refused'[c] < MaxRetries
                ELSE refused'[c] = MaxRetries
             /\ Reports!Then(c, outcome)
    BY <1>7
  <2>2. /\ taken' \in [ChannelSet -> Nat] /\ refused' \in [ChannelSet -> Nat]
        /\ \A d \in ChannelSet \ {c} : refused'[d] = refused[d] /\ taken'[d] = taken[d]
    <3>1. taken' \in [ChannelSet -> Nat] /\ \A d \in ChannelSet \ {c} : taken'[d] = taken[d]
      BY <1>3, <1>11, <2>1
    <3>2. refused' \in [ChannelSet -> Nat] /\ \A d \in ChannelSet \ {c} : refused'[d] = refused[d]
      <4>1. refused' \in {refused, [refused EXCEPT ![c] = @ + 1]}
        BY <2>1
      <4> QED
        BY <1>3, <1>11, <4>1, Zenon
    <3> QED
      BY <3>1, <3>2
  <2>3. /\ deliveries' = [d \in DOMAIN deliveries \cup {c} |-> IF d = c THEN outcome ELSE deliveries[d]]
        /\ jobAt' = (IF k = Len(Channels) THEN "idle" ELSE Channels[k + 1])
        /\ tries' = 0
    <3> DEFINE q == CHOOSE j \in DOMAIN Channels : Channels[j] = c
    <3>1. Reports!Then(c, outcome) /\ q = k
      BY <1>2, <2>1
    <3>2. /\ deliveries' = [d \in DOMAIN deliveries \cup {c} |-> IF d = c THEN outcome ELSE deliveries[d]]
          /\ jobAt' = (IF q = Len(Channels) THEN "idle" ELSE Channels[q + 1])
          /\ tries' = 0
      BY <3>1 DEF Reports!Then
    <3> HIDE DEF q
    <3> QED
      BY <3>1, <3>2
  <2>4. \A d \in DOMAIN deliveries' :
          IF deliveries'[d] = "delivered" THEN taken'[d] > 0 /\ refused'[d] < MaxRetries
          ELSE refused'[d] = MaxRetries
    <3>1. ASSUME NEW d \in DOMAIN deliveries'
          PROVE  IF deliveries'[d] = "delivered" THEN taken'[d] > 0 /\ refused'[d] < MaxRetries
                 ELSE refused'[d] = MaxRetries
      <4>1. CASE d = c
        BY <2>1, <2>3, <4>1
      <4>2. CASE d # c
        BY <1>3, <1>5, <2>2, <2>3, <4>2
      <4> QED
        BY <4>1, <4>2
    <3> QED
      BY <3>1
  <2>5. DOMAIN deliveries' = {Channels[j] : j \in 1 .. k}
    <3>1. DOMAIN deliveries' = {Channels[j] : j \in 1 .. k - 1} \cup {Channels[k]}
      BY <1>1, <1>3, <2>3
    <3>2. 1 .. k = (1 .. k - 1) \cup {k}
      BY <1>2
    <3> QED
      BY <3>1, <3>2
  <2>6. CASE k = Len(Channels)
    <3>1. jobAt' = "idle" /\ \A j \in DOMAIN Channels : jobAt' # Channels[j]
      BY <2>3, <2>6, SiteReports
    <3>2. DOMAIN deliveries' = ChannelSet
      BY <1>4, <2>5, <2>6
    <3> QED
      BY <2>2, <2>3, <2>4, <3>1, <3>2, Zenon DEF DeliveryInv
  <2>7. CASE k # Len(Channels)
    <3>1. k + 1 \in 1 .. Len(Channels)
      BY <1>2, <2>7
    <3>2. jobAt' = Channels[k + 1] /\ jobAt' \in ChannelSet /\ jobAt' # "idle"
      BY <1>2, <1>4, <2>3, <2>7, <3>1, SiteReports
    <3>3. ASSUME NEW i \in DOMAIN Channels, jobAt' = Channels[i]
          PROVE  /\ DOMAIN deliveries' = {Channels[j] : j \in 1 .. i - 1}
                 /\ refused'[jobAt'] = tries' /\ tries' < MaxRetries
                 /\ \A j \in i + 1 .. Len(Channels) : refused'[Channels[j]] = 0
      <4>1. i = k + 1
        BY <1>2, <3>1, <3>2, <3>3, SiteReports, Zenon
      <4>2. i - 1 = k
        BY <1>2, <4>1
      <4>3. ASSUME NEW j \in k + 1 .. Len(Channels) PROVE refused'[Channels[j]] = 0
        <5>1. j \in 1 .. Len(Channels) /\ j # k
          BY <1>2
        <5>2. Channels[j] \in ChannelSet \ {c}
          BY <1>4, <5>1
        <5> QED
          BY <1>3, <2>2, <5>2
      <4>4. refused'[Channels[k + 1]] = 0 /\ \A j \in i + 1 .. Len(Channels) : refused'[Channels[j]] = 0
        BY <1>2, <3>1, <4>1, <4>3
      <4> QED
        BY <2>3, <2>5, <3>2, <4>2, <4>4, SiteReports
    <3> QED
      BY <2>2, <2>3, <2>4, <3>2, <3>3, Zenon DEF DeliveryInv
  <2> QED
    BY <2>6, <2>7
<1>8. \/ /\ taken' = [taken EXCEPT ![c] = @ + 1] /\ Reports!Then(c, "delivered") /\ refused' = refused
      \/ /\ refused' = [refused EXCEPT ![c] = @ + 1]
         /\ taken' \in {taken, [taken EXCEPT ![c] = @ + 1]}
         /\ IF tries + 1 < MaxRetries THEN tries' = tries + 1 /\ UNCHANGED <<deliveries, jobAt>>
            ELSE Reports!Then(c, "failed")
  BY DEF Reports!Post
<1>9. CASE taken' = [taken EXCEPT ![c] = @ + 1] /\ Reports!Then(c, "delivered") /\ refused' = refused
  <2>1. taken'[c] > 0 /\ refused'[c] < MaxRetries
    BY <1>3, <1>9
  <2> QED
    BY <1>7, <1>9, <2>1
<1>10. CASE /\ refused' = [refused EXCEPT ![c] = @ + 1] /\ ~(tries + 1 < MaxRetries)
            /\ taken' \in {taken, [taken EXCEPT ![c] = @ + 1]} /\ Reports!Then(c, "failed")
  <2>1. refused'[c] = MaxRetries
    BY <1>3, <1>10, SiteReports
  <2> QED
    BY <1>7, <1>10, <2>1
<1> QED
  BY <1>6, <1>8, <1>9, <1>10

LEMMA OrderIs == Reports!Range(Reports!Order) = {Reports!Order[n] : n \in 1 .. 13} /\ Len(Reports!Order) = 13
  BY DEF Reports!Order, Reports!Own, Reports!Range

LEMMA SevereIs ==
  ASSUME NEW d, NEW n \in 1 .. 13
  PROVE  Reports!Order[n] \in Reports!SevereKeys(d)
           <=> Reports!Order[n] \in DOMAIN d /\ HasBad(d[Reports!Order[n]])
<1>1. Reports!Order[n] \in Reports!Range(Reports!Order)
  BY OrderIs
<1> QED
  BY <1>1, Zenon DEF Reports!SevereKeys, Reports!Severe, HasBad, Bad

\* Issues are counted when a result lists one, and only then.
LEMMA IssuesCounted ==
  ASSUME NEW got, IsFiniteSet(DOMAIN got), \A n \in DOMAIN got : got[n] \in Seq(STRING)
  PROVE  Reports!Counted(got, Bad) > 0 <=> \E n \in DOMAIN got : HasBad(got[n])
<1> DEFINE here  == [n \in DOMAIN got |-> {n} \X (DOMAIN got[n])]
           there == UNION {here[n] : n \in DOMAIN got}
           bad   == {p \in there : got[p[1]][p[2]] \in Bad}
<1>1. ASSUME NEW n \in DOMAIN got PROVE IsFiniteSet(here[n])
  <2>1. DOMAIN got[n] = 1 .. Len(got[n]) /\ Len(got[n]) \in Nat
    BY LenProperties
  <2>2. IsFiniteSet(DOMAIN got[n])
    BY <2>1, FS_Interval
  <2> QED
    BY <2>2, FS_Singleton, FS_Product, Zenon
<1>2. IsFiniteSet(there)
  <2> HIDE DEF here
  <2> QED
    BY <1>1, FiniteUnion
<1>3. Reports!Counted(got, Bad) = Cardinality(bad)
  <2>1. Reports!Places(got) = there
    BY DEF Reports!Places
  <2> QED
    BY <2>1 DEF Reports!Counted, Reports!Cardinality, Cardinality
<1>4. IsFiniteSet(bad)
  BY <1>2, FS_Subset
<1>5. bad # {} <=> \E n \in DOMAIN got : HasBad(got[n])
  <2>1. ASSUME NEW p \in bad PROVE \E n \in DOMAIN got : HasBad(got[n])
    BY DEF HasBad, Reports!Range
  <2>2. ASSUME NEW n \in DOMAIN got, HasBad(got[n]) PROVE bad # {}
    <3>1. PICK i \in DOMAIN got[n] : got[n][i] \in Bad
      BY <2>2 DEF HasBad, Reports!Range
    <3>2. <<n, i>> \in here[n] /\ <<n, i>>[1] = n /\ <<n, i>>[2] = i
      OBVIOUS
    <3> HIDE DEF here
    <3>3. <<n, i>> \in there
      BY <3>2
    <3> QED
      BY <3>1, <3>2, <3>3
  <2> QED
    BY <2>1, <2>2
<1> HIDE DEF bad
<1>6. Cardinality(bad) \in Nat /\ (Cardinality(bad) = 0 <=> bad = {})
  BY <1>4, FS_CardinalityType, FS_EmptySet
<1> QED
  BY <1>3, <1>5, <1>6

\* What a summary is made of decides what it asks.
LEMMA SummaryTells ==
  ASSUME NEW got, IsFiniteSet(DOMAIN got), \A n \in DOMAIN got : got[n] \in Seq(STRING),
         NEW whole \in BOOLEAN, NEW S, NEW E,
         whole /\ S # {} => \E n \in DOMAIN got : HasBad(got[n]),
         (\E n \in DOMAIN got : HasBad(got[n])) => E # {}
  PROVE  Tells([content |-> Reports!Content("executive_summary", got, whole),
                severe |-> S, ever |-> E])
<1> DEFINE words == {"address issues", "review warnings", "expand coverage"}
           asks  == {w \in words :
                       CASE w = "address issues" -> Reports!Counted(got, Bad) > 0
                         [] w = "review warnings" -> Reports!Counted(got, {"medium", "low"}) > 5
                         [] w = "expand coverage" -> TRUE}
<1>1. "address issues" \in asks <=> Reports!Counted(got, Bad) > 0
  OBVIOUS
<1>2. "address issues" \in asks <=> \E n \in DOMAIN got : HasBad(got[n])
  BY <1>1, IssuesCounted
<1>3. PICK f : f = Reports!Summary(got, whole)
  OBVIOUS
<1>4. /\ f.failed = ~whole /\ f.recommendations = (IF ~whole THEN {} ELSE asks)
      /\ (~whole => f.findings = {})
  BY <1>3 DEF Reports!Summary, Bad
<1>5. Reports!Content("executive_summary", got, whole) = f
  BY <1>3 DEF Reports!Content
<1> HIDE DEF asks
<1> QED
  BY <1>2, <1>4, <1>5 DEF Tells

\* A file that tells the truth may join the others.
LEMMA FileAdded ==
  ASSUME FilesInv, NEW type, NEW s, NEW g, Reports!GenerateFile(type, s, g),
         type = "executive_summary" =>
           Tells([content |-> Reports!Content("executive_summary", g.got, g.whole),
                  severe |-> g.severe, ever |-> g.ever])
  PROVE  FilesInv'
<1> DEFINE name == Reports!FileName(type, s)
<1>1. name.type = type
  BY DEF Reports!FileName
<1>2. files' = [n \in DOMAIN files \cup {name} |-> IF n = name
        THEN [content |-> Reports!Content(type, g.got, g.whole), severe |-> g.severe,
              ever |-> g.ever] ELSE files[n]]
  BY Zenon DEF Reports!GenerateFile
<1> HIDE DEF name
<1>3. DOMAIN files' = DOMAIN files \cup {name}
  BY <1>2
<1> SUFFICES ASSUME NEW n \in DOMAIN files', n.type = "executive_summary" PROVE Tells(files'[n])
  BY Zenon DEF FilesInv
<1>4. CASE n = name
  <2>1. type = "executive_summary"
    BY <1>1, <1>4
  <2>2. files'[n] = [content |-> Reports!Content("executive_summary", g.got, g.whole),
                     severe |-> g.severe, ever |-> g.ever]
    BY <1>2, <1>3, <1>4, <2>1
  <2> QED
    BY <2>1, <2>2
<1>5. CASE n # name
  <2>1. files'[n] = files[n] /\ n \in DOMAIN files
    BY <1>2, <1>3, <1>5
  <2> QED
    BY <2>1 DEF FilesInv
<1> QED
  BY <1>4, <1>5

LEMMA ResultLeft ==
  ASSUME KeptInv, GatherInv, NEW s \in ReportSessions, NEW key \in DOMAIN AgentWrites,
         NEW r \in AgentWrites[key], Reports!Leave(s, key, r)
  PROVE  KeptInv' /\ GatherInv'
<1>1. PICK d : d = [k \in DOMAIN kept[s] \cup {key} |-> IF k = key THEN r ELSE kept[s][k]]
  OBVIOUS
<1>2. /\ kept' = [kept EXCEPT ![s] = d]
      /\ gathering' = IF gathering.session # s THEN gathering
           ELSE [gathering EXCEPT !.severe = @ \cap Reports!SevereKeys(d),
                                  !.ever = @ \cup Reports!SevereKeys(d)]
  BY <1>1, Zenon DEF Reports!Leave
<1>3. \A k \in DOMAIN d : d[k] \in Seq(STRING)
  <2>1. r \in Seq(STRING)
    BY SiteResults
  <2> QED
    BY <1>1, <2>1 DEF KeptInv
<1>4. kept' = [q \in ReportSessions |-> IF q = s THEN d ELSE kept[q]]
  BY <1>2 DEF KeptInv
<1>5. KeptInv'
  BY <1>3, <1>4 DEF KeptInv
<1>6. CASE gathering.session # s
  <2>1. gathering' = gathering
    BY <1>2, <1>6
  <2>2. gathering.session \in ReportSessions => kept'[gathering.session] = kept[gathering.session]
    BY <1>4, <1>6
  <2> QED
    BY <1>5, <2>1, <2>2 DEF GatherInv
<1>7. CASE gathering.session = s
  <2>1. gathering' = [session |-> s, at |-> gathering.at, got |-> gathering.got,
                      whole |-> gathering.whole,
                      severe |-> gathering.severe \cap Reports!SevereKeys(d),
                      ever |-> gathering.ever \cup Reports!SevereKeys(d)]
    BY <1>2, <1>7 DEF GatherInv, Record
  <2>2. kept'[s] = d
    BY <1>4
  <2>3. Gathered(gathering, kept[s])
    BY <1>7, SiteResults DEF GatherInv
  <2>4. PICK g : g = gathering'
    OBVIOUS
  <2>5. /\ g.session = s /\ g.at = gathering.at /\ g.got = gathering.got
        /\ g.whole = gathering.whole /\ Record(g)
        /\ g.severe = gathering.severe \cap Reports!SevereKeys(d)
        /\ g.ever = gathering.ever \cup Reports!SevereKeys(d)
    BY <2>1, <2>4 DEF Record
  <2>6. Gathered(g, d)
    BY <2>3, <2>5 DEF Gathered
  <2> QED
    BY <1>5, <2>2, <2>4, <2>5, <2>6 DEF GatherInv
<1> QED
  BY <1>6, <1>7

LEMMA GatherBegins ==
  ASSUME KeptInv, GatherInv, NEW s \in ReportSessions, NEW type, Reports!Generate(type, s)
  PROVE  GatherInv'
<1>1. PICK S : S = Reports!SevereKeys(kept[s])
  OBVIOUS
<1>2. kept' = kept /\ gathering' = [session |-> s, at |-> 0, got |-> <<>>, whole |-> TRUE,
                                    severe |-> S, ever |-> S]
  BY <1>1 DEF Reports!Generate, Reports!Idle
<1>3. PICK g : g = gathering'
  OBVIOUS
<1>4. /\ g.session = s /\ g.at = 0 /\ g.got = <<>> /\ g.whole = TRUE /\ Record(g)
      /\ g.severe = S /\ g.ever = S
  BY <1>2, <1>3 DEF Record
<1>5. DOMAIN g.got = {}
  BY <1>4
<1>6. Gathered(g, kept[s])
  BY <1>1, <1>4, <1>5 DEF Gathered
<1> QED
  BY <1>2, <1>3, <1>4, <1>6 DEF GatherInv

LEMMA ReadsNext ==
  ASSUME KeptInv, GatherInv, Reports!Collect PROVE GatherInv'
<1>1. PICK n, s, d : n = gathering.at + 1 /\ s = gathering.session /\ d = kept[s]
  OBVIOUS
<1>2. PICK key : key = Reports!Order[n]
  OBVIOUS
<1>3. PICK all : all = IF key \notin DOMAIN d THEN gathering.got
        ELSE [m \in DOMAIN gathering.got \cup {n} |-> IF m = n THEN d[key] ELSE gathering.got[m]]
  OBVIOUS
<1>4. s \in ReportSessions /\ Gathered(gathering, d) /\ gathering.at < 13 /\ gathering.at \in 0 .. 13
  <2>1. s # "" /\ gathering.at < Len(Reports!Order)
    BY <1>1 DEF Reports!Collect, Reports!Free, Reports!NoSession
  <2> QED
    BY <1>1, <2>1, OrderIs DEF GatherInv, Gathered
<1>5. /\ kept' = kept
      /\ gathering' = [gathering EXCEPT !.at = n, !.got = all]
  BY <1>1, <1>2, <1>3 DEF Reports!Collect
<1>6. PICK g : g = gathering'
  OBVIOUS
<1>7. /\ g.session = s /\ g.at = n /\ g.got = all /\ g.whole = gathering.whole /\ Record(g)
      /\ g.severe = gathering.severe /\ g.ever = gathering.ever
  BY <1>1, <1>5, <1>6 DEF GatherInv, Record
<1>8. n \in 1 .. 13 /\ n \notin DOMAIN gathering.got /\ DOMAIN gathering.got \subseteq 1 .. n
  BY <1>1, <1>4 DEF Gathered
<1>9. key \in Reports!SevereKeys(d) <=> key \in DOMAIN d /\ HasBad(d[key])
  BY <1>2, <1>8, SevereIs
<1>10. /\ \A m \in DOMAIN gathering.got : m \in DOMAIN all /\ all[m] = gathering.got[m]
       /\ \A m \in DOMAIN all : m \in DOMAIN gathering.got \/ (m = n /\ key \in DOMAIN d)
       /\ key \in DOMAIN d => n \in DOMAIN all /\ all[n] = d[key]
  BY <1>3, <1>8
<1>11. \A m \in DOMAIN all : all[m] \in Seq(STRING)
  <2>1. \A k \in DOMAIN d : d[k] \in Seq(STRING)
    BY <1>1, <1>4 DEF KeptInv
  <2> QED
    BY <1>4, <1>10, <2>1 DEF Gathered
<1>12. \A m \in 1 .. n : Reports!Order[m] \in gathering.severe => m \in DOMAIN all /\ HasBad(all[m])
  <2> SUFFICES ASSUME NEW m \in 1 .. n, Reports!Order[m] \in gathering.severe
               PROVE  m \in DOMAIN all /\ HasBad(all[m])
    OBVIOUS
  <2>1. CASE m = n
    <3>1. key \in Reports!SevereKeys(d)
      BY <1>2, <1>4, <2>1 DEF Gathered
    <3> QED
      BY <1>9, <1>10, <2>1, <3>1
  <2>2. CASE m # n
    <3>1. m \in 1 .. gathering.at
      BY <1>1, <1>4, <2>2
    <3>2. m \in DOMAIN gathering.got /\ HasBad(gathering.got[m])
      BY <1>4, <3>1 DEF Gathered
    <3> QED
      BY <1>10, <3>2
  <2> QED
    BY <2>1, <2>2
<1>13. \A m \in DOMAIN all : HasBad(all[m]) => Reports!Order[m] \in gathering.ever
  <2> SUFFICES ASSUME NEW m \in DOMAIN all, HasBad(all[m]) PROVE Reports!Order[m] \in gathering.ever
    OBVIOUS
  <2>1. CASE m \in DOMAIN gathering.got
    BY <1>4, <1>10, <2>1 DEF Gathered
  <2>2. CASE m = n /\ key \in DOMAIN d
    BY <1>2, <1>4, <1>9, <1>10, <2>2 DEF Gathered
  <2> QED
    BY <1>10, <2>1, <2>2
<1>14. DOMAIN all \subseteq 1 .. n
  BY <1>8, <1>10
<1>15. Gathered(g, d)
  BY <1>4, <1>7, <1>8, <1>11, <1>12, <1>13, <1>14 DEF Gathered
<1> QED
  BY <1>1, <1>4, <1>5, <1>6, <1>7, <1>15 DEF GatherInv

LEMMA ReadFinite ==
  ASSUME NEW g, NEW d, Gathered(g, d) PROVE IsFiniteSet(DOMAIN g.got)
<1>1. g.at \in 0 .. 13 /\ DOMAIN g.got \subseteq 1 .. g.at
  BY Zenon DEF Gathered
<1>2. PICK last : last = g.at
  OBVIOUS
<1>3. last \in Int
  BY <1>1, <1>2
<1>4. IsFiniteSet(1 .. last)
  BY <1>3, FS_Interval
<1> QED
  BY <1>1, <1>2, <1>4, FS_Subset, Zenon

LEMMA AnswerTells ==
  ASSUME GatherInv, gathering.session # "", gathering.at = 13 \/ gathering.whole = FALSE
  PROVE  Tells([content |-> Reports!Content("executive_summary", gathering.got, gathering.whole),
                severe |-> gathering.severe, ever |-> gathering.ever])
<1>1. PICK d : Gathered(gathering, d)
  BY DEF GatherInv
<1>2. IsFiniteSet(DOMAIN gathering.got)
  BY <1>1, ReadFinite, Zenon
<1>3. \A n \in DOMAIN gathering.got : gathering.got[n] \in Seq(STRING)
  BY <1>1 DEF Gathered
<1>4. ASSUME gathering.whole, gathering.severe # {}
      PROVE  \E n \in DOMAIN gathering.got : HasBad(gathering.got[n])
  <2>1. PICK key : key \in gathering.severe
    BY <1>4
  <2>2. key \in Reports!Range(Reports!Order)
    BY <1>1, <2>1 DEF Gathered, Reports!SevereKeys
  <2>3. PICK n \in 1 .. 13 : Reports!Order[n] = key
    BY <2>2, OrderIs
  <2> QED
    BY <1>1, <1>4, <2>1, <2>3 DEF Gathered
<1>5. (\E n \in DOMAIN gathering.got : HasBad(gathering.got[n])) => gathering.ever # {}
  BY <1>1 DEF Gathered
<1> QED
  BY <1>2, <1>3, <1>4, <1>5, SummaryTells DEF GatherInv

LEMMA JobTells ==
  ASSUME NEW whole \in BOOLEAN, NEW g, g = [Reports!Idle EXCEPT !.whole = whole]
  PROVE  Tells([content |-> Reports!Content("executive_summary", g.got, g.whole),
                severe |-> g.severe, ever |-> g.ever])
<1>1. g.got = <<>> /\ g.whole = whole /\ g.severe = {} /\ g.ever = {}
  BY DEF Reports!Idle
<1>2. DOMAIN g.got = {}
  BY <1>1
<1> QED
  BY <1>1, <1>2, SummaryTells, FS_EmptySet

LEMMA ReportStep == ReportInv /\ [Reports!Next]_reportsVars => ReportInv'
<1> SUFFICES ASSUME ReportInv, Reports!Next \/ UNCHANGED reportsVars
             PROVE  ReportInv'
  OBVIOUS
<1>1. ASSUME UNCHANGED <<jobAt, tries, deliveries, taken, refused, jobRuns>> PROVE DeliveryInv'
  BY <1>1, Zenon DEF ReportInv, DeliveryInv
<1>2. ASSUME kept' = kept PROVE KeptInv'
  BY <1>2, Zenon DEF ReportInv, KeptInv
<1>3. ASSUME kept' = kept, gathering' = gathering PROVE GatherInv'
  BY <1>3, Zenon DEF ReportInv, GatherInv
<1>4. ASSUME files' = files PROVE FilesInv'
  BY <1>4, Zenon DEF ReportInv, FilesInv
<1>5. CASE UNCHANGED reportsVars
  BY <1>1, <1>2, <1>3, <1>4, <1>5 DEF ReportInv, reportsVars
<1>6. CASE Reports!Tick
  BY <1>1, <1>2, <1>3, <1>4, <1>6 DEF ReportInv, Reports!Tick, Reports!delivering
<1>7. ASSUME NEW s \in ReportSessions, NEW key \in DOMAIN AgentWrites, NEW r \in AgentWrites[key],
             Reports!Leave(s, key, r)
      PROVE  ReportInv'
  <2>1. KeptInv' /\ GatherInv'
    BY <1>7, ResultLeft DEF ReportInv
  <2>2. DeliveryInv' /\ FilesInv'
    BY <1>1, <1>4, <1>7 DEF Reports!Leave, Reports!delivering
  <2> QED
    BY <2>1, <2>2 DEF ReportInv
<1>8. ASSUME NEW s \in ReportSessions, NEW type, Reports!Generate(type, s) PROVE ReportInv'
  <2>1. GatherInv'
    BY <1>8, GatherBegins DEF ReportInv
  <2> QED
    BY <1>1, <1>2, <1>4, <1>8, <2>1 DEF ReportInv, Reports!Generate, Reports!delivering
<1>9. CASE Reports!Collect
  <2>1. GatherInv'
    BY <1>9, ReadsNext DEF ReportInv
  <2> QED
    BY <1>1, <1>2, <1>4, <1>9, <2>1 DEF ReportInv, Reports!Collect, Reports!delivering
<1>10. CASE Reports!CollectFails
  <2>1. kept' = kept /\ gathering' = [gathering EXCEPT !.whole = FALSE]
    BY <1>10 DEF Reports!CollectFails
  <2>2. PICK g : g = gathering'
    OBVIOUS
  <2>3. /\ g.session = gathering.session /\ g.at = gathering.at /\ g.got = gathering.got
        /\ g.whole = FALSE /\ g.severe = gathering.severe /\ g.ever = gathering.ever /\ Record(g)
    BY <2>1, <2>2 DEF ReportInv, GatherInv, Record
  <2>4. GatherInv'
    BY <2>1, <2>2, <2>3 DEF ReportInv, GatherInv, Gathered
  <2> QED
    BY <1>1, <1>2, <1>4, <1>10, <2>4 DEF ReportInv, Reports!CollectFails, Reports!delivering
<1>11. CASE Reports!Answer
  <2>1. kept' = kept /\ gathering' = Reports!Idle
    BY <1>11 DEF Reports!Answer
  <2>2. GatherInv'
    BY <2>1 DEF GatherInv, Record, Reports!Idle, Reports!NoSession
  <2>3. gathering.session # "" /\ (gathering.at = 13 \/ gathering.whole = FALSE)
    BY <1>11, OrderIs, Zenon DEF ReportInv, GatherInv, Reports!Answer, Reports!Free,
       Reports!NoSession
  <2>4. Tells([content |-> Reports!Content("executive_summary", gathering.got, gathering.whole),
               severe |-> gathering.severe, ever |-> gathering.ever])
    BY <2>3, AnswerTells DEF ReportInv
  <2>5. FilesInv'
    <3>1. CASE files' = files
      BY <1>4, <3>1
    <3>2. CASE Reports!GenerateFile("executive_summary", gathering.session, gathering)
      BY <2>4, <3>2, FileAdded DEF ReportInv
    <3> QED
      BY <1>11, <3>1, <3>2 DEF Reports!Answer
  <2> QED
    BY <1>1, <1>2, <1>11, <2>1, <2>2, <2>5 DEF ReportInv, Reports!Answer, Reports!delivering
<1>12. ASSUME NEW type, Reports!ScheduleCustom(type) \/ Reports!RemoveJob(type) PROVE ReportInv'
  BY <1>1, <1>2, <1>3, <1>4, <1>12 DEF ReportInv, Reports!ScheduleCustom, Reports!RemoveJob,
     Reports!delivering
<1>13. ASSUME NEW type, Reports!RunJob(type) PROVE ReportInv'
  <2>1. kept' = kept /\ gathering' = gathering
    BY <1>13 DEF Reports!RunJob
  <2>2. CASE files' = files
    BY <1>2, <1>3, <1>4, <1>13, <2>1, <2>2, JobBegins DEF ReportInv
  <2>3. ASSUME NEW whole \in BOOLEAN,
               Reports!GenerateFile(type, "", [Reports!Idle EXCEPT !.whole = whole])
        PROVE  FilesInv'
    BY <2>3, FileAdded, JobTells DEF ReportInv
  <2>4. files' = files \/ \E whole \in BOOLEAN :
          Reports!GenerateFile(type, "", [Reports!Idle EXCEPT !.whole = whole])
    BY <1>13 DEF Reports!RunJob, Reports!NoSession
  <2> QED
    BY <1>2, <1>3, <1>13, <2>1, <2>2, <2>3, <2>4, JobBegins DEF ReportInv
<1>14. ASSUME NEW c \in Reports!Range(Channels), Reports!Post(c) PROVE ReportInv'
  <2>1. kept' = kept /\ gathering' = gathering /\ files' = files /\ c \in ChannelSet
    BY <1>14 DEF Reports!Post, Reports!Range, ChannelSet
  <2> QED
    BY <1>2, <1>3, <1>4, <1>14, <2>1, PostKeeps DEF ReportInv
<1> QED
  BY <1>5, <1>6, <1>7, <1>8, <1>9, <1>10, <1>11, <1>12, <1>13, <1>14 DEF Reports!Next

LEMMA DeliveryIsTold == ReportInv => Reports!DeliveryTold
  BY DEF ReportInv, DeliveryInv, Reports!DeliveryTold, Reports!Range, ChannelSet

LEMMA SevereIsMentioned == ReportInv => Reports!SevereMentioned
  BY DEF ReportInv, FilesInv, Tells, Reports!SevereMentioned

----------------------------------------------------------------------------
(* The audit                                                                *)

Texts == {"add HSTS", "add CSP", "add X-Frame-Options", "add nosniff", "add Referrer-Policy",
          "add Permissions-Policy", "add X-XSS-Protection", "use TLS 1.2", "restrict origins",
          "mask the server", "encode input", "disable listing"}
Vulns == [severity : {"critical", "high", "medium", "low"}, remedy : Texts]
Count(vs, s) == Cardinality({i \in DOMAIN vs : vs[i].severity = s})

LEMMA CountIs ==
  ASSUME NEW vs \in Seq(Vulns), NEW s
  PROVE  IsFiniteSet({i \in DOMAIN vs : vs[i].severity = s}) /\ Count(vs, s) \in Nat
<1>1. PICK n \in Nat : n = Len(vs) /\ DOMAIN vs = 1 .. n
  BY LenProperties
<1>2. IsFiniteSet(1 .. n)
  BY FS_Interval
<1>3. IsFiniteSet({i \in DOMAIN vs : vs[i].severity = s})
  BY <1>1, <1>2, FS_Subset
<1> QED
  BY <1>3, FS_CardinalityType DEF Count

\* What two lists owe together is what each owes.
LEMMA CountConcat ==
  ASSUME NEW u \in Seq(Vulns), NEW w \in Seq(Vulns), NEW s
  PROVE  Count(u \o w, s) = Count(u, s) + Count(w, s)
<1>1. PICK m, n, v : m = Len(u) /\ n = Len(w) /\ v = u \o w
  OBVIOUS
<1>0. m \in Nat /\ n \in Nat
  BY <1>1, LenProperties
<1>2. DOMAIN u = 1 .. m /\ DOMAIN w = 1 .. n /\ DOMAIN v = 1 .. m + n
  BY <1>0, <1>1, LenProperties, ConcatProperties
<1>3. \A i \in 1 .. m + n : v[i] = IF i <= m THEN u[i] ELSE w[i - m]
  BY <1>0, <1>1, ConcatProperties
<1> DEFINE A == {i \in DOMAIN u : u[i].severity = s}
           B == {i \in DOMAIN w : w[i].severity = s}
           C == {i \in m + 1 .. m + n : v[i].severity = s}
<1>4. {i \in DOMAIN v : v[i].severity = s} = A \cup C /\ A \cap C = {}
  BY <1>0, <1>2, <1>3
<1>5. IsFiniteSet(A) /\ IsFiniteSet(B)
  BY CountIs
<1>6. ExistsBijection(B, C)
  <2> DEFINE f == [i \in B |-> i + m]
  <2>1. ASSUME NEW i \in B PROVE i + m \in C /\ i \in Int
    BY <1>0, <1>2, <1>3
  <2>2. f \in [B -> C]
    BY <2>1
  <2>3. \A i, j \in B : f[i] = f[j] => i = j
    BY <1>0, <1>2
  <2>4. ASSUME NEW c \in C PROVE \E i \in B : f[i] = c
    <3>1. c - m \in B /\ c - m + m = c
      BY <1>0, <1>2, <1>3
    <3> QED
      BY <3>1
  <2>5. f \in Bijection(B, C)
    BY <2>2, <2>3, <2>4 DEF Bijection, Injection, Surjection, IsInjective
  <2> QED
    BY <2>5 DEF ExistsBijection
<1>7. IsFiniteSet(C) /\ Cardinality(C) = Cardinality(B)
  BY <1>5, <1>6, FS_Bijection
<1> HIDE DEF A, B, C
<1>8. Cardinality(A \cup C) = Cardinality(A) + Cardinality(C)
  <2>1. Cardinality(A \cup C) = Cardinality(A) + Cardinality(C) - Cardinality(A \cap C)
    BY <1>5, <1>7, FS_Union
  <2>2. Cardinality(A \cap C) = 0
    BY <1>4, FS_EmptySet
  <2>3. Cardinality(A) \in Nat /\ Cardinality(C) \in Nat
    BY <1>5, <1>7, FS_CardinalityType
  <2> QED
    BY <2>1, <2>2, <2>3
<1> QED
  BY <1>1, <1>4, <1>7, <1>8 DEF Count, A, B

LEMMA DeductionsAre ==
  ASSUME NEW vs
  PROVE  Audit!Deductions(vs) = 15 * Count(vs, "critical") + 10 * Count(vs, "high")
                                + 5 * Count(vs, "medium") + 2 * Count(vs, "low")
<1>1. PICK c, h, m, l : /\ c = Count(vs, "critical") /\ h = Count(vs, "high")
                        /\ m = Count(vs, "medium") /\ l = Count(vs, "low")
  OBVIOUS
<1>2. /\ Audit!Deduction["critical"] = 15 /\ Audit!Deduction["high"] = 10
      /\ Audit!Deduction["medium"] = 5 /\ Audit!Deduction["low"] = 2
  BY DEF Audit!Deduction
<1>3. /\ Audit!Cardinality(Audit!HasSeverity(vs, "critical")) = c
      /\ Audit!Cardinality(Audit!HasSeverity(vs, "high")) = h
      /\ Audit!Cardinality(Audit!HasSeverity(vs, "medium")) = m
      /\ Audit!Cardinality(Audit!HasSeverity(vs, "low")) = l
  BY <1>1 DEF Audit!HasSeverity, Count, Audit!Cardinality, Cardinality
<1>4. Audit!Deductions(vs) =
        Audit!Deduction["critical"] * Audit!Cardinality(Audit!HasSeverity(vs, "critical"))
        + Audit!Deduction["high"] * Audit!Cardinality(Audit!HasSeverity(vs, "high"))
        + Audit!Deduction["medium"] * Audit!Cardinality(Audit!HasSeverity(vs, "medium"))
        + Audit!Deduction["low"] * Audit!Cardinality(Audit!HasSeverity(vs, "low"))
  BY Zenon DEF Audit!Deductions
<1>5. Audit!Deductions(vs) = 15 * c + 10 * h + 5 * m + 2 * l
  BY <1>2, <1>3, <1>4, Zenon
<1> QED
  BY <1>1, <1>5, Zenon

LEMMA DeductionsConcat ==
  ASSUME NEW u \in Seq(Vulns), NEW w \in Seq(Vulns)
  PROVE  /\ u \o w \in Seq(Vulns)
         /\ Audit!Deductions(u) \in Nat /\ Audit!Deductions(w) \in Nat
         /\ Audit!Deductions(u \o w) = Audit!Deductions(u) + Audit!Deductions(w)
<1>1. u \o w \in Seq(Vulns)
  BY ConcatProperties
<1>2. PICK v : v = u \o w
  OBVIOUS
<1>3. \A s : /\ Count(u, s) \in Nat /\ Count(w, s) \in Nat
             /\ Count(v, s) = Count(u, s) + Count(w, s)
  BY <1>2, CountIs, CountConcat
<1>4. PICK c1, h1, m1, l1, c2, h2, m2, l2 :
        /\ c1 = Count(u, "critical") /\ h1 = Count(u, "high")
        /\ m1 = Count(u, "medium") /\ l1 = Count(u, "low")
        /\ c2 = Count(w, "critical") /\ h2 = Count(w, "high")
        /\ m2 = Count(w, "medium") /\ l2 = Count(w, "low")
  OBVIOUS
<1>5. /\ c1 \in Nat /\ h1 \in Nat /\ m1 \in Nat /\ l1 \in Nat
      /\ c2 \in Nat /\ h2 \in Nat /\ m2 \in Nat /\ l2 \in Nat
      /\ Count(v, "critical") = c1 + c2 /\ Count(v, "high") = h1 + h2
      /\ Count(v, "medium") = m1 + m2 /\ Count(v, "low") = l1 + l2
  BY <1>3, <1>4, Zenon
<1>6. /\ Audit!Deductions(u) = 15 * c1 + 10 * h1 + 5 * m1 + 2 * l1
      /\ Audit!Deductions(w) = 15 * c2 + 10 * h2 + 5 * m2 + 2 * l2
      /\ Audit!Deductions(v) = 15 * (c1 + c2) + 10 * (h1 + h2) + 5 * (m1 + m2) + 2 * (l1 + l2)
  BY <1>4, <1>5, DeductionsAre, Zenon
<1>7. /\ Audit!Deductions(u) \in Nat /\ Audit!Deductions(w) \in Nat
      /\ Audit!Deductions(v) = Audit!Deductions(u) + Audit!Deductions(w)
  BY <1>5, <1>6
<1> QED
  BY <1>1, <1>2, <1>7

\* A list all of one severity owes as often as it is long.
Alike(vs, n, s) ==
  vs \in Seq(Vulns) /\ DOMAIN vs = 1 .. n /\ \A i \in 1 .. n : vs[i].severity = s

LEMMA AlikeOwe ==
  ASSUME NEW n \in Nat, NEW vs, NEW s, Alike(vs, n, s)
  PROVE  /\ vs \in Seq(Vulns)
         /\ s = "critical" => Audit!Deductions(vs) = 15 * n
         /\ s = "high" => Audit!Deductions(vs) = 10 * n
         /\ s = "medium" => Audit!Deductions(vs) = 5 * n
         /\ s = "low" => Audit!Deductions(vs) = 2 * n
         /\ n = 0 => Audit!Deductions(vs) = 0
<1>0. vs \in Seq(Vulns) /\ DOMAIN vs = 1 .. n /\ \A i \in 1 .. n : vs[i].severity = s
  BY DEF Alike
<1>1. IsFiniteSet(1 .. n) /\ Cardinality(1 .. n) = n
  BY FS_Interval
<1>2. \A t : t # s => Count(vs, t) = 0
  <2> TAKE t
  <2>1. t # s => {i \in DOMAIN vs : vs[i].severity = t} = {}
    BY <1>0
  <2> QED
    BY <2>1, FS_EmptySet DEF Count
<1>3. Count(vs, s) = n
  <2>1. {i \in DOMAIN vs : vs[i].severity = s} = 1 .. n
    BY <1>0
  <2> QED
    BY <1>1, <2>1 DEF Count
<1>4. n = 0 => \A t : Count(vs, t) = 0
  BY <1>2, <1>3
<1> QED
  BY <1>0, <1>2, <1>3, <1>4, DeductionsAre

LEMMA RepeatAlike ==
  ASSUME NEW n \in Nat, NEW s \in {"critical", "high", "medium", "low"}, NEW r \in Texts
  PROVE  Alike(Audit!Repeat(n, Audit!Vuln(s, r)), n, s)
<1>1. PICK v : v = Audit!Vuln(s, r)
  OBVIOUS
<1>2. v \in Vulns /\ v.severity = s
  BY <1>1 DEF Vulns, Audit!Vuln
<1>3. PICK vs : vs = [i \in 1 .. n |-> v]
  OBVIOUS
<1>4. Alike(vs, n, s)
  BY <1>2, <1>3 DEF Alike
<1> QED
  BY <1>1, <1>3, <1>4 DEF Audit!Repeat

\* What the k-th check finds of a site that answers, and what those before it find.
Owes(s, a, k) ==
  CASE k = 1 -> IF a = "analyst" THEN 0
                ELSE (IF s.hsts THEN 0 ELSE 10) + 5 * (6 - s.headers)
    [] k = 2 -> IF s.tls = "good" THEN 0 ELSE 10
    [] k = 3 -> IF s.cors THEN 10 ELSE 0
    [] k = 4 -> 2 * s.named
    [] k = 5 -> IF s.xss THEN 15 ELSE 0
    [] k = 6 -> IF s.listing THEN 5 ELSE 0
Owed(s, a, k) ==
  (IF k > 1 THEN Owes(s, a, 1) ELSE 0) + (IF k > 2 THEN Owes(s, a, 2) ELSE 0)
    + (IF k > 3 THEN Owes(s, a, 3) ELSE 0) + (IF k > 4 THEN Owes(s, a, 4) ELSE 0)
    + (IF k > 5 THEN Owes(s, a, 5) ELSE 0) + (IF k > 6 THEN Owes(s, a, 6) ELSE 0)

LEMMA OfSite ==
  ASSUME NEW s \in Sites
  PROVE  /\ s.hsts \in BOOLEAN /\ s.headers \in 0 .. 6 /\ s.cors \in BOOLEAN
         /\ s.named \in 0 .. 2 /\ s.xss \in BOOLEAN /\ s.listing \in BOOLEAN
  BY SiteAnswers

LEMMA OwesAre ==
  ASSUME NEW s, NEW a
  PROVE  /\ a = "analyst" => Owes(s, a, 1) = 0
         /\ a # "analyst" => Owes(s, a, 1) = (IF s.hsts THEN 0 ELSE 10) + 5 * (6 - s.headers)
         /\ Owes(s, a, 2) = IF s.tls = "good" THEN 0 ELSE 10
         /\ Owes(s, a, 3) = IF s.cors THEN 10 ELSE 0
         /\ Owes(s, a, 4) = 2 * s.named
         /\ Owes(s, a, 5) = IF s.xss THEN 15 ELSE 0
         /\ Owes(s, a, 6) = IF s.listing THEN 5 ELSE 0
  BY DEF Owes

LEMMA OwesAtMost ==
  ASSUME NEW s \in Sites, NEW a
  PROVE  /\ Owes(s, a, 1) \in 0 .. 40 /\ Owes(s, a, 2) \in 0 .. 10 /\ Owes(s, a, 3) \in 0 .. 10
         /\ Owes(s, a, 4) \in 0 .. 4 /\ Owes(s, a, 5) \in 0 .. 15 /\ Owes(s, a, 6) \in 0 .. 5
<1>1. Owes(s, a, 1) \in 0 .. 40
  BY OfSite, OwesAre
<1>2. Owes(s, a, 2) \in 0 .. 10
  BY OfSite, OwesAre
<1>3. Owes(s, a, 3) \in 0 .. 10
  BY OfSite, OwesAre
<1>4. Owes(s, a, 4) \in 0 .. 4
  BY OfSite, OwesAre
<1>5. Owes(s, a, 5) \in 0 .. 15
  BY OfSite, OwesAre
<1>6. Owes(s, a, 6) \in 0 .. 5
  BY OfSite, OwesAre
<1> QED
  BY <1>1, <1>2, <1>3, <1>4, <1>5, <1>6

LEMMA OwedGrows ==
  ASSUME NEW s \in Sites, NEW a, NEW k \in 1 .. 6
  PROVE  Owed(s, a, 1) = 0 /\ Owed(s, a, k) \in Nat /\ Owed(s, a, k + 1) = Owed(s, a, k) + Owes(s, a, k)
<1>1. PICK o1, o2, o3, o4, o5, o6 :
        /\ o1 = Owes(s, a, 1) /\ o2 = Owes(s, a, 2) /\ o3 = Owes(s, a, 3)
        /\ o4 = Owes(s, a, 4) /\ o5 = Owes(s, a, 5) /\ o6 = Owes(s, a, 6)
  OBVIOUS
<1>2. o1 \in Nat /\ o2 \in Nat /\ o3 \in Nat /\ o4 \in Nat /\ o5 \in Nat /\ o6 \in Nat
  BY <1>1, OwesAtMost
<1>3. \A j : Owed(s, a, j) = (IF j > 1 THEN o1 ELSE 0) + (IF j > 2 THEN o2 ELSE 0)
               + (IF j > 3 THEN o3 ELSE 0) + (IF j > 4 THEN o4 ELSE 0)
               + (IF j > 5 THEN o5 ELSE 0) + (IF j > 6 THEN o6 ELSE 0)
  BY <1>1 DEF Owed
<1>4. Owed(s, a, 1) = 0 /\ Owed(s, a, k) \in Nat
  BY <1>2, <1>3
<1>5. Owed(s, a, k + 1) = Owed(s, a, k) + Owes(s, a, k)
  <2>1. k = 1 \/ k = 2 \/ k = 3 \/ k = 4 \/ k = 5 \/ k = 6
    OBVIOUS
  <2> QED
    BY <1>1, <1>2, <1>3, <2>1
<1> QED
  BY <1>4, <1>5

LEMMA MissingOwe ==
  ASSUME NEW h, h \in BOOLEAN, NEW n, n \in 0 .. 6
  PROVE  /\ Audit!MissingHeaders(h, n) \in Seq(Vulns)
         /\ Audit!Deductions(Audit!MissingHeaders(h, n)) = (IF h THEN 0 ELSE 10) + 5 * (6 - n)
<1>1. PICK k : k \in Nat /\ k = IF h THEN 0 ELSE 1
  OBVIOUS
<1>2. PICK u : u = Audit!Repeat(k, Audit!Vuln("high", "add HSTS"))
  OBVIOUS
<1>3. Alike(u, k, "high")
  BY <1>1, <1>2, RepeatAlike DEF Texts
<1>4. u \in Seq(Vulns) /\ Audit!Deductions(u) = 10 * k
  BY <1>1, <1>3, AlikeOwe
<1>5. PICK w : w = [i \in 1 .. 6 - n |-> Audit!Vuln("medium", Audit!OtherHeaders[i])]
  OBVIOUS
<1>6. \A i \in 1 .. 6 : Audit!OtherHeaders[i] \in Texts
  <2>1. \A i \in 1 .. 6 : i = 1 \/ i = 2 \/ i = 3 \/ i = 4 \/ i = 5 \/ i = 6
    OBVIOUS
  <2>2. /\ Audit!OtherHeaders[1] = "add CSP" /\ Audit!OtherHeaders[2] = "add X-Frame-Options"
        /\ Audit!OtherHeaders[3] = "add nosniff" /\ Audit!OtherHeaders[4] = "add Referrer-Policy"
        /\ Audit!OtherHeaders[5] = "add Permissions-Policy"
        /\ Audit!OtherHeaders[6] = "add X-XSS-Protection"
    BY DEF Audit!OtherHeaders
  <2> QED
    BY <2>1, <2>2 DEF Texts
<1>7. \A i \in 1 .. 6 - n : w[i] \in Vulns /\ w[i].severity = "medium"
  BY <1>5, <1>6 DEF Audit!Vuln, Vulns
<1>8. PICK l : l \in Nat /\ l = 6 - n
  OBVIOUS
<1>9. w \in Seq(Vulns) /\ DOMAIN w = 1 .. l
  BY <1>5, <1>7, <1>8
<1>10. Alike(w, l, "medium")
  BY <1>7, <1>8, <1>9 DEF Alike
<1>11. Audit!Deductions(w) = 5 * l
  BY <1>8, <1>10, AlikeOwe
<1>12. Audit!MissingHeaders(h, n) = u \o w
  BY <1>1, <1>2, <1>5, Zenon DEF Audit!MissingHeaders
<1>13. PICK v : v = u \o w
  OBVIOUS
<1>14. Audit!Deductions(v) = 10 * k + 5 * l /\ v \in Seq(Vulns)
  BY <1>4, <1>9, <1>11, <1>13, DeductionsConcat
<1>15. 10 * k + 5 * l = (IF h THEN 0 ELSE 10) + 5 * (6 - n)
  BY <1>1, <1>8
<1> QED
  BY <1>12, <1>13, <1>14, <1>15, Zenon

LEMMA NoneAnswered ==
  /\ Audit!MissingHeaders(FALSE, 0) \in Seq(Vulns)
  /\ Audit!Deductions(Audit!MissingHeaders(FALSE, 0)) = 40
<1>1. FALSE \in BOOLEAN /\ 0 \in 0 .. 6
  OBVIOUS
<1>2. /\ Audit!MissingHeaders(FALSE, 0) \in Seq(Vulns)
      /\ Audit!Deductions(Audit!MissingHeaders(FALSE, 0)) = (IF FALSE THEN 0 ELSE 10) + 5 * (6 - 0)
  BY <1>1, MissingOwe, Zenon
<1>3. (IF FALSE THEN 0 ELSE 10) + 5 * (6 - 0) = 40
  OBVIOUS
<1> QED
  BY <1>2, <1>3, Zenon

LEMMA NothingOwes == <<>> \in Seq(Vulns) /\ Audit!Deductions(<<>>) = 0
<1>1. PICK vs : vs = <<>>
  OBVIOUS
<1>2. vs \in Seq(Vulns) /\ DOMAIN vs = 1 .. 0
  BY <1>1
<1>3. Alike(vs, 0, "low")
  BY <1>2 DEF Alike
<1>4. vs \in Seq(Vulns) /\ Audit!Deductions(vs) = 0
  BY <1>3, AlikeOwe
<1> QED
  BY <1>1, <1>4

\* What each check finds, and what that owes.
\* What each check finds, and what that owes.
LEMMA FoundOwes ==
  ASSUME site \in Sites, siteUp \in BOOLEAN, NEW a \in Audit!Assessors, NEW k \in 1 .. 6, NEW vs,
         vs = Audit!Found(a, Audit!Checks[k])
  PROVE  /\ vs \in Seq(Vulns)
         /\ siteUp => Audit!Deductions(vs) = Owes(site, a, k)
         /\ a = "compliance" /\ k = 1 /\ ~siteUp => Audit!Deductions(vs) = 40
         /\ k = 2 /\ ~siteUp => Audit!Deductions(vs) = 10
<1>2. /\ Audit!Checks[1] = "headers" /\ Audit!Checks[2] = "tls" /\ Audit!Checks[3] = "cors"
      /\ Audit!Checks[4] = "disclosure" /\ Audit!Checks[5] = "xss" /\ Audit!Checks[6] = "listing"
  BY DEF Audit!Checks
<1>5. CASE k = 1
  <2>1. vs = Audit!AnalyzeHeaders(a)
    BY <1>2, <1>5 DEF Audit!Found
  <2>2. CASE a = "analyst"
    <3>1. vs = <<>>
      BY <2>1, <2>2 DEF Audit!AnalyzeHeaders
    <3>a. Owes(site, a, 1) = 0
      BY <2>2, OwesAre
    <3>2. <<>> \in Seq(Vulns) /\ Audit!Deductions(<<>>) = 0
      BY NothingOwes
    <3>3. k # 2
      BY <1>5
    <3> QED
      BY <1>5, <2>2, <3>1, <3>a, <3>2, <3>3
  <2>3. CASE a # "analyst" /\ siteUp
    <3>1. vs = Audit!MissingHeaders(site.hsts, site.headers)
      BY <2>1, <2>3, Zenon DEF Audit!AnalyzeHeaders
    <3>2. site.hsts \in BOOLEAN /\ site.headers \in 0 .. 6
      BY OfSite
    <3>3. /\ Audit!MissingHeaders(site.hsts, site.headers) \in Seq(Vulns)
          /\ Audit!Deductions(Audit!MissingHeaders(site.hsts, site.headers))
               = (IF site.hsts THEN 0 ELSE 10) + 5 * (6 - site.headers)
      BY <3>2, MissingOwe, Zenon
    <3>4. Owes(site, a, 1) = (IF site.hsts THEN 0 ELSE 10) + 5 * (6 - site.headers)
      BY <2>3, OwesAre
    <3> QED
      BY <1>5, <2>3, <3>1, <3>3, <3>4, Zenon
  <2>4. CASE a # "analyst" /\ ~siteUp
    <3>1. vs = Audit!MissingHeaders(FALSE, 0)
      BY <2>1, <2>4, Zenon DEF Audit!AnalyzeHeaders
    <3>2. /\ Audit!MissingHeaders(FALSE, 0) \in Seq(Vulns)
          /\ Audit!Deductions(Audit!MissingHeaders(FALSE, 0)) = 40
      BY NoneAnswered
    <3>3. k # 2
      BY <1>5
    <3> QED
      BY <2>4, <3>1, <3>2, <3>3
  <2> QED
    BY <2>2, <2>3, <2>4
<1>6. CASE k = 2
  <2>1. vs = Audit!AssessTls(a)
    BY <1>2, <1>6 DEF Audit!Found
  <2>2. CASE site.tls = "good" /\ siteUp
    <3>1. vs = <<>> /\ Owes(site, a, 2) = 0
      BY <2>1, <2>2, OwesAre DEF Audit!AssessTls
    <3>2. vs \in Seq(Vulns) /\ Audit!Deductions(vs) = 0
      BY <3>1, NothingOwes, Zenon
    <3> QED
      BY <1>6, <2>2, <3>1, <3>2
  <2>3. CASE ~(site.tls = "good" /\ siteUp)
    <3>1. PICK v : v = Audit!Vuln("high", "use TLS 1.2")
      OBVIOUS
    <3>2. v \in Vulns /\ v.severity = "high"
      BY <3>1 DEF Vulns, Audit!Vuln, Texts
    <3>3. vs = <<v>>
      BY <2>1, <2>3, <3>1, Zenon DEF Audit!AssessTls
    <3>4. Alike(vs, 1, "high")
      BY <3>2, <3>3 DEF Alike
    <3>5. vs \in Seq(Vulns) /\ Audit!Deductions(vs) = 10
      BY <3>4, AlikeOwe
    <3> QED
      BY <1>6, <2>3, <3>5 DEF Owes
  <2> QED
    BY <2>2, <2>3
<1>7. CASE k = 3
  <2>1. PICK m : m = IF siteUp /\ site.cors THEN 1 ELSE 0
    OBVIOUS
  <2>2. vs = Audit!CheckCors
    BY <1>2, <1>7 DEF Audit!Found
  <2>3. vs = Audit!Repeat(m, Audit!Vuln("high", "restrict origins"))
    BY <2>1, <2>2, Zenon DEF Audit!CheckCors
  <2>4. m \in Nat
    BY <2>1, OfSite
  <2>5. Alike(vs, m, "high")
    BY <2>3, <2>4, RepeatAlike DEF Texts
  <2>6. vs \in Seq(Vulns) /\ Audit!Deductions(vs) = 10 * m
    BY <2>4, <2>5, AlikeOwe
  <2> QED
    BY <1>7, <2>1, <2>6 DEF Owes
<1>8. CASE k = 4
  <2>1. PICK m : m = IF siteUp THEN site.named ELSE 0
    OBVIOUS
  <2>2. vs = Audit!CheckInfoDisclosure
    BY <1>2, <1>8 DEF Audit!Found
  <2>3. vs = Audit!Repeat(m, Audit!Vuln("low", "mask the server"))
    BY <2>1, <2>2, Zenon DEF Audit!CheckInfoDisclosure
  <2>4. m \in Nat
    BY <2>1, OfSite
  <2>5. Alike(vs, m, "low")
    BY <2>3, <2>4, RepeatAlike DEF Texts
  <2>6. vs \in Seq(Vulns) /\ Audit!Deductions(vs) = 2 * m
    BY <2>4, <2>5, AlikeOwe
  <2> QED
    BY <1>8, <2>1, <2>6 DEF Owes
<1>9. CASE k = 5
  <2>1. PICK m : m = IF siteUp /\ site.xss THEN 1 ELSE 0
    OBVIOUS
  <2>2. vs = Audit!EvaluateXss
    BY <1>2, <1>9 DEF Audit!Found
  <2>3. vs = Audit!Repeat(m, Audit!Vuln("critical", "encode input"))
    BY <2>1, <2>2, Zenon DEF Audit!EvaluateXss
  <2>4. m \in Nat
    BY <2>1, OfSite
  <2>5. Alike(vs, m, "critical")
    BY <2>3, <2>4, RepeatAlike DEF Texts
  <2>6. vs \in Seq(Vulns) /\ Audit!Deductions(vs) = 15 * m
    BY <2>4, <2>5, AlikeOwe
  <2> QED
    BY <1>9, <2>1, <2>6 DEF Owes
<1>10. CASE k = 6
  <2>1. PICK m : m = IF siteUp /\ site.listing THEN 1 ELSE 0
    OBVIOUS
  <2>2. vs = Audit!EvaluateListing
    BY <1>2, <1>10 DEF Audit!Found
  <2>3. vs = Audit!Repeat(m, Audit!Vuln("medium", "disable listing"))
    BY <2>1, <2>2, Zenon DEF Audit!EvaluateListing
  <2>4. m \in Nat
    BY <2>1, OfSite
  <2>5. Alike(vs, m, "medium")
    BY <2>3, <2>4, RepeatAlike DEF Texts
  <2>6. vs \in Seq(Vulns) /\ Audit!Deductions(vs) = 5 * m
    BY <2>4, <2>5, AlikeOwe
  <2> QED
    BY <1>10, <2>1, <2>6 DEF Owes
<1> QED
  BY <1>5, <1>6, <1>7, <1>8, <1>9, <1>10

\* The check that is next: of an agent that has ended, none is left.
At(a) == IF auditStep[a] = 100 THEN 7 ELSE auditStep[a]

AuditType ==
  /\ site = Audit!NoSite \/ site \in Sites
  /\ siteUp \in BOOLEAN /\ outages \in Nat
  /\ auditStep \in [Audit!Assessors -> (0 .. 7) \cup {100}]
  /\ vulnerabilities \in [Audit!Assessors -> Seq(Vulns)]
  /\ deaf \in [Audit!Assessors -> SUBSET {Audit!Checks[k] : k \in 1 .. 6}]
  /\ report = [a \in Audit!Assessors |-> report[a]]

\* While the site answers throughout, what is found owes what the site owes to the checks
\* that were made; a first request that failed owes as much as every header, a connection
\* that failed a tenth.
FoundInv(a) ==
  /\ auditStep[a] = 0 => vulnerabilities[a] = <<>> /\ deaf[a] = {}
  /\ auditStep[a] # 0 => site \in Sites
  /\ outages = 0 => siteUp
  /\ outages = 0 /\ auditStep[a] # 0 =>
       Audit!Deductions(vulnerabilities[a]) = Owed(site, a, At(a))
  /\ a = "compliance" /\ "headers" \in deaf[a] => Audit!Deductions(vulnerabilities[a]) >= 40
  /\ "tls" \in deaf[a] => Audit!Deductions(vulnerabilities[a]) >= 10

\* What a tool judged is about what was found.
JudgedInv(a) ==
  auditStep[a] = 100 /\ report[a].by = "tool" =>
    /\ report[a].score = Audit!SecurityScore(vulnerabilities[a])
    /\ report[a].risk \in Audit!RiskLevels(report[a].score)
    /\ report[a].remedies = Audit!Remedies(vulnerabilities[a])

AuditInv == AuditType /\ \A a \in Audit!Assessors : FoundInv(a) /\ JudgedInv(a)

LEMMA AuditInit == Audit!Init => AuditInv
<1> SUFFICES ASSUME Audit!Init PROVE AuditInv
  OBVIOUS
<1>1. AuditType
  BY DEF Audit!Init, AuditType
<1>2. ASSUME NEW a \in Audit!Assessors PROVE FoundInv(a)
  BY <1>2 DEF Audit!Init, FoundInv
<1>3. ASSUME NEW a \in Audit!Assessors PROVE JudgedInv(a)
  BY <1>3 DEF Audit!Init, JudgedInv
<1> QED
  BY <1>1, <1>2, <1>3 DEF AuditInv

LEMMA SiteGiven ==
  ASSUME AuditInv, NEW s \in Sites, Audit!Target(s)
  PROVE  AuditInv'
<1>1. /\ site = Audit!NoSite /\ site' = s /\ auditStep' = [a \in Audit!Assessors |-> 1]
      /\ UNCHANGED <<siteUp, vulnerabilities, report, consulted, deaf, outages>>
  BY DEF Audit!Target
<1>2. Audit!NoSite \notin Sites
  <2>1. \A t \in Sites : "hsts" \in DOMAIN t
    BY SiteAnswers
  <2>2. DOMAIN Audit!NoSite = {"none"}
    BY DEF Audit!NoSite
  <2> QED
    BY <2>1, <2>2
<1>3. AuditType'
  BY <1>1 DEF AuditInv, AuditType
<1>4. ASSUME NEW a \in Audit!Assessors PROVE FoundInv(a)' /\ JudgedInv(a)'
  <2>1. auditStep[a] = 0 /\ vulnerabilities[a] = <<>> /\ deaf[a] = {}
    BY <1>1, <1>2, <1>4 DEF AuditInv, AuditType, FoundInv
  <2>2. auditStep'[a] = 1 /\ At(a)' = 1
    BY <1>1, <1>4 DEF At
  <2>3. Owed(s, a, 1) = 0
    BY OwedGrows
  <2>4. Audit!Deductions(vulnerabilities[a]) = 0
    BY <2>1, NothingOwes, Zenon
  <2>5. FoundInv(a)'
    BY <1>1, <1>4, <2>1, <2>2, <2>3, <2>4 DEF AuditInv, FoundInv
  <2>6. JudgedInv(a)'
    BY <2>2 DEF JudgedInv
  <2> QED
    BY <2>5, <2>6
<1> QED
  BY <1>3, <1>4 DEF AuditInv

LEMMA CheckMade ==
  ASSUME AuditInv, NEW a \in Audit!Assessors, Audit!Check(a)
  PROVE  AuditInv'
<1>1. PICK k, vs : k = auditStep[a] /\ vs = Audit!Found(a, Audit!Checks[k])
  OBVIOUS
<1>2. DOMAIN Audit!Checks = 1 .. 6 /\ Len(Audit!Checks) = 6
  BY DEF Audit!Checks
<1>3. k \in 1 .. 6 /\ site \in Sites /\ siteUp \in BOOLEAN
  BY <1>1, <1>2 DEF Audit!Check, AuditInv, FoundInv, AuditType
<1>4. /\ vs \in Seq(Vulns)
      /\ siteUp => Audit!Deductions(vs) = Owes(site, a, k)
      /\ a = "compliance" /\ k = 1 /\ ~siteUp => Audit!Deductions(vs) = 40
      /\ k = 2 /\ ~siteUp => Audit!Deductions(vs) = 10
  BY <1>1, <1>3, FoundOwes
<1>5. PICK all : all = vulnerabilities[a] \o vs
  OBVIOUS
<1>6. /\ all \in Seq(Vulns)
      /\ Audit!Deductions(vulnerabilities[a]) \in Nat /\ Audit!Deductions(vs) \in Nat
      /\ Audit!Deductions(all) = Audit!Deductions(vulnerabilities[a]) + Audit!Deductions(vs)
  BY <1>4, <1>5, DeductionsConcat DEF AuditInv, AuditType
<1>7. /\ vulnerabilities' = [vulnerabilities EXCEPT ![a] = all]
      /\ auditStep' = [auditStep EXCEPT ![a] = k + 1]
      /\ UNCHANGED <<site, siteUp, report, outages>>
  <2>1. vulnerabilities' = [vulnerabilities EXCEPT ![a] = @ \o Audit!Found(a, Audit!Checks[k])]
    BY <1>1, Zenon DEF Audit!Check
  <2>2. auditStep' = [auditStep EXCEPT ![a] = IF @ = 6 THEN 6 + 1 ELSE @ + 1]
    BY <1>2, Zenon DEF Audit!Check
  <2>3. UNCHANGED <<site, siteUp, report, outages>>
    BY DEF Audit!Check
  <2> QED
    BY <1>1, <1>3, <1>5, <2>1, <2>2, <2>3 DEF AuditInv, AuditType
<1>8. \/ deaf' = deaf
      \/ ~siteUp /\ deaf' = [deaf EXCEPT ![a] = @ \cup {Audit!Checks[k]}]
  <2>1. deaf' = IF siteUp \/ (Audit!Checks[k] = "tls" /\ site.tls = "none") THEN deaf
                ELSE [deaf EXCEPT ![a] = @ \cup {Audit!Checks[k]}]
    BY <1>1, Zenon DEF Audit!Check
  <2> QED
    BY <2>1
<1>9. Audit!Checks[k] \in {Audit!Checks[j] : j \in 1 .. 6}
  BY <1>3
<1>10. AuditType'
  <2>1. deaf' \in [Audit!Assessors -> SUBSET {Audit!Checks[j] : j \in 1 .. 6}]
    <3> DEFINE names == {Audit!Checks[j] : j \in 1 .. 6}
    <3>1. deaf \in [Audit!Assessors -> SUBSET names]
      BY DEF AuditInv, AuditType
    <3>2. Audit!Checks[k] \in names
      BY <1>9
    <3> HIDE DEF names
    <3>3. deaf' \in [Audit!Assessors -> SUBSET names]
      BY <1>8, <3>1, <3>2
    <3> QED
      BY <3>3 DEF names
  <2>2. /\ auditStep' \in [Audit!Assessors -> (0 .. 7) \cup {100}]
        /\ vulnerabilities' \in [Audit!Assessors -> Seq(Vulns)]
    BY <1>3, <1>6, <1>7 DEF AuditInv, AuditType
  <2> QED
    BY <1>3, <1>7, <2>1, <2>2 DEF AuditInv, AuditType
<1>11. ASSUME NEW b \in Audit!Assessors, b # a PROVE FoundInv(b)' /\ JudgedInv(b)'
  <2>1. /\ auditStep'[b] = auditStep[b] /\ vulnerabilities'[b] = vulnerabilities[b]
        /\ deaf'[b] = deaf[b] /\ At(b)' = At(b) /\ UNCHANGED <<site, siteUp, report, outages>>
    BY <1>7, <1>8, <1>11 DEF AuditInv, AuditType, At
  <2> QED
    BY <1>11, <2>1 DEF AuditInv, FoundInv, JudgedInv
<1>12. FoundInv(a)'
  <2>1. /\ auditStep'[a] = k + 1 /\ vulnerabilities'[a] = all /\ At(a) = k /\ At(a)' = k + 1
        /\ auditStep[a] # 0 /\ auditStep'[a] # 0
    BY <1>1, <1>3, <1>7 DEF AuditInv, AuditType, At
  <2>2. outages = 0 => siteUp
    BY DEF AuditInv, FoundInv
  <2>3. outages = 0 => Audit!Deductions(all) = Owed(site, a, k + 1)
    <3>1. outages = 0 => Audit!Deductions(vulnerabilities[a]) = Owed(site, a, k)
      BY <2>1 DEF AuditInv, FoundInv
    <3>2. Owed(site, a, k + 1) = Owed(site, a, k) + Owes(site, a, k)
      BY <1>3, OwedGrows
    <3> QED
      BY <1>4, <1>6, <2>2, <3>1, <3>2
  <2>4. a = "compliance" /\ "headers" \in deaf'[a] => Audit!Deductions(all) >= 40
    <3>1. CASE "headers" \in deaf[a]
      BY <1>6, <3>1 DEF AuditInv, FoundInv
    <3>2. CASE Audit!Checks[k] = "headers" /\ ~siteUp
      <4>1. k = 1
        BY <1>3, <3>2 DEF Audit!Checks
      <4> QED
        BY <1>4, <1>6, <3>2, <4>1
    <3> QED
      BY <1>8, <3>1, <3>2 DEF AuditInv, AuditType
  <2>5. "tls" \in deaf'[a] => Audit!Deductions(all) >= 10
    <3>1. CASE "tls" \in deaf[a]
      BY <1>6, <3>1 DEF AuditInv, FoundInv
    <3>2. CASE Audit!Checks[k] = "tls" /\ ~siteUp
      <4>1. k = 2
        BY <1>3, <3>2 DEF Audit!Checks
      <4> QED
        BY <1>4, <1>6, <3>2, <4>1
    <3> QED
      BY <1>8, <3>1, <3>2 DEF AuditInv, AuditType
  <2> QED
    BY <1>3, <1>7, <2>1, <2>2, <2>3, <2>4, <2>5 DEF FoundInv
<1>13. JudgedInv(a)'
  <2>1. auditStep'[a] # 100
    BY <1>3, <1>7 DEF AuditInv, AuditType
  <2> QED
    BY <2>1 DEF JudgedInv
<1> QED
  BY <1>10, <1>11, <1>12, <1>13 DEF AuditInv

\* An agent that made its checks reports.
LEMMA Reported ==
  ASSUME AuditInv, NEW a \in Audit!Assessors, auditStep[a] = 7, NEW r, Audit!Reports(a, r),
         r.by = "tool" =>
           /\ r.score = Audit!SecurityScore(vulnerabilities[a])
           /\ r.risk \in Audit!RiskLevels(r.score)
           /\ r.remedies = Audit!Remedies(vulnerabilities[a])
  PROVE  AuditInv'
<1>1. /\ report' = [report EXCEPT ![a] = r] /\ auditStep' = [auditStep EXCEPT ![a] = 100]
      /\ UNCHANGED <<site, siteUp, vulnerabilities, deaf, outages>>
  BY DEF Audit!Reports
<1>2. AuditType'
  BY <1>1 DEF AuditInv, AuditType
<1>3. ASSUME NEW b \in Audit!Assessors PROVE FoundInv(b)'
  <2>1. At(b)' = At(b) /\ (auditStep'[b] = 0 <=> auditStep[b] = 0)
    BY <1>1, <1>3 DEF AuditInv, AuditType, At
  <2> QED
    BY <1>1, <1>3, <2>1 DEF AuditInv, FoundInv
<1>4. ASSUME NEW b \in Audit!Assessors, b # a PROVE JudgedInv(b)'
  <2>1. auditStep'[b] = auditStep[b] /\ report'[b] = report[b] /\ vulnerabilities'[b] = vulnerabilities[b]
    BY <1>1, <1>4 DEF AuditInv, AuditType
  <2> QED
    BY <1>4, <2>1 DEF AuditInv, JudgedInv
<1>5. JudgedInv(a)'
  <2>1. report'[a] = r /\ vulnerabilities'[a] = vulnerabilities[a]
    BY <1>1 DEF AuditInv, AuditType
  <2> QED
    BY <2>1 DEF JudgedInv
<1> QED
  BY <1>2, <1>3, <1>4, <1>5 DEF AuditInv

LEMMA AuditStops ==
  ASSUME AuditInv, Audit!Audit \/ Audit!ModelJudges \/ Audit!FallbackJudges
  PROVE  AuditInv'
<1>0. "analyst" \in Audit!Assessors /\ "compliance" \in Audit!Assessors /\ Len(Audit!Checks) = 6
  BY DEF Audit!Assessors, Audit!Checks
<1>1. ASSUME NEW a, NEW risk, risk \in Audit!RiskLevels(Audit!SecurityScore(vulnerabilities[a])), NEW r,
             \/ r = Audit!Judged(a, risk)
             \/ \E o, l, s : r = [Audit!Judged(a, risk) EXCEPT !.overall = o, !.level = l, !.areas = s]
      PROVE  /\ r.score = Audit!SecurityScore(vulnerabilities[a])
             /\ r.risk \in Audit!RiskLevels(r.score)
             /\ r.remedies = Audit!Remedies(vulnerabilities[a])
  <2>1. PICK j, score, remedies : /\ j = Audit!Judged(a, risk)
                                  /\ score = Audit!SecurityScore(vulnerabilities[a])
                                  /\ remedies = Audit!Remedies(vulnerabilities[a])
    OBVIOUS
  <2>2. j = [Audit!NoReport EXCEPT !.by = "tool", !.score = score, !.risk = risk, !.remedies = remedies]
    BY <2>1, Zenon DEF Audit!Judged
  <2>3. j = [by |-> "tool", score |-> score, risk |-> risk, remedies |-> remedies,
             overall |-> 0, level |-> "none", areas |-> {}]
    BY <2>2 DEF Audit!NoReport
  <2>4. r.score = score /\ r.risk = risk /\ r.remedies = remedies
    <3>1. CASE r = Audit!Judged(a, risk)
      <4>1. r = j
        BY <2>1, <3>1
      <4> QED
        BY <2>3, <4>1
    <3>2. CASE \E o, l, s : r = [Audit!Judged(a, risk) EXCEPT !.overall = o, !.level = l, !.areas = s]
      <4>1. PICK o, l, s : r = [j EXCEPT !.overall = o, !.level = l, !.areas = s]
        BY <2>1, <3>2, Zenon
      <4>2. r = [by |-> "tool", score |-> score, risk |-> risk, remedies |-> remedies,
                 overall |-> o, level |-> l, areas |-> s]
        BY <2>3, <4>1
      <4> QED
        BY <4>2
    <3> QED
      BY <1>1, <3>1, <3>2
  <2> QED
    BY <1>1, <2>1, <2>4, Zenon
<1>2. CASE Audit!Audit
  <2>1. auditStep["compliance"] = 7
    <3>1. auditStep["compliance"] = Len(Audit!Checks) + 1
      BY <1>2, Zenon DEF Audit!Audit
    <3> QED
      BY <1>0, <3>1
  <2>2. PICK risk, r, o, l, s :
          /\ risk \in Audit!RiskLevels(Audit!SecurityScore(vulnerabilities["compliance"]))
          /\ r = [Audit!Judged("compliance", risk) EXCEPT !.overall = o, !.level = l, !.areas = s]
          /\ Audit!Reports("compliance", r)
    BY <1>2, Zenon DEF Audit!Audit
  <2> QED
    BY <1>0, <1>1, <2>1, <2>2, Reported, Zenon
<1>3. CASE Audit!ModelJudges
  <2>1. auditStep["analyst"] = 7
    BY <1>0, <1>3 DEF Audit!ModelJudges
  <2>2. PICK risk, r : r = [Audit!NoReport EXCEPT !.by = "model", !.risk = risk]
                       /\ Audit!Reports("analyst", r)
    BY <1>3, Zenon DEF Audit!ModelJudges
  <2>3. r.by = "model"
    BY <2>2 DEF Audit!NoReport
  <2> QED
    BY <1>0, <2>1, <2>2, <2>3, Reported
<1>4. CASE Audit!FallbackJudges
  <2>1. auditStep["analyst"] = 7
    BY <1>0, <1>4 DEF Audit!FallbackJudges
  <2>2. PICK risk, r :
          /\ risk \in Audit!RiskLevels(Audit!SecurityScore(vulnerabilities["analyst"]))
          /\ r = Audit!Judged("analyst", risk) /\ Audit!Reports("analyst", r)
    BY <1>4, Zenon DEF Audit!FallbackJudges
  <2> QED
    BY <1>0, <1>1, <2>1, <2>2, Reported, Zenon
<1> QED
  BY <1>2, <1>3, <1>4

LEMMA AnalystAgain ==
  ASSUME AuditInv, Audit!ModelFails
  PROVE  AuditInv'
<1>0. "analyst" \in Audit!Assessors /\ Len(Audit!Checks) = 6
  BY DEF Audit!Assessors, Audit!Checks
<1>1. /\ auditStep["analyst"] = 7 /\ auditStep' = [auditStep EXCEPT !["analyst"] = 1]
      /\ vulnerabilities' = [vulnerabilities EXCEPT !["analyst"] = <<>>]
      /\ deaf' = [deaf EXCEPT !["analyst"] = {}]
      /\ report' = [report EXCEPT !["analyst"].by = "tool"]
      /\ UNCHANGED <<site, siteUp, outages>>
  BY <1>0 DEF Audit!ModelFails
<1>2. AuditType'
  <2>1. report' = [b \in Audit!Assessors |-> report'[b]]
    BY <1>1 DEF AuditInv, AuditType
  <2>2. deaf' \in [Audit!Assessors -> SUBSET {Audit!Checks[j] : j \in 1 .. 6}]
    BY <1>1 DEF AuditInv, AuditType
  <2>3. vulnerabilities' \in [Audit!Assessors -> Seq(Vulns)]
    BY <1>1, NothingOwes DEF AuditInv, AuditType
  <2> QED
    BY <1>1, <2>1, <2>2, <2>3 DEF AuditInv, AuditType
<1>3. ASSUME NEW b \in Audit!Assessors, b # "analyst" PROVE FoundInv(b)' /\ JudgedInv(b)'
  <2>1. /\ auditStep'[b] = auditStep[b] /\ vulnerabilities'[b] = vulnerabilities[b]
        /\ deaf'[b] = deaf[b] /\ At(b)' = At(b) /\ report'[b] = report[b]
    BY <1>1, <1>3 DEF AuditInv, AuditType, At
  <2> QED
    BY <1>1, <1>3, <2>1 DEF AuditInv, FoundInv, JudgedInv
<1>4. auditStep'["analyst"] = 1 /\ vulnerabilities'["analyst"] = <<>> /\ At("analyst")' = 1
  BY <1>0, <1>1 DEF AuditInv, AuditType, At
<1>5. site \in Sites /\ (outages = 0 => siteUp)
  BY <1>0, <1>1 DEF AuditInv, FoundInv
<1>6. Audit!Deductions(vulnerabilities'["analyst"]) = 0 /\ Owed(site, "analyst", 1) = 0
  <2>1. Audit!Deductions(vulnerabilities'["analyst"]) = 0
    BY <1>4, NothingOwes, Zenon
  <2> QED
    BY <1>5, <2>1, OwedGrows
<1>7. deaf'["analyst"] = {}
  BY <1>0, <1>1 DEF AuditInv, AuditType
<1>8. FoundInv("analyst")' /\ JudgedInv("analyst")'
  BY <1>1, <1>4, <1>5, <1>6, <1>7 DEF FoundInv, JudgedInv
<1> QED
  BY <1>2, <1>3, <1>8 DEF AuditInv

LEMMA SiteChanges ==
  ASSUME AuditInv,
         \/ Audit!Outage \/ Audit!Recovery \/ UNCHANGED auditVars
         \/ \E standard : Audit!CrewConsults(standard)
  PROVE  AuditInv'
<1>1. "analyst" \in Audit!Assessors
  BY DEF Audit!Assessors
<1>2. outages = 0 => siteUp
  BY <1>1 DEF AuditInv, FoundInv
<1>3. /\ UNCHANGED <<site, auditStep, vulnerabilities, report, deaf>>
      /\ siteUp' \in BOOLEAN /\ outages' \in Nat
      /\ outages' = 0 => outages = 0 /\ siteUp'
  <2>1. CASE Audit!Outage
    <3>1. siteUp' = FALSE /\ outages' = outages + 1
      BY <2>1, Zenon DEF Audit!Outage
    <3>2. UNCHANGED <<site, auditStep, vulnerabilities, report, deaf>>
      BY <2>1 DEF Audit!Outage
    <3>3. outages' \in Nat /\ outages' # 0
      BY <3>1 DEF AuditInv, AuditType
    <3>4. siteUp' \in BOOLEAN
      BY <3>1, Zenon
    <3> QED
      BY <3>2, <3>3, <3>4
  <2>2. CASE Audit!Recovery
    <3>1. siteUp' = TRUE /\ outages' = outages
      BY <2>2 DEF Audit!Recovery
    <3>2. UNCHANGED <<site, auditStep, vulnerabilities, report, deaf>>
      BY <2>2 DEF Audit!Recovery
    <3>3. siteUp' /\ siteUp' \in BOOLEAN
      BY <3>1, Zenon
    <3> QED
      BY <3>1, <3>2, <3>3 DEF AuditInv, AuditType
  <2>3. CASE UNCHANGED auditVars
    BY <1>2, <2>3 DEF AuditInv, AuditType, auditVars
  <2>4. CASE \E standard : Audit!CrewConsults(standard)
    BY <1>2, <2>4 DEF AuditInv, AuditType, Audit!CrewConsults
  <2> QED
    BY <2>1, <2>2, <2>3, <2>4
<1>4. AuditType'
  BY <1>3 DEF AuditInv, AuditType
<1>5. ASSUME NEW a \in Audit!Assessors PROVE FoundInv(a)' /\ JudgedInv(a)'
  <2>1. At(a)' = At(a) /\ FoundInv(a) /\ JudgedInv(a)
    BY <1>3, <1>5 DEF AuditInv, At
  <2> QED
    BY <1>3, <2>1 DEF FoundInv, JudgedInv
<1> QED
  BY <1>4, <1>5 DEF AuditInv

LEMMA AuditStep == AuditInv /\ [Audit!Next]_auditVars => AuditInv'
<1> SUFFICES ASSUME AuditInv, Audit!Next \/ UNCHANGED auditVars PROVE AuditInv'
  OBVIOUS
<1>1. CASE \E s \in Sites : Audit!Target(s)
  BY <1>1, SiteGiven
<1>2. CASE \E a \in Audit!Assessors : Audit!Check(a)
  BY <1>2, CheckMade
<1>3. CASE Audit!Audit \/ Audit!ModelJudges \/ Audit!FallbackJudges
  BY <1>3, AuditStops
<1>4. CASE Audit!ModelFails
  BY <1>4, AnalystAgain
<1>5. CASE \/ Audit!Outage \/ Audit!Recovery \/ UNCHANGED auditVars
           \/ \E standard : Audit!CrewConsults(standard)
  BY <1>5, SiteChanges
<1> QED
  BY <1>1, <1>2, <1>3, <1>4, <1>5 DEF Audit!Next

\* Of the checks of a site that answers, each owes its own, and in all less than a hundred.
LEMMA OwedInAll ==
  ASSUME NEW s \in Sites
  PROVE  /\ Owed(s, "analyst", 7) \in 0 .. 44 /\ Owed(s, "compliance", 7) \in 0 .. 84
         /\ Owed(s, "compliance", 7) = Owed(s, "analyst", 7) + Owes(s, "compliance", 1)
<1>1. PICK a0, c0, o2, o3, o4, o5, o6 :
        /\ a0 = Owes(s, "analyst", 1) /\ c0 = Owes(s, "compliance", 1) /\ o2 = Owes(s, "analyst", 2)
        /\ o3 = Owes(s, "analyst", 3) /\ o4 = Owes(s, "analyst", 4)
        /\ o5 = Owes(s, "analyst", 5) /\ o6 = Owes(s, "analyst", 6)
  OBVIOUS
<1>2. /\ a0 = 0 /\ c0 \in 0 .. 40 /\ o2 \in 0 .. 10 /\ o3 \in 0 .. 10
      /\ o4 \in 0 .. 4 /\ o5 \in 0 .. 15 /\ o6 \in 0 .. 5
  BY <1>1, OwesAtMost, OwesAre
<1>3. /\ o2 = Owes(s, "compliance", 2) /\ o3 = Owes(s, "compliance", 3)
      /\ o4 = Owes(s, "compliance", 4) /\ o5 = Owes(s, "compliance", 5)
      /\ o6 = Owes(s, "compliance", 6)
  BY <1>1, OwesAre
<1>4. Owed(s, "analyst", 7) = a0 + o2 + o3 + o4 + o5 + o6
  BY <1>1 DEF Owed
<1>5. Owed(s, "compliance", 7) = c0 + o2 + o3 + o4 + o5 + o6
  BY <1>1, <1>3 DEF Owed
<1>6. a0 + o2 + o3 + o4 + o5 + o6 \in 0 .. 44
  BY <1>2
<1>7. c0 + o2 + o3 + o4 + o5 + o6 \in 0 .. 84
  BY <1>2
<1>8. c0 + o2 + o3 + o4 + o5 + o6 = (a0 + o2 + o3 + o4 + o5 + o6) + c0
  BY <1>2
<1> QED
  BY <1>1, <1>4, <1>5, <1>6, <1>7, <1>8, Zenon

\* Of a site that answers throughout, the agents' scores differ by its missing headers.
LEMMA AuditsAgree == AuditInv => Audit!ScoresAgree
<1> SUFFICES ASSUME AuditInv, outages = 0, Audit!ByTool("analyst"), Audit!ByTool("compliance")
             PROVE  report["analyst"].score = report["compliance"].score
                      + Audit!Deductions(Audit!MissingHeaders(site.hsts, site.headers))
  BY DEF Audit!ScoresAgree
<1>0. "analyst" \in Audit!Assessors /\ "compliance" \in Audit!Assessors
  BY DEF Audit!Assessors
<1>1. ASSUME NEW a \in Audit!Assessors, Audit!ByTool(a)
      PROVE  /\ site \in Sites /\ report[a].score = Audit!SecurityScore(vulnerabilities[a])
             /\ Audit!Deductions(vulnerabilities[a]) = Owed(site, a, 7)
  BY <1>1 DEF Audit!ByTool, Audit!Ended, AuditInv, FoundInv, JudgedInv, At
<1>2. site \in Sites
  BY <1>0, <1>1
<1>3. ASSUME NEW vs, Audit!Deductions(vs) \in 0 .. 84
      PROVE  Audit!SecurityScore(vs) = 100 - Audit!Deductions(vs)
  <2>1. PICK d : d = Audit!Deductions(vs)
    OBVIOUS
  <2>2. Audit!SecurityScore(vs) = IF 100 - d < 0 THEN 0 ELSE 100 - d
    BY <2>1, Zenon DEF Audit!SecurityScore
  <2> QED
    BY <1>3, <2>1, <2>2
<1>4. PICK x, y, o :
        /\ x = Owed(site, "analyst", 7) /\ y = Owed(site, "compliance", 7)
        /\ o = Owes(site, "compliance", 1)
  OBVIOUS
<1>5. x \in 0 .. 44 /\ y \in 0 .. 84 /\ y = x + o /\ o \in 0 .. 40
  BY <1>2, <1>4, OwedInAll, OwesAtMost
<1>6. report["analyst"].score = 100 - x
  <2>1. PICK vs : vs = vulnerabilities["analyst"]
    OBVIOUS
  <2>2. report["analyst"].score = Audit!SecurityScore(vs) /\ Audit!Deductions(vs) = x
    BY <1>0, <1>1, <1>4, <2>1
  <2>3. Audit!Deductions(vs) \in 0 .. 84
    BY <1>5, <2>2
  <2> QED
    BY <1>3, <2>2, <2>3
<1>7. report["compliance"].score = 100 - y
  <2>1. PICK vs : vs = vulnerabilities["compliance"]
    OBVIOUS
  <2>2. report["compliance"].score = Audit!SecurityScore(vs) /\ Audit!Deductions(vs) = y
    BY <1>0, <1>1, <1>4, <2>1
  <2>3. Audit!Deductions(vs) \in 0 .. 84
    BY <1>5, <2>2
  <2> QED
    BY <1>3, <2>2, <2>3
<1>8. Audit!Deductions(Audit!MissingHeaders(site.hsts, site.headers)) = o
  <2>1. site.hsts \in BOOLEAN /\ site.headers \in 0 .. 6
    BY <1>2, OfSite
  <2>2. Audit!Deductions(Audit!MissingHeaders(site.hsts, site.headers))
          = (IF site.hsts THEN 0 ELSE 10) + 5 * (6 - site.headers)
    BY <2>1, MissingOwe, Zenon
  <2>3. o = (IF site.hsts THEN 0 ELSE 10) + 5 * (6 - site.headers)
    BY <1>4, OwesAre
  <2> QED
    BY <2>2, <2>3, Zenon
<1>9. 100 - x = 100 - y + o
  BY <1>5
<1> QED
  BY <1>6, <1>7, <1>8, <1>9, Zenon

\* A first request that failed owes forty, which leaves sixty at most: a high risk. A
\* connection that failed owes ten.
LEMMA SilenceFound == AuditInv => Audit!SilenceCounted
<1> SUFFICES ASSUME AuditInv, NEW a \in Audit!Assessors, Audit!ByTool(a)
             PROVE  /\ "tls" \in deaf[a] => report[a].score <= 90
                    /\ a = "compliance" /\ "headers" \in deaf[a]
                         => report[a].risk \in {"high", "critical"}
  BY DEF Audit!SilenceCounted, Audit!Assessors
<1>1. PICK vs, d, score :
        /\ vs = vulnerabilities[a] /\ d = Audit!Deductions(vs) /\ score = Audit!SecurityScore(vs)
  OBVIOUS
<1>2. /\ report[a].score = score /\ report[a].risk \in Audit!RiskLevels(score)
      /\ "tls" \in deaf[a] => d >= 10
      /\ a = "compliance" /\ "headers" \in deaf[a] => d >= 40
      /\ vs \in Seq(Vulns)
  BY <1>1 DEF Audit!ByTool, Audit!Ended, AuditInv, AuditType, FoundInv, JudgedInv
<1>3. d \in Nat
  BY <1>1, <1>2, DeductionsConcat
<1>4. score = IF 100 - d < 0 THEN 0 ELSE 100 - d
  BY <1>1, Zenon DEF Audit!SecurityScore
<1>5. "tls" \in deaf[a] => score <= 90
  BY <1>2, <1>3, <1>4
<1>6. ASSUME a = "compliance", "headers" \in deaf[a]
      PROVE  report[a].risk \in {"high", "critical"}
  <2>1. score \in Int /\ score <= 60
    BY <1>2, <1>3, <1>4, <1>6
  <2>2. Audit!RiskLevels(score) \subseteq {"high", "critical"}
    BY <2>1 DEF Audit!RiskLevels
  <2> QED
    BY <1>2, <2>2
<1> QED
  BY <1>2, <1>5, <1>6

\* The indices of a list of vulnerabilities are in an order, the severest first, those of
\* one severity as they come.
AheadIn(vs, D) == {b \in D \X D : Audit!Before(vs, b[1], b[2])}
Ahead(vs) == AheadIn(vs, DOMAIN vs)

LEMMA AheadOrders ==
  ASSUME NEW vs \in Seq(Vulns)
  PROVE  /\ IsFiniteSet(DOMAIN vs)
         /\ \A i \in DOMAIN vs : Audit!Rank(vs[i]) \in 1 .. 4
         /\ \A i, j \in DOMAIN vs : <<i, j>> \in Ahead(vs) <=> Audit!Before(vs, i, j)
         /\ \A i, j \in DOMAIN vs : <<i, j>> \in Ahead(vs) => Audit!Rank(vs[i]) <= Audit!Rank(vs[j])
         /\ \A i, j \in DOMAIN vs : Audit!Rank(vs[i]) < Audit!Rank(vs[j]) => <<i, j>> \in Ahead(vs)
         /\ \A i \in DOMAIN vs : <<i, i>> \notin Ahead(vs)
         /\ \A i, j \in DOMAIN vs : i # j => <<i, j>> \in Ahead(vs) \/ <<j, i>> \in Ahead(vs)
         /\ \A i, j, l \in DOMAIN vs :
              <<i, j>> \in Ahead(vs) /\ <<j, l>> \in Ahead(vs) => <<i, l>> \in Ahead(vs)
<1>1. DOMAIN vs = 1 .. Len(vs) /\ Len(vs) \in Nat /\ \A i \in DOMAIN vs : vs[i] \in Vulns
  BY LenProperties
<1>2. IsFiniteSet(DOMAIN vs)
  <2>1. PICK n \in Nat : n = Len(vs)
    BY <1>1
  <2>2. IsFiniteSet(1 .. n)
    BY FS_Interval
  <2> QED
    BY <1>1, <2>1, <2>2
<1>3. \A v \in Vulns : Audit!Rank(v) \in 1 .. 4
  <2>1. /\ Audit!Order["critical"] = 1 /\ Audit!Order["high"] = 2
        /\ Audit!Order["medium"] = 3 /\ Audit!Order["low"] = 4
    BY DEF Audit!Order
  <2> QED
    BY <2>1 DEF Vulns, Audit!Rank
<1> DEFINE rank(i) == Audit!Rank(vs[i])
<1>4. \A i \in DOMAIN vs : rank(i) \in Int /\ rank(i) \in 1 .. 4 /\ i \in Int
  BY <1>1, <1>3
<1>a. ASSUME NEW i \in DOMAIN vs, NEW j \in DOMAIN vs
      PROVE  /\ <<i, j>> \in Ahead(vs) <=> Audit!Before(vs, i, j)
             /\ Audit!Before(vs, i, j) <=> (rank(i) < rank(j) \/ (rank(i) = rank(j) /\ i < j))
  <2> DEFINE D == DOMAIN vs
  <2>0. Ahead(vs) = {b \in D \X D : Audit!Before(vs, b[1], b[2])}
    BY DEF Ahead, AheadIn
  <2>1. D = DOMAIN vs
    OBVIOUS
  <2> HIDE DEF D
  <2>2. Audit!Before(vs, i, j) <=> (rank(i) < rank(j) \/ (rank(i) = rank(j) /\ i < j))
    BY Zenon DEF Audit!Before
  <2>3. ASSUME NEW x \in D, NEW y \in D
        PROVE  <<x, y>> \in {b \in D \X D : Audit!Before(vs, b[1], b[2])} <=> Audit!Before(vs, x, y)
    OBVIOUS
  <2>4. <<i, j>> \in Ahead(vs) <=> Audit!Before(vs, i, j)
    <3>1. i \in D /\ j \in D
      BY <2>1
    <3>2. <<i, j>> \in {b \in D \X D : Audit!Before(vs, b[1], b[2])} <=> Audit!Before(vs, i, j)
      BY <2>3, <3>1, Zenon
    <3> QED
      BY <3>2, <2>0, Zenon
  <2> QED
    BY <2>2, <2>4, Zenon
<1>5. \A i, j \in DOMAIN vs :
        <<i, j>> \in Ahead(vs) <=> (rank(i) < rank(j) \/ (rank(i) = rank(j) /\ i < j))
  BY <1>a, Zenon
<1>6. \A i, j \in DOMAIN vs : <<i, j>> \in Ahead(vs) <=> Audit!Before(vs, i, j)
  BY <1>a, Zenon
<1> HIDE DEF rank
<1>7. /\ \A i, j \in DOMAIN vs : <<i, j>> \in Ahead(vs) => rank(i) <= rank(j)
      /\ \A i, j \in DOMAIN vs : rank(i) < rank(j) => <<i, j>> \in Ahead(vs)
      /\ \A i \in DOMAIN vs : <<i, i>> \notin Ahead(vs)
  BY <1>4, <1>5
<1>8. \A i, j \in DOMAIN vs : i # j => <<i, j>> \in Ahead(vs) \/ <<j, i>> \in Ahead(vs)
  BY <1>4, <1>5
<1>9. ASSUME NEW i \in DOMAIN vs, NEW j \in DOMAIN vs, NEW l \in DOMAIN vs,
             <<i, j>> \in Ahead(vs), <<j, l>> \in Ahead(vs)
      PROVE  <<i, l>> \in Ahead(vs)
  <2>1. rank(i) < rank(j) \/ (rank(i) = rank(j) /\ i < j)
    BY <1>5, <1>9
  <2>2. rank(j) < rank(l) \/ (rank(j) = rank(l) /\ j < l)
    BY <1>5, <1>9
  <2>3. rank(i) < rank(l) \/ (rank(i) = rank(l) /\ i < l)
    BY <1>4, <2>1, <2>2
  <2> QED
    BY <1>5, <2>3
<1> QED
  BY <1>2, <1>4, <1>6, <1>7, <1>8, <1>9 DEF rank

\* Each set of indices has places in that order.
Seat(vs, P) == [i \in P |-> Cardinality({j \in P : <<j, i>> \in Ahead(vs)})]

LEMMA Seated ==
  ASSUME NEW vs \in Seq(Vulns), NEW P, P \subseteq DOMAIN vs
  PROVE  /\ IsFiniteSet(P) /\ Cardinality(P) \in Nat
         /\ \A i \in P : Seat(vs, P)[i] \in 0 .. Cardinality(P) - 1
         /\ \A i, j \in P : <<i, j>> \in Ahead(vs) => Seat(vs, P)[i] < Seat(vs, P)[j]
         /\ \A i, j \in P : Seat(vs, P)[i] = Seat(vs, P)[j] => i = j
         /\ \A n \in 0 .. Cardinality(P) - 1 : \E i \in P : Seat(vs, P)[i] = n
<1>1. IsFiniteSet(P)
  BY AheadOrders, FS_Subset
<1>2. PICK R, seat : R = Ahead(vs) /\ seat = Seat(vs, P)
  OBVIOUS
<1>3. Ranked(P, R, seat)
  <2>1. seat = [i \in P |-> Cardinality({j \in P : <<j, i>> \in R})]
    BY <1>2 DEF Seat
  <2>2. /\ \A i \in P : <<i, i>> \notin R
        /\ \A i, j \in P : i # j => <<i, j>> \in R \/ <<j, i>> \in R
        /\ \A i, j, l \in P : <<i, j>> \in R /\ <<j, l>> \in R => <<i, l>> \in R
    BY <1>2, AheadOrders
  <2> QED
    BY <2>1, <2>2 DEF Ranked
<1>4. /\ \A i \in P : seat[i] \in 0 .. Cardinality(P) - 1
      /\ \A i, j \in P : <<i, j>> \in R => seat[i] < seat[j]
      /\ \A i, j \in P : seat[i] = seat[j] => i = j
      /\ \A n \in 0 .. Cardinality(P) - 1 : \E i \in P : seat[i] = n
  BY <1>1, <1>3, Places
<1>5. Cardinality(P) \in Nat
  BY <1>1, FS_CardinalityType
<1> QED
  BY <1>1, <1>2, <1>4, <1>5

\* The first of the vulnerabilities that ask for a remedy is as severe as any of them.
LEMMA FirstAre ==
  ASSUME NEW vs \in Seq(Vulns)
  PROVE  /\ Audit!FirstOf(vs) \subseteq DOMAIN vs
         /\ \A i \in Audit!FirstOf(vs), j \in DOMAIN vs :
              vs[j].remedy = vs[i].remedy => <<j, i>> \notin Ahead(vs)
         /\ \A j \in DOMAIN vs : \E i \in Audit!FirstOf(vs) : vs[i].remedy = vs[j].remedy
<1>1. \A i, j \in DOMAIN vs : <<i, j>> \in Ahead(vs) <=> Audit!Before(vs, i, j)
  BY AheadOrders
<1>2. \A i \in DOMAIN vs : i \in Audit!FirstOf(vs) <=>
        \A j \in DOMAIN vs : <<j, i>> \in Ahead(vs) => vs[j].remedy # vs[i].remedy
  BY <1>1, Zenon DEF Audit!FirstOf
<1>3. Audit!FirstOf(vs) \subseteq DOMAIN vs
  BY Zenon DEF Audit!FirstOf
<1>4. ASSUME NEW j \in DOMAIN vs PROVE \E i \in Audit!FirstOf(vs) : vs[i].remedy = vs[j].remedy
  <2> DEFINE P == {i \in DOMAIN vs : vs[i].remedy = vs[j].remedy}
  <2>1. P \subseteq DOMAIN vs /\ j \in P
    OBVIOUS
  <2>2. IsFiniteSet(P) /\ Cardinality(P) \in Nat /\ Cardinality(P) # 0
    <3>1. IsFiniteSet(P) /\ Cardinality(P) \in Nat
      BY <2>1, Seated, Zenon
    <3> HIDE DEF P
    <3>2. Cardinality(P) # 0
      BY <2>1, <3>1, FS_EmptySet
    <3> QED
      BY <3>1, <3>2
  <2>3. PICK i \in P : Seat(vs, P)[i] = 0
    <3> HIDE DEF P
    <3>1. 0 \in 0 .. Cardinality(P) - 1
      BY <2>2
    <3> QED
      BY <2>1, <3>1, Seated, Zenon
  <2>4. \A l \in P : <<l, i>> \notin Ahead(vs)
    <3> HIDE DEF P
    <3> SUFFICES ASSUME NEW l \in P, <<l, i>> \in Ahead(vs) PROVE FALSE
      OBVIOUS
    <3>1. Seat(vs, P)[l] < Seat(vs, P)[i] /\ Seat(vs, P)[l] \in 0 .. Cardinality(P) - 1
      BY <2>1, Seated
    <3> QED
      BY <2>2, <2>3, <3>1
  <2>5. i \in Audit!FirstOf(vs)
    BY <1>2, <2>4
  <2> QED
    BY <2>5
<1> QED
  BY <1>2, <1>3, <1>4

\* A list of remedies names the n-th of them at the n-th place.
LEMMA RemediesAre ==
  ASSUME NEW vs \in Seq(Vulns)
  PROVE  LET first == Audit!FirstOf(vs) rs == Audit!Remedies(vs) IN
         /\ DOMAIN rs = 1 .. Cardinality(first) /\ Cardinality(first) \in Nat
         /\ \A n \in DOMAIN rs : \E i \in first : Seat(vs, first)[i] = n - 1 /\ rs[n] = vs[i].remedy
         /\ \A i \in first : \E n \in DOMAIN rs : Seat(vs, first)[i] = n - 1 /\ rs[n] = vs[i].remedy
<1> DEFINE first == Audit!FirstOf(vs)
           place == [i \in first |-> Audit!Cardinality({j \in first : Audit!Before(vs, j, i)})]
<1>0. Audit!Remedies(vs) =
        [n \in 1 .. Audit!Cardinality(first) |-> vs[CHOOSE i \in first : place[i] = n - 1].remedy]
  BY Zenon DEF Audit!Remedies
<1>1. place = [i \in first |-> Audit!Cardinality({j \in first : Audit!Before(vs, j, i)})]
  OBVIOUS
<1>2. first \subseteq DOMAIN vs
  BY FirstAre
<1> HIDE DEF first, place
<1>3. \A S : Audit!Cardinality(S) = Cardinality(S)
  BY DEF Audit!Cardinality, Cardinality
<1>4. PICK seat : seat = Seat(vs, first)
  OBVIOUS
<1>5. /\ Cardinality(first) \in Nat
      /\ \A i \in first : seat[i] \in 0 .. Cardinality(first) - 1
      /\ \A i, j \in first : seat[i] = seat[j] => i = j
      /\ \A n \in 0 .. Cardinality(first) - 1 : \E i \in first : seat[i] = n
  BY <1>2, <1>4, Seated
<1>a. \A i \in first : place[i] = seat[i]
  <2>1. \A i, j \in first : <<j, i>> \in Ahead(vs) <=> Audit!Before(vs, j, i)
    BY <1>2, AheadOrders
  <2>2. \A i \in first : {j \in first : <<j, i>> \in Ahead(vs)} = {j \in first : Audit!Before(vs, j, i)}
    BY <2>1
  <2>3. \A i \in first : seat[i] = Cardinality({j \in first : <<j, i>> \in Ahead(vs)})
    BY <1>4 DEF Seat
  <2>4. \A i \in first : place[i] = Audit!Cardinality({j \in first : Audit!Before(vs, j, i)})
    BY <1>1
  <2> QED
    BY <1>3, <2>2, <2>3, <2>4, Zenon
<1>6. PICK rs : rs = Audit!Remedies(vs)
  OBVIOUS
<1>7. DOMAIN rs = 1 .. Cardinality(first)
  BY <1>0, <1>3, <1>6
<1>8. ASSUME NEW i \in first, NEW n \in 1 .. Cardinality(first), seat[i] = n - 1
      PROVE  rs[n] = vs[i].remedy
  <2>1. (CHOOSE l \in first : place[l] = n - 1) = i
    BY <1>5, <1>8, <1>a
  <2>2. rs[n] = vs[CHOOSE l \in first : place[l] = n - 1].remedy
    BY <1>0, <1>3, <1>6, <1>8
  <2> QED
    BY <2>1, <2>2, Zenon
<1>9. ASSUME NEW n \in DOMAIN rs PROVE \E i \in first : seat[i] = n - 1 /\ rs[n] = vs[i].remedy
  <2>1. n \in 1 .. Cardinality(first) /\ n - 1 \in 0 .. Cardinality(first) - 1
    BY <1>5, <1>7, <1>9
  <2>2. PICK i \in first : seat[i] = n - 1
    BY <1>5, <2>1
  <2> QED
    BY <1>8, <2>1, <2>2
<1>10. ASSUME NEW i \in first PROVE \E n \in DOMAIN rs : seat[i] = n - 1 /\ rs[n] = vs[i].remedy
  <2>1. PICK n : n = seat[i] + 1
    OBVIOUS
  <2>2. n \in 1 .. Cardinality(first) /\ seat[i] = n - 1
    BY <1>5, <2>1
  <2> QED
    BY <1>7, <1>8, <2>2
<1> QED
  BY <1>4, <1>5, <1>6, <1>7, <1>9, <1>10, Zenon DEF first

\* How severe a finding a remedy is for, at worst, is what the first of its findings says.
Worst(vs, r) ==
  CHOOSE n \in 1 .. 4 :
    /\ \E i \in DOMAIN vs : vs[i] = Audit!Vuln(Audit!Severities[n], r)
    /\ \A m \in 1 .. n - 1 : \A i \in DOMAIN vs : vs[i] # Audit!Vuln(Audit!Severities[m], r)

LEMMA WorstIs ==
  ASSUME NEW vs \in Seq(Vulns), NEW i \in Audit!FirstOf(vs), NEW r, r = vs[i].remedy
  PROVE  Worst(vs, r) = Audit!Rank(vs[i])
<1>1. i \in DOMAIN vs /\ \A j \in DOMAIN vs : vs[j].remedy = r => <<j, i>> \notin Ahead(vs)
  BY FirstAre
<1>2. \A j \in DOMAIN vs : vs[j] \in Vulns
  OBVIOUS
<1>3. PICK rank : rank = Audit!Rank(vs[i])
  OBVIOUS
<1>4. /\ Audit!Severities[1] = "critical" /\ Audit!Severities[2] = "high"
      /\ Audit!Severities[3] = "medium" /\ Audit!Severities[4] = "low"
  BY DEF Audit!Severities
<1>5. /\ Audit!Order["critical"] = 1 /\ Audit!Order["high"] = 2
      /\ Audit!Order["medium"] = 3 /\ Audit!Order["low"] = 4
  BY DEF Audit!Order
<1>6. ASSUME NEW v \in Vulns, NEW n \in 1 .. 4
      PROVE  v = Audit!Vuln(Audit!Severities[n], r) <=> v.remedy = r /\ Audit!Rank(v) = n
  <2>1. v = [severity |-> v.severity, remedy |-> v.remedy] /\ v.severity \in {"critical", "high", "medium", "low"}
    BY DEF Vulns
  <2>2. Audit!Rank(v) = Audit!Order[v.severity]
    BY DEF Audit!Rank
  <2>3. v.severity = Audit!Severities[n] <=> Audit!Rank(v) = n
    <3>1. n = 1 \/ n = 2 \/ n = 3 \/ n = 4
      OBVIOUS
    <3> QED
      BY <1>4, <1>5, <2>1, <2>2, <3>1
  <2>4. PICK w, s : s = Audit!Severities[n] /\ w = Audit!Vuln(s, r)
    OBVIOUS
  <2>5. w = [severity |-> s, remedy |-> r]
    BY <2>4 DEF Audit!Vuln
  <2>6. v = w <=> v.severity = s /\ v.remedy = r
    BY <2>1, <2>5
  <2> QED
    BY <2>3, <2>4, <2>6
<1>7. rank \in 1 .. 4 /\ \A j \in DOMAIN vs : Audit!Rank(vs[j]) \in 1 .. 4
  BY <1>1, <1>3, AheadOrders
<1>8. \A j \in DOMAIN vs : vs[j].remedy = r => rank <= Audit!Rank(vs[j])
  <2> SUFFICES ASSUME NEW j \in DOMAIN vs, vs[j].remedy = r PROVE rank <= Audit!Rank(vs[j])
    OBVIOUS
  <2>1. PICK other : other = Audit!Rank(vs[j])
    OBVIOUS
  <2>2. other < rank => <<j, i>> \in Ahead(vs)
    BY <1>1, <1>3, <2>1, AheadOrders
  <2>3. <<j, i>> \notin Ahead(vs)
    BY <1>1
  <2>4. rank \in 1 .. 4 /\ other \in 1 .. 4
    BY <1>7, <2>1
  <2> QED
    BY <2>1, <2>2, <2>3, <2>4
<1> DEFINE Is(n) == /\ \E j \in DOMAIN vs : vs[j] = Audit!Vuln(Audit!Severities[n], r)
                    /\ \A m \in 1 .. n - 1 : \A j \in DOMAIN vs :
                         vs[j] # Audit!Vuln(Audit!Severities[m], r)
<1>9. Is(rank)
  <2>1. vs[i] = Audit!Vuln(Audit!Severities[rank], r)
    BY <1>1, <1>2, <1>3, <1>6, <1>7
  <2>2. ASSUME NEW m \in 1 .. rank - 1, NEW j \in DOMAIN vs
        PROVE  vs[j] # Audit!Vuln(Audit!Severities[m], r)
    <3>1. m \in 1 .. 4 /\ m < rank
      BY <1>7
    <3>2. vs[j] = Audit!Vuln(Audit!Severities[m], r) => vs[j].remedy = r /\ Audit!Rank(vs[j]) = m
      BY <1>2, <1>6, <3>1
    <3> QED
      BY <1>7, <1>8, <3>1, <3>2
  <2> QED
    BY <1>1, <2>1, <2>2
<1>10. ASSUME NEW n \in 1 .. 4, Is(n) PROVE n = rank
  <2>1. PICK j \in DOMAIN vs : vs[j] = Audit!Vuln(Audit!Severities[n], r)
    BY <1>10
  <2>2. vs[j].remedy = r /\ Audit!Rank(vs[j]) = n
    BY <1>2, <1>6, <2>1
  <2>3. rank <= n
    BY <1>8, <2>2
  <2>4. CASE rank < n
    <3>1. rank \in 1 .. n - 1
      BY <1>7, <2>4
    <3>2. vs[i] # Audit!Vuln(Audit!Severities[rank], r)
      BY <1>1, <1>10, <3>1
    <3> QED
      BY <1>1, <1>2, <1>3, <1>6, <1>7, <3>2
  <2> QED
    BY <1>7, <2>3, <2>4
<1> HIDE DEF Is
<1>11. (CHOOSE n \in 1 .. 4 : Is(n)) = rank
  BY <1>7, <1>9, <1>10
<1> QED
  BY <1>3, <1>11, Zenon DEF Is, Worst

LEMMA RankedFor ==
  ASSUME AuditInv, NEW a \in Audit!Assessors, Audit!ByTool(a)
  PROVE  LET vs == vulnerabilities[a]  rs == report[a].remedies
             asked == {vs[i].remedy : i \in DOMAIN vs}
             worst == [r \in asked |-> CHOOSE n \in 1 .. 4 :
                         /\ \E i \in DOMAIN vs : vs[i] = Audit!Vuln(Audit!Severities[n], r)
                         /\ \A m \in 1 .. n - 1 : \A i \in DOMAIN vs :
                              vs[i] # Audit!Vuln(Audit!Severities[m], r)]
         IN /\ {rs[i] : i \in DOMAIN rs} = asked
            /\ \A i, j \in DOMAIN rs : i < j => rs[i] # rs[j] /\ worst[rs[i]] <= worst[rs[j]]
<1> DEFINE vs == vulnerabilities[a]
           rs == report[a].remedies
           asked == {vs[i].remedy : i \in DOMAIN vs}
           worst == [r \in asked |-> CHOOSE n \in 1 .. 4 :
                       /\ \E i \in DOMAIN vs : vs[i] = Audit!Vuln(Audit!Severities[n], r)
                       /\ \A m \in 1 .. n - 1 : \A i \in DOMAIN vs :
                            vs[i] # Audit!Vuln(Audit!Severities[m], r)]
           first == Audit!FirstOf(vs)
           seat == Seat(vs, first)
<1>1. vs \in Seq(Vulns) /\ rs = Audit!Remedies(vs)
  BY DEF AuditInv, AuditType, JudgedInv, Audit!ByTool, Audit!Ended
<1>2. first = Audit!FirstOf(vs) /\ seat = Seat(vs, first) /\ asked = {vs[i].remedy : i \in DOMAIN vs}
  OBVIOUS
<1>a. \A r \in asked : worst[r] = Worst(vs, r)
  BY Zenon DEF Worst
<1> HIDE DEF vs, rs, asked, worst
<1>3. /\ DOMAIN rs = 1 .. Cardinality(first) /\ Cardinality(first) \in Nat
      /\ \A n \in DOMAIN rs : \E i \in first : seat[i] = n - 1 /\ rs[n] = vs[i].remedy
      /\ \A i \in first : \E n \in DOMAIN rs : seat[i] = n - 1 /\ rs[n] = vs[i].remedy
  <2>1. LET all == Audit!Remedies(vs) IN
        /\ DOMAIN all = 1 .. Cardinality(first) /\ Cardinality(first) \in Nat
        /\ \A n \in DOMAIN all : \E i \in first : seat[i] = n - 1 /\ all[n] = vs[i].remedy
        /\ \A i \in first : \E n \in DOMAIN all : seat[i] = n - 1 /\ all[n] = vs[i].remedy
    BY <1>1, RemediesAre, Zenon
  <2> HIDE DEF first, seat
  <2> QED
    BY <1>1, <2>1
<1> HIDE DEF first, seat
<1>4. /\ first \subseteq DOMAIN vs
      /\ \A i \in first, j \in DOMAIN vs : vs[j].remedy = vs[i].remedy => <<j, i>> \notin Ahead(vs)
      /\ \A j \in DOMAIN vs : \E i \in first : vs[i].remedy = vs[j].remedy
  BY <1>1, <1>2, FirstAre
<1>5. {rs[i] : i \in DOMAIN rs} = asked
  <2>1. \A n \in DOMAIN rs : rs[n] \in asked
    BY <1>2, <1>3, <1>4
  <2>2. \A x \in asked : \E n \in DOMAIN rs : rs[n] = x
    <3> TAKE x \in asked
    <3>1. PICK j \in DOMAIN vs : x = vs[j].remedy
      BY <1>2
    <3>2. PICK i \in first : vs[i].remedy = x
      BY <1>4, <3>1
    <3> QED
      BY <1>3, <3>2
  <2> QED
    BY <2>1, <2>2
<1>6. \A i \in first : worst[vs[i].remedy] = Audit!Rank(vs[i])
  <2> TAKE i \in first
  <2>1. PICK r : r = vs[i].remedy
    OBVIOUS
  <2>2. r \in asked
    BY <1>2, <1>4, <2>1
  <2>3. worst[r] = Worst(vs, r)
    BY <1>a, <2>2
  <2>4. i \in Audit!FirstOf(vs)
    BY <1>2
  <2>5. Worst(vs, r) = Audit!Rank(vs[i])
    BY <1>1, <2>1, <2>4, WorstIs, Zenon
  <2> QED
    BY <2>1, <2>3, <2>5, Zenon
<1>7. ASSUME NEW m \in DOMAIN rs, NEW n \in DOMAIN rs, m < n
      PROVE  rs[m] # rs[n] /\ worst[rs[m]] <= worst[rs[n]]
  <2>1. PICK i \in first, j \in first :
          seat[i] = m - 1 /\ rs[m] = vs[i].remedy /\ seat[j] = n - 1 /\ rs[n] = vs[j].remedy
    BY <1>3
  <2>2. m \in Int /\ n \in Int
    BY <1>3
  <2>3. i # j
    BY <1>7, <2>1, <2>2
  <2>4. <<j, i>> \notin Ahead(vs)
    <3>1. <<j, i>> \in Ahead(vs) => seat[j] < seat[i]
      BY <1>1, <1>2, <1>4, Seated
    <3> QED
      BY <1>7, <2>1, <2>2, <3>1
  <2>5. <<i, j>> \in Ahead(vs)
    BY <1>1, <1>4, <2>3, <2>4, AheadOrders
  <2>6. rs[m] # rs[n]
    BY <1>4, <2>1, <2>5
  <2>7. Audit!Rank(vs[i]) <= Audit!Rank(vs[j])
    BY <1>1, <1>4, <2>5, AheadOrders
  <2> QED
    BY <1>6, <2>1, <2>6, <2>7
<1> QED
  BY <1>5, <1>7, Zenon DEF vs, rs, asked, worst

\* What a tool recommends is what the findings ask for, each once and the severest first.
LEMMA RankedForAll == AuditInv => Audit!RemediesRanked
  BY RankedFor, Zenon DEF Audit!RemediesRanked

----------------------------------------------------------------------------
(* The placement of agents                                                  *)

\* What holds at 0, and at each number up to N when it does at the one before, holds at
\* all of them: there would be a first at which it does not.
LEMMA CountedUp ==
  ASSUME NEW N \in Nat, NEW T, 0 \in T, \A k \in 1 .. N : k - 1 \in T => k \in T
  PROVE  \A k \in 0 .. N : k \in T
<1> DEFINE R == OpToRel(<, Nat)
           U == {k \in 0 .. N : k \notin T}
<1>1. IsWellFoundedOn(R, Nat)
  BY NatLessThanWellFounded, Zenon
<1>2. \A x, y \in Nat : x < y => <<x, y>> \in R
  BY DEF OpToRel
<1> HIDE DEF R
<1>3. U = {}
  <2> SUFFICES ASSUME U # {} PROVE FALSE
    OBVIOUS
  <2>1. U \subseteq Nat
    OBVIOUS
  <2>2. \E m \in U : \A n \in U : ~ (<<n, m>> \in R)
    <3> HIDE DEF U
    <3> QED
      BY <1>1, <2>1, WFMin, Zenon
  <2>3. PICK m \in U : \A n \in U : ~ (<<n, m>> \in R)
    BY <2>2, Zenon
  <2>4. m \in 1 .. N /\ m - 1 \in 0 .. N /\ m - 1 < m
    BY <2>3
  <2>5. m - 1 \in T
    BY <1>2, <2>1, <2>3, <2>4
  <2> QED
    BY <2>3, <2>4, <2>5
<1> QED
  BY <1>3

\* From a first value and a step, there are the values after as many steps as one likes.
Taken(N, S, base, step, f) ==
  /\ f \in [0 .. N -> S] /\ f[0] = base
  /\ \A k \in 1 .. N : f[k] = step[<<f[k - 1], k>>]

LEMMA StepsTaken ==
  ASSUME NEW N \in Nat, NEW S, NEW base \in S, NEW step \in [S \X (1 .. N) -> S]
  PROVE  \E f : Taken(N, S, base, step, f)
<1> DEFINE T == {k \in 0 .. N : \E f : Taken(k, S, base, step, f)}
<1>1. 0 \in T
  <2>1. Taken(0, S, base, step, [k \in 0 .. 0 |-> base])
    BY DEF Taken
  <2> QED
    BY <2>1
<1>2. ASSUME NEW k \in 1 .. N, k - 1 \in T PROVE k \in T
  <2>1. PICK f : Taken(k - 1, S, base, step, f)
    BY <1>2
  <2>2. f \in [0 .. k - 1 -> S] /\ f[0] = base /\ \A i \in 1 .. k - 1 : f[i] = step[<<f[i - 1], i>>]
    BY <2>1 DEF Taken
  <2> DEFINE g == [i \in 0 .. k |-> IF i = k THEN step[<<f[k - 1], k>>] ELSE f[i]]
  <2>3. step[<<f[k - 1], k>>] \in S
    BY <2>2
  <2>4. g \in [0 .. k -> S] /\ g[0] = base
    BY <2>2, <2>3
  <2>5. ASSUME NEW i \in 1 .. k PROVE g[i] = step[<<g[i - 1], i>>]
    <3>1. g[i - 1] = f[i - 1] /\ i \in 0 .. k
      OBVIOUS
    <3>2. CASE i = k
      <4>1. g[i] = step[<<f[i - 1], i>>]
        BY <3>1, <3>2
      <4> QED
        BY <3>1, <4>1, Zenon
    <3>3. CASE i # k
      <4>1. i \in 1 .. k - 1 /\ g[i] = f[i]
        BY <3>1, <3>3
      <4>2. f[i] = step[<<f[i - 1], i>>]
        BY <2>2, <4>1, Zenon
      <4> QED
        BY <3>1, <4>1, <4>2, Zenon
    <3> QED
      BY <3>2, <3>3
  <2>6. Taken(k, S, base, step, g)
    BY <2>4, <2>5 DEF Taken
  <2> HIDE DEF g
  <2>7. k \in 0 .. N /\ \E h : Taken(k, S, base, step, h)
    BY <2>6
  <2> QED
    BY <2>7, Zenon
<1>3. N \in T
  <2> HIDE DEF T
  <2>1. \A k \in 0 .. N : k \in T
    BY <1>1, <1>2, CountedUp
  <2> QED
    BY <2>1
<1> QED
  BY <1>3

\* In a strict order of a finite set, one is before all others.
LEMMA FirstThere ==
  ASSUME NEW P, IsFiniteSet(P), P # {}, NEW R,
         \A p \in P : <<p, p>> \notin R,
         \A p, q \in P : p # q => <<p, q>> \in R \/ <<q, p>> \in R,
         \A p, q, r \in P : <<p, q>> \in R /\ <<q, r>> \in R => <<p, r>> \in R
  PROVE  \E p \in P : \A q \in P : <<q, p>> \notin R
<1> DEFINE rank == [p \in P |-> Cardinality({o \in P : <<o, p>> \in R})]
<1>1. Ranked(P, R, rank)
  BY DEF Ranked
<1>2. Cardinality(P) \in Nat /\ Cardinality(P) # 0
  BY FS_CardinalityType, FS_EmptySet
<1>3. PICK p \in P : rank[p] = 0
  <2> HIDE DEF rank
  <2>1. 0 \in 0 .. Cardinality(P) - 1
    BY <1>2
  <2>2. \A n \in 0 .. Cardinality(P) - 1 : \E p \in P : rank[p] = n
    BY <1>1, Places
  <2> QED
    BY <2>1, <2>2, Zenon
<1> DEFINE D == {o \in P : <<o, p>> \in R}
<1>4. Cardinality(D) = 0
  BY <1>3
<1>5. IsFiniteSet(D)
  BY FS_Subset
<1>6. D = {}
  <2> HIDE DEF D
  <2> QED
    BY <1>4, <1>5, FS_EmptySet
<1> QED
  BY <1>6

\* Of some numbers, one has the least key, and is the least of those that have it.
LEMMA LeastThere ==
  ASSUME NEW P \in SUBSET Nat, IsFiniteSet(P), P # {}, NEW key, \A p \in P : key[p] \in Int
  PROVE  \E p \in P : \A q \in P : key[p] < key[q] \/ (key[p] = key[q] /\ p <= q)
<1> DEFINE R == {b \in P \X P : key[b[1]] < key[b[2]] \/ (key[b[1]] = key[b[2]] /\ b[1] < b[2])}
<1>1. \A p, q \in P : <<p, q>> \in R <=> (key[p] < key[q] \/ (key[p] = key[q] /\ p < q))
  OBVIOUS
<1> HIDE DEF R
<1>2. /\ \A p \in P : <<p, p>> \notin R
      /\ \A p, q \in P : p # q => <<p, q>> \in R \/ <<q, p>> \in R
      /\ \A p, q, r \in P : <<p, q>> \in R /\ <<q, r>> \in R => <<p, r>> \in R
  BY <1>1
<1>3. PICK p \in P : \A q \in P : <<q, p>> \notin R
  BY <1>2, FirstThere
<1>4. \A q \in P : ~(key[q] < key[p]) /\ ~(key[q] = key[p] /\ q < p)
  BY <1>1, <1>3
<1> QED
  BY <1>4

\* The first of the least key, of some nodes.
LEMMA LeastIs ==
  ASSUME NEW N \in SUBSET FleetNodes, N # {}, NEW key \in [N -> Int]
  PROVE  Placement!Least(N, key) \in N /\ \A m \in N : key[Placement!Least(N, key)] <= key[m]
<1>1. N \in SUBSET Nat /\ IsFiniteSet(N)
  BY FleetPlaces, FS_Subset
<1>2. PICK p \in N : \A m \in N : key[p] < key[m] \/ (key[p] = key[m] /\ p <= m)
  BY <1>1, LeastThere
<1>3. PICK l : l = Placement!Least(N, key)
  OBVIOUS
<1>4. l \in N /\ \A m \in N : key[l] < key[m] \/ (key[l] = key[m] /\ l <= m)
  BY <1>2, <1>3, Zenon DEF Placement!Least
<1>5. \A m \in N : key[l] <= key[m]
  BY <1>4
<1> QED
  BY <1>3, <1>4, <1>5

\* The fleet and the call of a plan.
FleetTyped == fleet \in [FleetNodes -> NodeKinds] /\ call \in Placement!Calls

LEMMA NodeHas ==
  ASSUME FleetTyped, NEW n \in FleetNodes
  PROVE  /\ fleet[n].ready \in BOOLEAN /\ fleet[n].gpus \in Nat /\ fleet[n].cores \in Nat
         /\ fleet[n].free \in Int /\ fleet[n].agents \in Nat
BY FleetPlaces DEF FleetTyped

Strong(n, N) == \A m \in N : Placement!Capacity(n, m) \/ (~Placement!Capacity(m, n) /\ n <= m)

LEMMA StrongestIs ==
  ASSUME FleetTyped, NEW N \in SUBSET FleetNodes, N # {}
  PROVE  Placement!Strongest(N) \in N /\ Strong(Placement!Strongest(N), N)
<1> DEFINE before(p, q) == Placement!Capacity(p, q) \/ (~Placement!Capacity(q, p) /\ p < q)
           R == {b \in N \X N : before(b[1], b[2])}
<1>1. N \subseteq Nat /\ IsFiniteSet(N)
  BY FleetPlaces, FS_Subset
<1>2. \A p, q \in N : <<p, q>> \in R <=> before(p, q)
  <2> HIDE DEF before
  <2> QED
    OBVIOUS
<1>3. /\ \A p \in N : ~before(p, p)
      /\ \A p, q \in N : p # q => before(p, q) \/ before(q, p)
      /\ \A p, q, r \in N : before(p, q) /\ before(q, r) => before(p, r)
  <2>1. \A n \in N : fleet[n].gpus \in Nat /\ fleet[n].cores \in Nat /\ n \in Nat
    BY <1>1, NodeHas
  <2> DEFINE g(n) == fleet[n].gpus
             c(n) == fleet[n].cores
  <2>2. \A p, q \in N : Placement!Capacity(p, q) <=> (g(p) > g(q) \/ (g(p) = g(q) /\ c(p) > c(q)))
    BY DEF Placement!Capacity
  <2>3. \A n \in N : g(n) \in Nat /\ c(n) \in Nat /\ n \in Nat
    BY <2>1
  <2> HIDE DEF g, c
  <2> QED
    BY <2>2, <2>3
<1>4. PICK p \in N : \A q \in N : <<q, p>> \notin R
  <2>1. /\ \A p \in N : <<p, p>> \notin R
        /\ \A p, q \in N : p # q => <<p, q>> \in R \/ <<q, p>> \in R
        /\ \A p, q, r \in N : <<p, q>> \in R /\ <<q, r>> \in R => <<p, r>> \in R
    <3> HIDE DEF R, before
    <3> QED
      BY <1>2, <1>3, Zenon
  <2> HIDE DEF R
  <2> QED
    BY <1>1, <2>1, FirstThere
<1>5. Strong(p, N)
  <2>1. ASSUME NEW m \in N
        PROVE  Placement!Capacity(p, m) \/ (~Placement!Capacity(m, p) /\ p <= m)
    <3>1. CASE m = p
      <4>1. ~before(p, p)
        BY <1>3, Zenon
      <4> QED
        BY <1>1, <3>1, <4>1
    <3>2. CASE m # p
      <4>1. before(p, m)
        <5> HIDE DEF R, before
        <5> QED
          BY <1>2, <1>3, <1>4, <3>2, Zenon
      <4> QED
        BY <1>1, <4>1
    <3> QED
      BY <3>1, <3>2
  <2> QED
    BY <2>1, Zenon DEF Strong
<1> QED
  BY <1>5, Zenon DEF Strong, Placement!Strongest

Plans == [done : BOOLEAN, error : BOOLEAN, at : [PlacedAgents -> FleetNodes \cup {0}],
          warned : SUBSET PlacedAgents]

PutOn(p, a, n, w, q) ==
  /\ q \in Plans /\ q.at = [p.at EXCEPT ![a] = n] /\ q.warned = w.warned
  /\ q.done = p.done /\ q.error = p.error /\ w.warned \in {p.warned, p.warned \cup {a}}

LEMMA PutIs ==
  ASSUME NEW p \in Plans, NEW a \in PlacedAgents, NEW n \in FleetNodes,
         NEW w \in {p, Placement!Warned(p, a)}
  PROVE  PutOn(p, a, n, w, Placement!Put(w, a, n))
<1>1. /\ w \in Plans /\ w.at = p.at /\ w.done = p.done /\ w.error = p.error
      /\ w.warned \in {p.warned, p.warned \cup {a}}
  BY DEF Plans, Placement!Warned
<1> QED
  BY <1>1 DEF PutOn, Plans, Placement!Put

LEMMA LeastLoadedIs ==
  ASSUME FleetTyped, NEW p \in Plans, NEW N \in SUBSET FleetNodes, N # {}
  PROVE  /\ Placement!LeastLoaded(p, N) \in N
         /\ \A m \in N : Placement!Load(p, Placement!LeastLoaded(p, N)) <= Placement!Load(p, m)
<1>1. ASSUME NEW n \in FleetNodes PROVE Placement!Here(p, n) \in Nat /\ Placement!Load(p, n) \in Nat
  <2> DEFINE H == {a \in PlacedAgents : p.at[a] = n}
  <2>1. IsFiniteSet(H)
    BY FleetPlaces, FS_Subset
  <2>2. Cardinality(H) \in Nat
    BY <2>1, FS_CardinalityType
  <2>3. Placement!Here(p, n) = Cardinality(H)
    BY DEF Placement!Here, Placement!Cardinality, Cardinality
  <2> HIDE DEF H
  <2>4. Placement!Here(p, n) \in Nat
    BY <2>2, <2>3
  <2> QED
    BY <2>4, NodeHas DEF Placement!Load
<1> DEFINE key == [n \in N |-> Placement!Load(p, n)]
<1>2. key \in [N -> Int]
  BY <1>1
<1>3. Placement!LeastLoaded(p, N) = Placement!Least(N, key)
  BY DEF Placement!LeastLoaded
<1>4. \A m \in N : key[m] = Placement!Load(p, m)
  OBVIOUS
<1> HIDE DEF key
<1>5. Placement!Least(N, key) \in N /\ \A m \in N : key[Placement!Least(N, key)] <= key[m]
  BY <1>2, LeastIs
<1> QED
  BY <1>3, <1>4, <1>5, Zenon

LEMMA BestGpuIs ==
  ASSUME FleetTyped, NEW N \in SUBSET FleetNodes, N # {}
  PROVE  Placement!BestGpu(N) \in N
<1> DEFINE key == [n \in N |-> -Placement!Score(n)]
<1>1. key \in [N -> Int]
  BY NodeHas, FleetPlaces DEF Placement!Score
<1>2. Placement!BestGpu(N) = Placement!Least(N, key)
  BY DEF Placement!BestGpu
<1> HIDE DEF key
<1> QED
  BY <1>1, <1>2, LeastIs

\* A node fits an agent under the policy that was asked for.
Suits(p, a, n, w) ==
  /\ call.policy # "balanced" /\ Placement!GpuNodes # {} /\ call.needs[a] => Placement!HasGpu(n)
  /\ call.policy = "balanced" =>
       \A m \in Placement!Available : Placement!Load(p, n) <= Placement!Load(p, m)
  /\ call.policy = "cost-aware" /\ Placement!CpuNodes # {} /\ ~call.needs[a] => ~Placement!HasGpu(n)
  /\ call.policy = "lockstep-strict" => n = Placement!Strongest(Placement!Available)
  /\ w # p => call.needs[a] /\ Placement!GpuNodes = {}

\* Among the nodes with a GPU the strongest is the strongest of all.
LEMMA StrongestHasGpu ==
  ASSUME FleetTyped, Placement!GpuNodes # {}
  PROVE  Placement!Strongest(Placement!GpuNodes) = Placement!Strongest(Placement!Available)
<1> DEFINE A == Placement!Available
           G == Placement!GpuNodes
<1>1. A \subseteq FleetNodes /\ G \subseteq A /\ A # {} /\ \A n \in A : n \in G <=> fleet[n].gpus > 0
  BY DEF Placement!GpuNodes, Placement!Available, Placement!Offered, Placement!HasGpu
<1>2. PICK s, t : s = Placement!Strongest(A) /\ t = Placement!Strongest(G)
  OBVIOUS
<1>3. s \in A /\ Strong(s, A) /\ t \in G /\ Strong(t, G)
  <2> HIDE DEF A, G
  <2>1. A \in SUBSET FleetNodes /\ G \in SUBSET FleetNodes /\ G # {}
    BY <1>1 DEF G
  <2> QED
    BY <1>1, <1>2, <2>1, StrongestIs
<1> HIDE DEF A, G
<1>4. \A n \in A : fleet[n].gpus \in Nat /\ n \in Nat
  BY <1>1, NodeHas, FleetPlaces
<1>5. Placement!Capacity(s, t) \/ (~Placement!Capacity(t, s) /\ s <= t)
  BY <1>1, <1>3, Zenon DEF Strong
<1>6. s \in G
  BY <1>1, <1>3, <1>4, <1>5 DEF Placement!Capacity
<1>7. Placement!Capacity(t, s) \/ (~Placement!Capacity(s, t) /\ t <= s)
  BY <1>3, <1>6, Zenon DEF Strong
<1>8. ~(Placement!Capacity(s, t) /\ Placement!Capacity(t, s))
  BY <1>1, <1>3, <1>6, NodeHas DEF Placement!Capacity
<1>9. s = t
  BY <1>1, <1>3, <1>4, <1>5, <1>7, <1>8
<1> QED
  BY <1>2, <1>9 DEF A, G

LEMMA Chosen ==
  ASSUME FleetTyped, Placement!Available # {}, NEW p \in Plans, NEW a \in PlacedAgents
  PROVE  \E n \in Placement!Available, w \in {p, Placement!Warned(p, a)} :
           Placement!PlaceOne(p, a) = Placement!Put(w, a, n) /\ Suits(p, a, n, w)
<1> DEFINE A == Placement!Available
           G == Placement!GpuNodes
           C == Placement!CpuNodes
           needs == call.needs[a]
<1>1. /\ A \in SUBSET FleetNodes /\ G \subseteq A /\ C \subseteq A
      /\ \A n \in A : n \in G <=> Placement!HasGpu(n)
      /\ \A n \in A : n \in C <=> ~Placement!HasGpu(n)
  BY DEF Placement!GpuNodes, Placement!CpuNodes, Placement!Available, Placement!Offered
<1>2. A # {}
  OBVIOUS
<1>3. \A n \in G : Placement!HasGpu(n)
  BY <1>1
<1>4. \A n \in C : ~Placement!HasGpu(n)
  BY <1>1
<1>5. PICK l, s : l = Placement!LeastLoaded(p, A) /\ s = Placement!Strongest(A)
  OBVIOUS
<1>6. l \in A /\ (\A m \in A : Placement!Load(p, l) <= Placement!Load(p, m)) /\ s \in A
  <2> HIDE DEF A
  <2> QED
    BY <1>1, <1>2, <1>5, LeastLoadedIs, StrongestIs
<1> HIDE DEF A, G, C
<1>7. call.policy \in {"gpu-affinity", "data-locality", "balanced", "cost-aware", "lockstep-strict"}
  BY DEF FleetTyped, Placement!Calls, Placement!Policies
<1>8. CASE call.policy = "balanced"
  <2>1. Placement!PlaceOne(p, a) = Placement!Put(p, a, l)
    BY <1>5, <1>8 DEF Placement!PlaceOne, Placement!Balanced, A
  <2>2. Suits(p, a, l, p)
    BY <1>6, <1>8 DEF Suits, A
  <2> QED
    BY <1>6, <2>1, <2>2, Zenon DEF A
<1>9. CASE call.policy = "lockstep-strict"
  <2>1. Placement!PlaceOne(p, a) = Placement!LockstepStrict(p, a)
    BY <1>9 DEF Placement!PlaceOne
  <2>2. CASE needs /\ G # {}
    <3>1. Placement!Strongest(G) = s
      BY <1>5, <2>2, StrongestHasGpu DEF A, G
    <3>2. Placement!PlaceOne(p, a) = Placement!Put(p, a, s)
      BY <2>1, <2>2, <3>1 DEF Placement!LockstepStrict, G
    <3>3. s \in G
      BY <1>1, <2>2, <3>1, StrongestIs
    <3>4. Suits(p, a, s, p)
      BY <1>3, <1>5, <1>9, <3>3 DEF Suits, A
    <3> QED
      BY <1>6, <3>2, <3>4, Zenon DEF A
  <2>3. CASE needs /\ G = {}
    <3>1. Placement!PlaceOne(p, a) = Placement!Put(Placement!Warned(p, a), a, s)
      BY <1>5, <2>1, <2>3 DEF Placement!LockstepStrict, G, A
    <3>2. Suits(p, a, s, Placement!Warned(p, a))
      BY <1>5, <1>9, <2>3 DEF Suits, A, G
    <3> QED
      BY <1>6, <3>1, <3>2, Zenon DEF A
  <2>4. CASE ~needs
    <3>1. Placement!PlaceOne(p, a) = Placement!Put(p, a, s)
      BY <1>5, <2>1, <2>4 DEF Placement!LockstepStrict, A
    <3>2. Suits(p, a, s, p)
      BY <1>5, <1>9, <2>4 DEF Suits, A
    <3> QED
      BY <1>6, <3>1, <3>2, Zenon DEF A
  <2> QED
    BY <2>2, <2>3, <2>4
<1>10. CASE call.policy = "cost-aware"
  <2>1. Placement!PlaceOne(p, a) = Placement!CostAware(p, a)
    BY <1>10 DEF Placement!PlaceOne
  <2> DEFINE N == IF needs /\ G # {} THEN G ELSE IF C # {} THEN C ELSE A
             n == Placement!LeastLoaded(p, N)
  <2>2. N \in SUBSET FleetNodes /\ N \subseteq A /\ N # {}
    BY <1>1, <1>2
  <2>3. Placement!PlaceOne(p, a) = Placement!Put(p, a, n)
    BY <2>1 DEF Placement!CostAware, A, G, C
  <2>4. n \in N
    <3> HIDE DEF N
    <3> QED
      BY <2>2, LeastLoadedIs
  <2>5. /\ G # {} /\ needs => Placement!HasGpu(n)
        /\ C # {} /\ ~needs => ~Placement!HasGpu(n)
    BY <1>3, <1>4, <2>4
  <2> HIDE DEF n
  <2>6. Suits(p, a, n, p)
    BY <1>10, <2>5 DEF Suits, G, C
  <2> QED
    BY <2>2, <2>3, <2>4, <2>6, Zenon DEF A
<1>11. CASE call.policy \in {"gpu-affinity", "data-locality"}
  <2>1. Placement!PlaceOne(p, a) = Placement!GpuAffinity(p, a)
    BY <1>11 DEF Placement!PlaceOne
  <2>2. CASE needs /\ G # {}
    <3> DEFINE n == Placement!BestGpu(G)
    <3>1. n \in G
      BY <1>1, <2>2, BestGpuIs
    <3>2. Placement!PlaceOne(p, a) = Placement!Put(p, a, n)
      BY <2>1, <2>2 DEF Placement!GpuAffinity, G
    <3> HIDE DEF n
    <3>3. Suits(p, a, n, p)
      BY <1>3, <1>11, <3>1 DEF Suits
    <3> QED
      BY <1>1, <3>1, <3>2, <3>3, Zenon DEF A
  <2>3. CASE needs /\ G = {}
    <3>1. Placement!PlaceOne(p, a) = Placement!Put(Placement!Warned(p, a), a, l)
      BY <1>5, <2>1, <2>3 DEF Placement!GpuAffinity, G, A
    <3>2. Suits(p, a, l, Placement!Warned(p, a))
      BY <1>11, <2>3 DEF Suits, G
    <3> QED
      BY <1>6, <3>1, <3>2, Zenon DEF A
  <2>4. CASE ~needs
    <3>1. Placement!PlaceOne(p, a) = Placement!Put(p, a, l)
      BY <1>5, <2>1, <2>4 DEF Placement!GpuAffinity, A
    <3>2. Suits(p, a, l, p)
      BY <1>11, <2>4 DEF Suits
    <3> QED
      BY <1>6, <3>1, <3>2, Zenon DEF A
  <2> QED
    BY <2>2, <2>3, <2>4
<1> QED
  BY <1>7, <1>8, <1>9, <1>10, <1>11, Zenon

\* What a plan keeps when the first k agents are placed.
PlacedWell(k, p) ==
  /\ p \in Plans /\ p.done /\ ~p.error
  /\ \A a \in 1 .. k : p.at[a] \in Placement!Available
  /\ \A a \in PlacedAgents : a > k => p.at[a] = 0
  /\ p.warned \subseteq 1 .. k
  /\ \A a \in p.warned : call.needs[a] /\ ~Placement!HasGpu(p.at[a])
  /\ call.policy # "balanced" /\ Placement!GpuNodes # {} =>
       \A a \in 1 .. k : call.needs[a] => Placement!HasGpu(p.at[a])
  /\ call.policy = "balanced" =>
       \A a \in 1 .. k, m \in Placement!Available :
         Placement!Load(p, p.at[a]) <= Placement!Load(p, m) + 1
  /\ call.policy = "cost-aware" /\ Placement!CpuNodes # {} =>
       \A a \in 1 .. k : ~call.needs[a] => ~Placement!HasGpu(p.at[a])
  /\ call.policy = "lockstep-strict" =>
       \A a \in 1 .. k : p.at[a] = Placement!Strongest(Placement!Available)

\* One more agent on a node makes it one more.
LEMMA LoadGrows ==
  ASSUME FleetTyped, NEW p \in Plans, NEW q \in Plans, NEW a \in PlacedAgents,
         NEW n \in FleetNodes, p.at[a] = 0, q.at = [p.at EXCEPT ![a] = n]
  PROVE  /\ \A m \in FleetNodes : Placement!Load(p, m) \in Nat
         /\ Placement!Load(q, n) = Placement!Load(p, n) + 1
         /\ \A m \in FleetNodes : m # n => Placement!Load(q, m) = Placement!Load(p, m)
<1> DEFINE H(f, m) == {x \in PlacedAgents : f[x] = m}
<1>1. PICK f, g : f = p.at /\ g = q.at /\ f \in [PlacedAgents -> FleetNodes \cup {0}]
                  /\ g = [f EXCEPT ![a] = n] /\ f[a] = 0
  BY DEF Plans
<1>2. 0 \notin FleetNodes
  BY FleetPlaces
<1>3. \A m : IsFiniteSet(H(f, m))
  BY FleetPlaces, FS_Subset
<1>4. \A m : Placement!Here(p, m) = Cardinality(H(f, m)) /\ Placement!Here(q, m) = Cardinality(H(g, m))
  BY <1>1 DEF Placement!Here, Placement!Cardinality, Cardinality
<1>5. /\ H(g, n) = H(f, n) \cup {a} /\ a \notin H(f, n)
      /\ \A m \in FleetNodes : m # n => H(g, m) = H(f, m)
  BY <1>1, <1>2
<1> HIDE DEF H
<1>6. \A m : Cardinality(H(f, m)) \in Nat
  BY <1>3, FS_CardinalityType
<1>7. Cardinality(H(g, n)) = Cardinality(H(f, n)) + 1
  BY <1>3, <1>5, FS_AddElement
<1>8. \A m \in FleetNodes : fleet[m].agents \in Nat
  BY NodeHas
<1>9. \A m \in FleetNodes : m # n => Cardinality(H(g, m)) = Cardinality(H(f, m))
  BY <1>5, Zenon
<1> QED
  BY <1>4, <1>6, <1>7, <1>8, <1>9 DEF Placement!Load

\* No node is left two agents behind another that was given some.
LEMMA BalanceKept ==
  ASSUME FleetTyped, NEW p \in Plans, NEW q \in Plans, NEW k \in PlacedAgents, k \in Nat \ {0},
         NEW n \in Placement!Available, p.at[k] = 0, q.at = [p.at EXCEPT ![k] = n],
         1 .. k \subseteq PlacedAgents,
         \A a \in 1 .. k - 1 : p.at[a] \in Placement!Available,
         \A m \in Placement!Available : Placement!Load(p, n) <= Placement!Load(p, m),
         \A a \in 1 .. k - 1, m \in Placement!Available :
           Placement!Load(p, p.at[a]) <= Placement!Load(p, m) + 1
  PROVE  \A a \in 1 .. k, m \in Placement!Available :
           Placement!Load(q, q.at[a]) <= Placement!Load(q, m) + 1
<1> DEFINE A == Placement!Available
           before(m) == Placement!Load(p, m)
           after(m) == Placement!Load(q, m)
<1>1. A \subseteq FleetNodes
  BY DEF Placement!Available, Placement!Offered
<1>2. n \in FleetNodes
  BY <1>1
<1>3. /\ \A m \in A : before(m) \in Nat /\ (m # n => after(m) = before(m))
      /\ after(n) = before(n) + 1
  BY <1>1, <1>2, LoadGrows
<1>4. \A m \in A : before(n) <= before(m)
  OBVIOUS
<1>5. \A a \in 1 .. k - 1, m \in A : p.at[a] \in A /\ before(p.at[a]) <= before(m) + 1
  OBVIOUS
<1>6. PICK f, g : f = p.at /\ g = q.at /\ f \in [PlacedAgents -> FleetNodes \cup {0}]
  BY DEF Plans
<1>7. g[k] = n /\ \A a \in 1 .. k - 1 : g[a] = f[a]
  BY <1>6
<1>8. n \in A
  OBVIOUS
<1> HIDE DEF A, before, after
<1>9. \A m \in A : after(m) \in Nat /\ before(m) <= after(m)
  BY <1>3, <1>8
<1>10. \A m \in A : after(n) <= after(m) + 1
  BY <1>3, <1>4, <1>8, <1>9
<1>11. ASSUME NEW a \in 1 .. k - 1, NEW m \in A PROVE after(g[a]) <= after(m) + 1
  <2>1. PICK x \in A : x = g[a] /\ before(x) <= before(m) + 1
    BY <1>5, <1>6, <1>7
  <2>2. CASE x = n
    BY <1>10, <2>1, <2>2
  <2>3. CASE x # n
    BY <1>3, <1>9, <2>1, <2>3
  <2> QED
    BY <2>2, <2>3
<1>12. ASSUME NEW a \in 1 .. k, NEW m \in A PROVE after(g[a]) <= after(m) + 1
  BY <1>7, <1>10, <1>11
<1> QED
  BY <1>6, <1>12 DEF A, after

LEMMA PlacedOneMore ==
  ASSUME FleetTyped, Placement!Available # {}, NEW k \in 1 .. Cardinality(PlacedAgents),
         NEW p, PlacedWell(k - 1, p)
  PROVE  PlacedWell(k, Placement!PlaceOne(p, k))
<1>0. PICK N \in Nat : N = Cardinality(PlacedAgents) /\ PlacedAgents = 1 .. N /\ k \in 1 .. N
  BY FleetPlaces, FS_CardinalityType
<1>1. k \in PlacedAgents /\ 1 .. k \subseteq PlacedAgents /\ k \in Nat \ {0}
  <2>1. k \in Nat \ {0} /\ k <= N
    BY <1>0
  <2>2. k \in 1 .. N /\ 1 .. k \subseteq 1 .. N
    BY <1>0, <2>1
  <2> QED
    BY <1>0, <2>1, <2>2, Zenon
<1>2. p \in Plans /\ p.done /\ ~p.error /\ p.at[k] = 0 /\ p.warned \subseteq 1 .. k - 1
  BY <1>0, <1>1 DEF PlacedWell
<1>3. PICK n \in Placement!Available, w \in {p, Placement!Warned(p, k)} :
        Placement!PlaceOne(p, k) = Placement!Put(w, k, n) /\ Suits(p, k, n, w)
  BY <1>1, <1>2, Chosen
<1>4. n \in FleetNodes
  BY DEF Placement!Available, Placement!Offered
<1>5. PICK q : q = Placement!PlaceOne(p, k)
  OBVIOUS
<1>6. /\ q \in Plans /\ q.at = [p.at EXCEPT ![k] = n] /\ q.warned = w.warned
      /\ q.done = p.done /\ q.error = p.error /\ w.warned \in {p.warned, p.warned \cup {k}}
  <2>1. PutOn(p, k, n, w, Placement!Put(w, k, n))
    BY <1>1, <1>2, <1>4, PutIs
  <2>2. PutOn(p, k, n, w, q)
    BY <1>3, <1>5, <2>1, Zenon
  <2> QED
    BY <2>2, Zenon DEF PutOn
<1>7. PICK f, g : f = p.at /\ g = q.at /\ f \in [PlacedAgents -> FleetNodes \cup {0}]
  BY <1>2 DEF Plans
<1>8. g[k] = n /\ \A a \in PlacedAgents : a # k => g[a] = f[a]
  BY <1>1, <1>6, <1>7
<1>9. \A a \in 1 .. k : a = k \/ (a \in 1 .. k - 1 /\ a \in PlacedAgents /\ g[a] = f[a])
  BY <1>1, <1>8
<1>10. \A a \in 1 .. k - 1 : f[a] \in Placement!Available
  BY <1>7 DEF PlacedWell
<1>11. \A a \in 1 .. k : g[a] \in Placement!Available
  BY <1>8, <1>9, <1>10
<1>12. \A a \in PlacedAgents : a > k => g[a] = 0
  <2>1. \A a \in PlacedAgents : a > k - 1 => f[a] = 0
    BY <1>7 DEF PlacedWell
  <2> QED
    BY <1>0, <1>8, <2>1
<1>13. q.warned \subseteq 1 .. k
  BY <1>1, <1>2, <1>6
<1>14. \A a \in q.warned : call.needs[a] /\ ~Placement!HasGpu(g[a])
  <2>1. \A a \in p.warned : call.needs[a] /\ ~Placement!HasGpu(f[a])
    BY <1>7 DEF PlacedWell
  <2>2. \A a \in p.warned : a # k /\ a \in PlacedAgents /\ g[a] = f[a]
    BY <1>1, <1>2, <1>8
  <2>3. w # p => call.needs[k] /\ ~Placement!HasGpu(n)
    BY <1>3 DEF Suits, Placement!GpuNodes
  <2>4. CASE w = p
    BY <1>6, <2>1, <2>2, <2>4
  <2>5. CASE w # p
    BY <1>6, <1>8, <2>1, <2>2, <2>3, <2>5
  <2> QED
    BY <2>4, <2>5
<1>15. call.policy # "balanced" /\ Placement!GpuNodes # {} =>
         \A a \in 1 .. k : call.needs[a] => Placement!HasGpu(g[a])
  <2>1. call.policy # "balanced" /\ Placement!GpuNodes # {} =>
          \A a \in 1 .. k - 1 : call.needs[a] => Placement!HasGpu(f[a])
    BY <1>7 DEF PlacedWell
  <2>2. call.policy # "balanced" /\ Placement!GpuNodes # {} =>
          (call.needs[k] => Placement!HasGpu(n))
    BY <1>3 DEF Suits
  <2> QED
    BY <1>8, <1>9, <2>1, <2>2
<1>16. ASSUME call.policy = "balanced"
       PROVE  \A a \in 1 .. k, m \in Placement!Available :
                Placement!Load(q, g[a]) <= Placement!Load(q, m) + 1
  <2>1. \A m \in Placement!Available : Placement!Load(p, n) <= Placement!Load(p, m)
    BY <1>3, <1>16 DEF Suits
  <2>2. \A a \in 1 .. k - 1, m \in Placement!Available :
          Placement!Load(p, p.at[a]) <= Placement!Load(p, m) + 1
    BY <1>16 DEF PlacedWell
  <2>3. \A a \in 1 .. k - 1 : p.at[a] \in Placement!Available
    BY DEF PlacedWell
  <2>4. \A a \in 1 .. k, m \in Placement!Available :
          Placement!Load(q, q.at[a]) <= Placement!Load(q, m) + 1
    BY <1>1, <1>2, <1>6, <2>1, <2>2, <2>3, BalanceKept
  <2> QED
    BY <1>7, <2>4
<1>17. call.policy = "cost-aware" /\ Placement!CpuNodes # {} =>
         \A a \in 1 .. k : ~call.needs[a] => ~Placement!HasGpu(g[a])
  <2>1. call.policy = "cost-aware" /\ Placement!CpuNodes # {} =>
          \A a \in 1 .. k - 1 : ~call.needs[a] => ~Placement!HasGpu(f[a])
    BY <1>7 DEF PlacedWell
  <2>2. call.policy = "cost-aware" /\ Placement!CpuNodes # {} =>
          (~call.needs[k] => ~Placement!HasGpu(n))
    BY <1>3 DEF Suits
  <2> QED
    BY <1>8, <1>9, <2>1, <2>2
<1>18. call.policy = "lockstep-strict" =>
         \A a \in 1 .. k : g[a] = Placement!Strongest(Placement!Available)
  <2>1. call.policy = "lockstep-strict" =>
          \A a \in 1 .. k - 1 : f[a] = Placement!Strongest(Placement!Available)
    BY <1>7 DEF PlacedWell
  <2>2. call.policy = "lockstep-strict" => n = Placement!Strongest(Placement!Available)
    BY <1>3 DEF Suits
  <2> QED
    BY <1>8, <1>9, <2>1, <2>2
<1>19. PlacedWell(k, q)
  BY <1>2, <1>6, <1>7, <1>11, <1>12, <1>13, <1>14, <1>15, <1>16, <1>17, <1>18, Zenon DEF PlacedWell
<1> QED
  BY <1>5, <1>19

\* Nobody is placed before the first is.
LEMMA PlacedNone ==
  ASSUME NEW d \in BOOLEAN, NEW e \in BOOLEAN
  PROVE  /\ Placement!Nobody(d, e) \in Plans
         /\ Placement!Nobody(d, e).done = d /\ Placement!Nobody(d, e).error = e
         /\ Placement!Nobody(d, e).at = [a \in PlacedAgents |-> 0]
         /\ Placement!Nobody(d, e).warned = {}
BY DEF Placement!Nobody, Placement!Unplaced, Plans

LEMMA PlacedFirst == PlacedWell(0, Placement!Nobody(TRUE, FALSE))
<1>1. PICK p, d, e : d = TRUE /\ e = FALSE /\ p = Placement!Nobody(d, e)
  BY Zenon
<1>2. /\ p \in Plans /\ p.done = d /\ p.error = e /\ p.at = [a \in PlacedAgents |-> 0]
      /\ p.warned = {}
  BY <1>1, PlacedNone
<1>3. \A a \in 1 .. 0 : FALSE
  OBVIOUS
<1>4. \A a \in PlacedAgents : p.at[a] = 0
  BY <1>2
<1>5. p.warned \subseteq 1 .. 0 /\ \A a \in p.warned : FALSE
  BY <1>2
<1>6. PlacedWell(0, p)
  BY <1>1, <1>2, <1>3, <1>4, <1>5, Zenon DEF PlacedWell
<1> QED
  BY <1>1, <1>6, Zenon

\* The plan that place_agents returns.
LEMMA PlannedWell ==
  ASSUME FleetTyped
  PROVE  IF Placement!Available = {} THEN Placement!PlaceAgents = Placement!Nobody(TRUE, TRUE)
         ELSE PlacedWell(Cardinality(PlacedAgents), Placement!PlaceAgents)
<1>1. CASE Placement!Available = {}
  BY <1>1, Zenon DEF Placement!PlaceAgents
<1>2. CASE Placement!Available # {}
  <2>1. PICK N \in Nat : N = Cardinality(PlacedAgents) /\ PlacedAgents = 1 .. N
    BY FleetPlaces, FS_CardinalityType
  <2>2. PICK base : base = Placement!Nobody(TRUE, FALSE)
    OBVIOUS
  <2>3. base \in Plans /\ PlacedWell(0, base)
    BY <2>2, PlacedFirst DEF PlacedWell
  <2>4. ASSUME NEW p \in Plans, NEW k \in 1 .. N PROVE Placement!PlaceOne(p, k) \in Plans
    <3>1. k \in PlacedAgents
      BY <2>1
    <3>2. PICK n \in Placement!Available, w \in {p, Placement!Warned(p, k)} :
            Placement!PlaceOne(p, k) = Placement!Put(w, k, n)
      BY <1>2, <3>1, Chosen
    <3>3. n \in FleetNodes
      BY DEF Placement!Available, Placement!Offered
    <3>4. PutOn(p, k, n, w, Placement!Put(w, k, n))
      BY <3>1, <3>3, PutIs
    <3> QED
      BY <3>2, <3>4 DEF PutOn
  <2> DEFINE step == [x \in Plans \X (1 .. N) |-> Placement!PlaceOne(x[1], x[2])]
  <2>5. step \in [Plans \X (1 .. N) -> Plans] /\ \A p \in Plans, k \in 1 .. N :
          step[<<p, k>>] = Placement!PlaceOne(p, k)
    BY <2>4
  <2> HIDE DEF step
  <2>6. PICK f : Taken(N, Plans, base, step, f)
    BY <2>3, <2>5, StepsTaken
  <2>7. /\ f \in [0 .. N -> Plans] /\ f[0] = base
        /\ \A k \in 1 .. N : f[k - 1] \in Plans /\ f[k] = Placement!PlaceOne(f[k - 1], k)
    <3>1. f \in [0 .. N -> Plans] /\ f[0] = base /\ \A k \in 1 .. N : f[k] = step[<<f[k - 1], k>>]
      BY <2>6 DEF Taken
    <3>2. \A k \in 1 .. N : f[k - 1] \in Plans
      BY <3>1
    <3> QED
      BY <2>5, <3>1, <3>2
  <2> DEFINE Goes(g) == g = [k \in 0 .. N |-> IF k = 0 THEN base ELSE Placement!PlaceOne(g[k - 1], k)]
             placed == CHOOSE g : Goes(g)
  <2>8. Goes(f)
    <3>1. \A k \in 0 .. N : f[k] = IF k = 0 THEN base ELSE Placement!PlaceOne(f[k - 1], k)
      BY <2>7
    <3>2. f = [k \in 0 .. N |-> f[k]]
      BY <2>7
    <3> QED
      BY <3>1, <3>2, Zenon
  <2>9. Goes(placed)
    <3> HIDE DEF Goes
    <3> QED
      BY <2>8, Zenon
  <2>10. Placement!Placed = placed
    BY <2>1, <2>2, Zenon DEF Placement!Placed, Placement!Cardinality, Cardinality
  <2> HIDE DEF placed
  <2>11. /\ placed[0] = base
         /\ \A k \in 1 .. N : placed[k] = Placement!PlaceOne(placed[k - 1], k)
    <3>1. PICK g : g = placed /\ Goes(g)
      BY <2>9, Zenon
    <3>2. \A k \in 0 .. N : g[k] = IF k = 0 THEN base ELSE Placement!PlaceOne(g[k - 1], k)
      BY <3>1, Zenon
    <3> QED
      BY <3>1, <3>2
  <2> DEFINE T == {k \in 0 .. N : PlacedWell(k, placed[k])}
  <2>12. 0 \in T
    BY <2>3, <2>11
  <2>13. ASSUME NEW k \in 1 .. N, k - 1 \in T PROVE k \in T
    <3>1. PlacedWell(k - 1, placed[k - 1]) /\ k \in 1 .. Cardinality(PlacedAgents)
      BY <2>1, <2>13
    <3>2. PlacedWell(k, Placement!PlaceOne(placed[k - 1], k))
      BY <1>2, <3>1, PlacedOneMore
    <3> QED
      BY <2>11, <3>2
  <2>14. N \in T
    <3> HIDE DEF T
    <3>1. \A k \in 0 .. N : k \in T
      BY <2>12, <2>13, CountedUp
    <3> QED
      BY <3>1
  <2>15. Placement!PlaceAgents = placed[N]
    BY <1>2, <2>1, <2>10, Zenon DEF Placement!PlaceAgents, Placement!Cardinality, Cardinality
  <2> QED
    BY <1>2, <2>1, <2>14, <2>15
<1> QED
  BY <1>1, <1>2

\* What is returned is as it was made, for the fleet and the call it was made for.
FleetInv ==
  /\ call = Placement!NoCall \/ FleetTyped
  /\ placement.done => FleetTyped /\ Placement!PlacedOrTold /\ Placement!PolicyKept

LEMMA FleetInit == Placement!Init => FleetInv
<1> SUFFICES ASSUME Placement!Init PROVE FleetInv
  OBVIOUS
<1>1. PICK d : d = FALSE /\ placement = Placement!Nobody(d, d)
  BY Zenon DEF Placement!Init, Placement!NoneYet
<1>2. placement.done = d
  BY <1>1, PlacedNone
<1> QED
  BY <1>1, <1>2, Zenon DEF FleetInv, Placement!Init

\* A plan for a fleet and a call is a sound one.
LEMMA FleetPlans == FleetInv /\ Placement!Place => FleetInv'
<1> SUFFICES ASSUME FleetInv, Placement!Place PROVE FleetInv'
  OBVIOUS
<1>1. /\ FleetTyped /\ UNCHANGED <<fleet, call>> /\ placement' = Placement!PlaceAgents
  BY DEF FleetInv, Placement!Place
<1>2. FleetTyped'
  BY <1>1 DEF FleetTyped, Placement!Calls, Placement!Policies
<1>3. PICK p, s, N, A, G, C :
        /\ p = placement' /\ s = Placement!Strongest(Placement!Available)
        /\ N = Cardinality(PlacedAgents)
        /\ A = Placement!Available /\ G = Placement!GpuNodes /\ C = Placement!CpuNodes
  OBVIOUS
<1>4. /\ Placement!Available' = A /\ Placement!GpuNodes' = G /\ Placement!CpuNodes' = C
      /\ \A n : Placement!HasGpu(n)' <=> Placement!HasGpu(n)
      /\ \A n : Placement!Load(placement, n)' = Placement!Load(p, n)
  BY <1>1, <1>3 DEF Placement!Available, Placement!Offered, Placement!GpuNodes, Placement!CpuNodes,
     Placement!HasGpu, Placement!Load, Placement!Here
<1>5. \A n \in FleetNodes :
        n \in A <=> fleet[n].ready /\ (call.group = "any" \/ fleet[n].group = call.group)
  BY <1>3 DEF Placement!Available, Placement!Offered
<1>6. A \subseteq FleetNodes /\ PlacedAgents = 1 .. N /\ N \in Nat
  BY <1>3, FleetPlaces, FS_CardinalityType DEF Placement!Available, Placement!Offered
<1>7. CASE A = {}
  <2>1. PICK d : d = TRUE /\ p = Placement!Nobody(d, d)
    BY <1>1, <1>3, <1>7, PlannedWell, Zenon
  <2>2. p.done = d /\ p.error = d /\ p.at = [a \in PlacedAgents |-> 0]
    BY <2>1, PlacedNone
  <2>3. Placement!PlacedOrTold'
    BY <1>1, <1>3, <1>5, <1>7, <2>1, <2>2 DEF Placement!PlacedOrTold, Placement!Unplaced
  <2>4. Placement!PolicyKept'
    BY <1>3, <2>1, <2>2, Zenon DEF Placement!PolicyKept
  <2> QED
    BY <1>2, <2>3, <2>4, Zenon DEF FleetInv
<1>8. CASE A # {}
  <2>1. PlacedWell(N, p)
    BY <1>1, <1>3, <1>8, PlannedWell
  <2>2. p.done /\ ~p.error /\ \A a \in PlacedAgents : p.at[a] \in A
    BY <1>3, <1>6, <2>1 DEF PlacedWell
  <2>3. Placement!PlacedOrTold'
    <3>1. \A a \in PlacedAgents :
            /\ p.at[a] \in FleetNodes /\ fleet[p.at[a]].ready
            /\ call.group = "any" \/ fleet[p.at[a]].group = call.group
      BY <1>5, <1>6, <2>2
    <3> QED
      BY <1>1, <1>3, <2>2, <3>1 DEF Placement!PlacedOrTold
  <2> DEFINE used == {p.at[a] : a \in PlacedAgents}
  <2>4. Placement!Used' = used
    BY <1>3 DEF Placement!Used
  <2>5. call.policy # "balanced" /\ G # {} =>
          \A a \in PlacedAgents : call.needs[a] => Placement!HasGpu(p.at[a])
    BY <1>3, <1>6, <2>1 DEF PlacedWell
  <2>6. call.policy = "balanced" =>
          \A n \in used, m \in A : Placement!Load(p, n) <= Placement!Load(p, m) + 1
    <3>1. call.policy = "balanced" =>
            \A a \in PlacedAgents, m \in A : Placement!Load(p, p.at[a]) <= Placement!Load(p, m) + 1
      BY <1>3, <1>6, <2>1 DEF PlacedWell
    <3> QED
      BY <3>1
  <2>7. call.policy = "cost-aware" /\ C # {} =>
          \A a \in PlacedAgents : ~call.needs[a] => ~Placement!HasGpu(p.at[a])
    BY <1>3, <1>6, <2>1 DEF PlacedWell
  <2>8. call.policy = "lockstep-strict" => Cardinality(used) = 1
    <3> SUFFICES ASSUME call.policy = "lockstep-strict" PROVE Cardinality(used) = 1
      OBVIOUS
    <3>1. \A a \in PlacedAgents : p.at[a] = s
      BY <1>3, <1>6, <2>1 DEF PlacedWell
    <3>2. used = {s}
      BY <3>1, FleetPlaces
    <3> QED
      BY <3>2, FS_Singleton
  <2>9. \A a \in PlacedAgents : a \in p.warned => call.needs[a] /\ ~Placement!HasGpu(p.at[a])
    BY <2>1 DEF PlacedWell
  <2> HIDE DEF used
  <2>10. Placement!PolicyKept'
    BY <1>1, <1>3, <1>4, <2>4, <2>5, <2>6, <2>7, <2>8, <2>9, Zenon
       DEF Placement!PolicyKept, Placement!Cardinality, Cardinality
  <2> QED
    BY <1>2, <2>3, <2>10, Zenon DEF FleetInv
<1> QED
  BY <1>7, <1>8

LEMMA FleetStep == FleetInv /\ [Placement!Next]_placeVars => FleetInv'
<1> SUFFICES ASSUME FleetInv, [Placement!Next]_placeVars PROVE FleetInv'
  OBVIOUS
<1>1. CASE Placement!Place
  BY <1>1, FleetPlans
<1>2. CASE Placement!Ask
  <2>1. ~FleetTyped
    BY <1>2 DEF Placement!Ask, Placement!NoCall, FleetTyped, Placement!Calls, Placement!Policies
  <2>2. ~placement.done /\ placement' = placement
    BY <1>2, <2>1, Zenon DEF FleetInv, Placement!Ask
  <2>3. FleetTyped'
    BY <1>2 DEF Placement!Ask, FleetTyped, Placement!Calls, Placement!Policies
  <2> QED
    BY <2>2, <2>3, Zenon DEF FleetInv
<1>3. CASE Placement!Done
  <2>1. PICK d : d = FALSE /\ placement' = Placement!Nobody(d, d)
    BY <1>3, Zenon DEF Placement!Done, Placement!NoneYet
  <2>2. placement'.done = d
    BY <2>1, PlacedNone
  <2>3. call' = Placement!NoCall
    BY <1>3, Zenon DEF Placement!Done
  <2> QED
    BY <2>1, <2>2, <2>3, Zenon DEF FleetInv, Placement!NoCall
<1>4. CASE UNCHANGED placeVars
  BY <1>4 DEF placeVars, FleetInv, FleetTyped, Placement!Calls, Placement!Policies, Placement!NoCall,
     Placement!PlacedOrTold, Placement!PolicyKept, Placement!Unplaced, Placement!Used,
     Placement!Available, Placement!Offered, Placement!GpuNodes, Placement!CpuNodes,
     Placement!HasGpu, Placement!Load, Placement!Here
<1> QED
  BY <1>1, <1>2, <1>3, <1>4 DEF Placement!Next

LEMMA FleetHolds == FleetInv => Placement!PlacedOrTold /\ Placement!PolicyKept
<1>1. CASE ~placement.done
  BY <1>1, Zenon DEF Placement!PlacedOrTold, Placement!PolicyKept
<1>2. CASE placement.done
  BY <1>2, Zenon DEF FleetInv
<1> QED
  BY <1>1, <1>2

----------------------------------------------------------------------------
(* The GPUs of a host                                                       *)

LEMMA TeamOfHost ==
  /\ Cardinality(GpuTeam) \in Nat /\ GpuTeam = 1 .. Cardinality(GpuTeam)
  /\ Gpus!Cardinality(GpuTeam) = Cardinality(GpuTeam)
BY GpuHost, FS_CardinalityType DEF Gpus!Cardinality, Cardinality

LEMMA MemIs ==
  ASSUME NEW x \in Int, NEW y \in Int
  PROVE  /\ Gpus!Mem(x) \in Int /\ Gpus!Mem(x + y) = Gpus!Mem(x) + Gpus!Mem(y) /\ Gpus!Mem(0) = 0
         /\ Gpus!Mem(x) < Gpus!Mem(y) <=> x < y
         /\ (x \in Nat => Gpus!Mem(x) \in Nat) /\ (x > 0 => Gpus!Mem(x) > 0)
<1>1. Nominal \in Nat \ {0}
  BY GpuHost
<1>2. x * Nominal \in Int /\ (x + y) * Nominal = x * Nominal + y * Nominal /\ 0 * Nominal = 0
  BY <1>1
<1>3. x < y => x * Nominal < y * Nominal
  BY <1>1
<1>4. ~(x < y) => y * Nominal <= x * Nominal
  BY <1>1
<1>5. (x \in Nat => x * Nominal \in Nat) /\ (x > 0 => x * Nominal > 0)
  BY <1>1
<1> QED
  BY <1>1, <1>2, <1>3, <1>4, <1>5 DEF Gpus!Mem

\* The sums of what the first agents of S declare.
Sums(req, S, N, f) ==
  /\ f \in [0 .. N -> Int] /\ f[0] = 0
  /\ \A n \in 1 .. N : f[n] = f[n - 1] + (IF n \in S THEN req[n].mem ELSE 0)

LEMMA RequestIs ==
  ASSUME NEW r \in Gpus!Request
  PROVE  r.mem \in Nat
BY GpuHost DEF Gpus!Request

LEMMA UnitsSummed ==
  ASSUME NEW req \in [GpuTeam -> Gpus!Request], NEW S
  PROVE  \E f : Sums(req, S, Cardinality(GpuTeam), f) /\ Gpus!Units(req, S) = f[Cardinality(GpuTeam)]
<1>1. PICK N \in Nat : N = Cardinality(GpuTeam) /\ GpuTeam = 1 .. N
  BY TeamOfHost
<1> DEFINE m == [n \in 1 .. N |-> IF n \in S THEN req[n].mem ELSE 0]
<1>2. m \in [1 .. N -> Int]
  <2>1. \A n \in 1 .. N : req[n] \in Gpus!Request
    BY <1>1
  <2>2. \A n \in 1 .. N : req[n].mem \in Nat
    BY <2>1, RequestIs
  <2> QED
    BY <2>2
<1>3. \A n \in 1 .. N : m[n] = IF n \in S THEN req[n].mem ELSE 0
  OBVIOUS
<1> HIDE DEF m
<1> DEFINE step == [x \in Int \X (1 .. N) |-> x[1] + m[x[2]]]
<1>4. step \in [Int \X (1 .. N) -> Int] /\ \A i \in Int, n \in 1 .. N : step[<<i, n>>] = i + m[n]
  BY <1>2
<1> HIDE DEF step
<1>5. PICK f : Taken(N, Int, 0, step, f)
  <2>1. PICK z, I : z = 0 /\ I = Int
    OBVIOUS
  <2>2. z \in I /\ step \in [I \X (1 .. N) -> I]
    BY <1>4, <2>1
  <2>3. \E f : Taken(N, I, z, step, f)
    BY <2>2, StepsTaken
  <2> QED
    BY <2>1, <2>3, Zenon
<1>6. f \in [0 .. N -> Int] /\ f[0] = 0 /\ \A n \in 1 .. N : f[n - 1] \in Int /\ f[n] = f[n - 1] + m[n]
  <2>1. f \in [0 .. N -> Int] /\ f[0] = 0 /\ \A n \in 1 .. N : f[n] = step[<<f[n - 1], n>>]
    BY <1>5 DEF Taken
  <2>2. \A n \in 1 .. N : f[n - 1] \in Int
    BY <2>1
  <2> QED
    BY <1>4, <2>1, <2>2
<1> DEFINE Goes(g) == g = [n \in 0 .. N |->
                         IF n = 0 THEN 0 ELSE g[n - 1] + (IF n \in S THEN req[n].mem ELSE 0)]
           sums == CHOOSE g : Goes(g)
<1>7. Goes(f)
  <2>1. \A n \in 0 .. N :
          f[n] = IF n = 0 THEN 0 ELSE f[n - 1] + (IF n \in S THEN req[n].mem ELSE 0)
    BY <1>3, <1>6
  <2>2. f = [n \in 0 .. N |-> f[n]]
    BY <1>6
  <2> QED
    BY <2>1, <2>2, Zenon
<1>8. Goes(sums)
  <2> HIDE DEF Goes
  <2> QED
    BY <1>7, Zenon
<1>9. Gpus!Units(req, S) = sums[N]
  BY <1>1, Zenon DEF Gpus!Units, Gpus!Cardinality, Cardinality
<1> HIDE DEF sums
<1>10. PICK g : g = sums /\ Goes(g)
  BY <1>8, Zenon
<1>11. \A n \in 0 .. N :
         g[n] = IF n = 0 THEN 0 ELSE g[n - 1] + (IF n \in S THEN req[n].mem ELSE 0)
  BY <1>10, Zenon
<1>12. g[0] = 0 /\ \A n \in 1 .. N : g[n] = g[n - 1] + m[n]
  BY <1>3, <1>11
<1> DEFINE T == {n \in 0 .. N : g[n] = f[n]}
<1>13. 0 \in T
  BY <1>6, <1>12
<1>14. \A n \in 1 .. N : n - 1 \in T => n \in T
  BY <1>6, <1>12
<1>15. \A n \in 0 .. N : g[n] = f[n]
  <2>1. \A n \in 0 .. N : n \in T
    <3> HIDE DEF T
    <3> QED
      BY <1>13, <1>14, CountedUp
  <2> QED
    BY <2>1
<1>16. Sums(req, S, N, f) /\ Gpus!Units(req, S) = f[N]
  BY <1>3, <1>6, <1>9, <1>10, <1>15 DEF Sums
<1> QED
  BY <1>1, <1>16

LEMMA UnitsOfNone ==
  ASSUME NEW req \in [GpuTeam -> Gpus!Request]
  PROVE  Gpus!Units(req, {}) = 0
<1>1. PICK N \in Nat : N = Cardinality(GpuTeam) /\ GpuTeam = 1 .. N
  BY TeamOfHost
<1>2. PICK f : Sums(req, {}, N, f) /\ Gpus!Units(req, {}) = f[N]
  BY <1>1, UnitsSummed
<1>3. f \in [0 .. N -> Int] /\ f[0] = 0 /\ \A n \in 1 .. N : f[n] = f[n - 1] + 0
  BY <1>2 DEF Sums
<1> DEFINE T == {n \in 0 .. N : f[n] = 0}
<1>4. 0 \in T /\ \A n \in 1 .. N : n - 1 \in T => n \in T
  BY <1>3
<1>5. N \in T
  <2> HIDE DEF T
  <2>1. \A n \in 0 .. N : n \in T
    BY <1>4, CountedUp
  <2> QED
    BY <2>1
<1> QED
  BY <1>2, <1>5

LEMMA UnitsOfOneMore ==
  ASSUME NEW req \in [GpuTeam -> Gpus!Request], NEW S \in SUBSET GpuTeam, NEW a \in GpuTeam \ S
  PROVE  /\ Gpus!Units(req, S) \in Int /\ req[a].mem \in Nat
         /\ Gpus!Units(req, S \cup {a}) = Gpus!Units(req, S) + req[a].mem
<1>1. PICK N \in Nat : N = Cardinality(GpuTeam) /\ GpuTeam = 1 .. N
  BY TeamOfHost
<1>2. PICK f : Sums(req, S, N, f) /\ Gpus!Units(req, S) = f[N]
  BY <1>1, UnitsSummed
<1>3. PICK g : Sums(req, S \cup {a}, N, g) /\ Gpus!Units(req, S \cup {a}) = g[N]
  BY <1>1, UnitsSummed
<1>4. \A n \in 1 .. N : req[n].mem \in Nat
  <2>1. \A n \in 1 .. N : req[n] \in Gpus!Request
    BY <1>1
  <2> QED
    BY <2>1, RequestIs
<1>5. PICK m : m = req[a].mem
  OBVIOUS
<1>6. m \in Nat /\ a \in 1 .. N
  BY <1>1, <1>4, <1>5
<1>7. /\ f \in [0 .. N -> Int] /\ f[0] = 0
      /\ \A n \in 1 .. N : f[n] = f[n - 1] + (IF n \in S THEN req[n].mem ELSE 0)
  BY <1>2 DEF Sums
<1>8. /\ g \in [0 .. N -> Int] /\ g[0] = 0
      /\ \A n \in 1 .. N : g[n] = g[n - 1] + (IF n \in S \cup {a} THEN req[n].mem ELSE 0)
  BY <1>3 DEF Sums
<1> DEFINE T == {n \in 0 .. N : g[n] = f[n] + (IF a <= n THEN m ELSE 0)}
<1>9. 0 \in T
  BY <1>6, <1>7, <1>8
<1>10. ASSUME NEW n \in 1 .. N, n - 1 \in T PROVE n \in T
  <2>1. f[n - 1] \in Int /\ g[n - 1] \in Int /\ f[n] \in Int /\ g[n] \in Int /\ req[n].mem \in Nat
    BY <1>4, <1>7, <1>8
  <2>2. g[n - 1] = f[n - 1] + (IF a <= n - 1 THEN m ELSE 0)
    BY <1>10
  <2>3. n = a => req[n].mem = m /\ n \notin S
    BY <1>5
  <2>4. PICK x, y, u, v, w :
          x = f[n - 1] /\ y = g[n - 1] /\ u = f[n] /\ v = g[n] /\ w = req[n].mem
    OBVIOUS
  <2>5. /\ u = x + (IF n \in S THEN w ELSE 0)
        /\ v = y + (IF n \in S \cup {a} THEN w ELSE 0)
        /\ y = x + (IF a <= n - 1 THEN m ELSE 0)
    BY <1>7, <1>8, <2>2, <2>4
  <2>6. x \in Int /\ y \in Int /\ u \in Int /\ v \in Int /\ w \in Nat
    BY <2>1, <2>4
  <2>7. ASSUME n = a PROVE v = u + (IF a <= n THEN m ELSE 0)
    <3>1. w = m /\ n \notin S /\ n \in S \cup {a} /\ ~(a <= n - 1) /\ a <= n
      BY <1>6, <2>3, <2>4, <2>7
    <3>2. u = x /\ v = y + m /\ y = x
      BY <2>5, <2>6, <3>1
    <3> QED
      BY <1>6, <2>6, <3>1, <3>2
  <2>8. ASSUME n # a PROVE v = u + (IF a <= n THEN m ELSE 0)
    <3>1. a <= n - 1 <=> a <= n
      BY <1>6, <2>8
    <3>2. n \in S \cup {a} <=> n \in S
      BY <2>8
    <3>3. u = x + (IF n \in S THEN w ELSE 0) /\ v = y + (IF n \in S THEN w ELSE 0)
      BY <2>5, <3>2
    <3>4. y = x + (IF a <= n THEN m ELSE 0)
      BY <2>5, <3>1
    <3>5. PICK p, q : p = (IF n \in S THEN w ELSE 0) /\ q = (IF a <= n THEN m ELSE 0)
      OBVIOUS
    <3>6. p \in Int /\ q \in Int
      BY <1>6, <2>6, <3>5
    <3>7. u = x + p /\ v = y + p /\ y = x + q
      BY <3>3, <3>4, <3>5
    <3>8. v = u + q
      BY <2>6, <3>6, <3>7
    <3> QED
      BY <3>5, <3>8
  <2>9. v = u + (IF a <= n THEN m ELSE 0)
    BY <2>7, <2>8
  <2>10. g[n] = f[n] + (IF a <= n THEN m ELSE 0)
    BY <2>4, <2>9, Zenon
  <2>11. n \in 0 .. N
    OBVIOUS
  <2> QED
    BY <2>10, <2>11, Zenon
<1>11. N \in T
  <2> HIDE DEF T
  <2>1. \A n \in 0 .. N : n \in T
    BY <1>9, <1>10, CountedUp
  <2> QED
    BY <2>1
<1> QED
  BY <1>2, <1>3, <1>5, <1>6, <1>7, <1>11

\* Agents have their turns, each its own, those that must have a GPU before the others.
Turns(req, N, turn) ==
  /\ \A k \in 1 .. N : turn[k] \in GpuTeam
  /\ \A j, k \in 1 .. N : turn[j] = turn[k] => j = k
  /\ \A a \in GpuTeam : \E k \in 1 .. N : turn[k] = a
  /\ \A j, k \in 1 .. N : req[turn[j]].kind # "strict" /\ req[turn[k]].kind = "strict" => k < j

LEMMA PriorityIs ==
  ASSUME NEW r
  PROVE  Gpus!Priority(r) \in 0 .. 3 /\ (Gpus!Priority(r) = 0 <=> r.kind = "strict")
BY DEF Gpus!Priority

LEMMA TurnsTaken ==
  ASSUME NEW req
  PROVE  Turns(req, Cardinality(GpuTeam), Gpus!InOrder(req))
<1>1. PICK N \in Nat : N = Cardinality(GpuTeam) /\ GpuTeam = 1 .. N
  BY TeamOfHost
<1> DEFINE pr == [a \in GpuTeam |-> Gpus!Priority(req[a])]
<1>2. \A a \in GpuTeam : pr[a] \in 0 .. 3 /\ (pr[a] = 0 <=> req[a].kind = "strict")
  BY PriorityIs
<1>3. \A i, j \in GpuTeam :
        Gpus!Before(req, i, j) <=> (pr[i] < pr[j] \/ (pr[i] = pr[j] /\ i < j))
  BY DEF Gpus!Before
<1> HIDE DEF pr
<1> DEFINE R == {b \in GpuTeam \X GpuTeam : Gpus!Before(req, b[1], b[2])}
           rank == [p \in GpuTeam |-> Cardinality({o \in GpuTeam : <<o, p>> \in R})]
<1>4. \A p, q \in GpuTeam : <<p, q>> \in R <=> Gpus!Before(req, p, q)
  OBVIOUS
<1>5. Ranked(GpuTeam, R, rank)
  <2>1. /\ \A p \in GpuTeam : <<p, p>> \notin R
        /\ \A p, q \in GpuTeam : p # q => <<p, q>> \in R \/ <<q, p>> \in R
        /\ \A p, q, r \in GpuTeam : <<p, q>> \in R /\ <<q, r>> \in R => <<p, r>> \in R
    <3> HIDE DEF R
    <3>1. \A a \in GpuTeam : pr[a] \in Int /\ a \in Int
      BY <1>1, <1>2
    <3>2. \A p, q \in GpuTeam : <<p, q>> \in R <=> (pr[p] < pr[q] \/ (pr[p] = pr[q] /\ p < q))
      BY <1>3, <1>4
    <3> QED
      BY <3>1, <3>2
  <2> HIDE DEF R
  <2> QED
    BY <2>1 DEF Ranked
<1>6. \A a \in GpuTeam :
        rank[a] = Gpus!Cardinality({e \in GpuTeam : Gpus!Before(req, e, a)})
  <2>1. ASSUME NEW a \in GpuTeam
        PROVE  rank[a] = Gpus!Cardinality({e \in GpuTeam : Gpus!Before(req, e, a)})
    <3>1. {o \in GpuTeam : <<o, a>> \in R} = {e \in GpuTeam : Gpus!Before(req, e, a)}
      BY <1>4
    <3>2. rank[a] = Cardinality({o \in GpuTeam : <<o, a>> \in R})
      OBVIOUS
    <3> HIDE DEF R, rank
    <3> QED
      BY <3>1, <3>2, Zenon DEF Gpus!Cardinality, Cardinality
  <2> HIDE DEF R, rank
  <2> QED
    BY <2>1, Zenon
<1>7. /\ \A p \in GpuTeam : rank[p] \in 0 .. N - 1
      /\ \A p, q \in GpuTeam : <<p, q>> \in R => rank[p] < rank[q]
      /\ \A p, q \in GpuTeam : rank[p] = rank[q] => p = q
      /\ \A n \in 0 .. N - 1 : \E p \in GpuTeam : rank[p] = n
  <2> HIDE DEF R, rank
  <2>1. IsFiniteSet(GpuTeam)
    BY GpuHost, Zenon
  <2>2. PICK P : P = GpuTeam
    OBVIOUS
  <2>3. IsFiniteSet(P) /\ Ranked(P, R, rank) /\ N = Cardinality(P)
    BY <1>1, <1>5, <2>1, <2>2, Zenon
  <2>4. /\ \A p \in P : rank[p] \in 0 .. Cardinality(P) - 1
        /\ \A p, q \in P : <<p, q>> \in R => rank[p] < rank[q]
        /\ \A p, q \in P : rank[p] = rank[q] => p = q
        /\ \A n \in 0 .. Cardinality(P) - 1 : \E p \in P : rank[p] = n
    BY <2>3, Places
  <2> QED
    BY <2>2, <2>3, <2>4, Zenon
<1>8. PICK turn : turn = Gpus!InOrder(req)
  OBVIOUS
<1> HIDE DEF R, rank
<1>9. \A k \in 1 .. N : turn[k] \in GpuTeam /\ rank[turn[k]] = k - 1
  <2>1. ASSUME NEW k \in 1 .. N PROVE turn[k] \in GpuTeam /\ rank[turn[k]] = k - 1
    <3>1. turn[k] = CHOOSE a \in GpuTeam :
                      Gpus!Cardinality({e \in GpuTeam : Gpus!Before(req, e, a)}) = k - 1
      BY <1>1, <1>8, TeamOfHost, Zenon DEF Gpus!InOrder
    <3>2. k - 1 \in 0 .. N - 1
      OBVIOUS
    <3>3. PICK p \in GpuTeam : rank[p] = k - 1
      BY <1>7, <3>2, Zenon
    <3>4. Gpus!Cardinality({e \in GpuTeam : Gpus!Before(req, e, p)}) = k - 1
      BY <1>6, <3>3, Zenon
    <3>5. /\ turn[k] \in GpuTeam
          /\ Gpus!Cardinality({e \in GpuTeam : Gpus!Before(req, e, turn[k])}) = k - 1
      BY <3>1, <3>3, <3>4, Zenon
    <3> QED
      BY <1>6, <3>5, Zenon
  <2> QED
    BY <2>1
<1>10. \A j, k \in 1 .. N : turn[j] = turn[k] => j = k
  BY <1>9
<1>11. \A a \in GpuTeam : \E k \in 1 .. N : turn[k] = a
  <2>1. ASSUME NEW a \in GpuTeam PROVE \E k \in 1 .. N : turn[k] = a
    <3>1. PICK k : k = rank[a] + 1
      OBVIOUS
    <3>2. rank[a] \in 0 .. N - 1
      BY <1>7, Zenon
    <3>3. k \in 1 .. N /\ k - 1 = rank[a]
      BY <3>1, <3>2
    <3>4. turn[k] \in GpuTeam /\ rank[turn[k]] = rank[a]
      BY <1>9, <3>3
    <3> QED
      BY <1>7, <3>3, <3>4, Zenon
  <2> QED
    BY <2>1
<1>12. \A j, k \in 1 .. N : req[turn[j]].kind # "strict" /\ req[turn[k]].kind = "strict" => k < j
  <2>1. ASSUME NEW j \in 1 .. N, NEW k \in 1 .. N,
               req[turn[j]].kind # "strict", req[turn[k]].kind = "strict"
        PROVE  k < j
    <3>1. turn[j] \in GpuTeam /\ turn[k] \in GpuTeam
      BY <1>9
    <3>2. pr[turn[k]] < pr[turn[j]]
      BY <1>2, <2>1, <3>1
    <3>3. <<turn[k], turn[j]>> \in R
      BY <1>3, <1>4, <3>1, <3>2
    <3>4. rank[turn[k]] < rank[turn[j]]
      BY <1>7, <3>1, <3>3, Zenon
    <3> QED
      BY <1>9, <3>4
  <2> QED
    BY <2>1
<1>13. Turns(req, N, turn)
  BY <1>9, <1>10, <1>11, <1>12 DEF Turns
<1> QED
  BY <1>1, <1>8, <1>13

\* What an agent reserves is something, and no less than it declares.
LEMMA ReserveIs ==
  ASSUME NEW r \in Gpus!Request
  PROVE  /\ Gpus!Reserve(r) \in Nat \ {0} /\ Gpus!Mem(r.mem) \in Nat
         /\ Gpus!Mem(r.mem) <= Gpus!Reserve(r)
<1>1. r.mem \in Nat
  BY RequestIs
<1>2. PICK m : m = Gpus!Mem(r.mem)
  OBVIOUS
<1>3. m \in Nat /\ (r.mem > 0 => m > 0) /\ (r.mem = 0 => m = 0)
  <2>1. r.mem \in Int
    BY <1>1
  <2> QED
    BY <1>1, <1>2, <2>1, MemIs
<1>4. Gpus!Reserve(r) = IF r.mem > 0 THEN m ELSE 1
  BY <1>2 DEF Gpus!Reserve
<1>5. CASE r.mem > 0
  BY <1>1, <1>2, <1>3, <1>4, <1>5
<1>6. CASE r.mem = 0
  BY <1>2, <1>3, <1>4, <1>6
<1> QED
  BY <1>1, <1>5, <1>6

\* Who reserves less than another declares less.
LEMMA ReserveLess ==
  ASSUME NEW r \in Gpus!Request, NEW q \in Gpus!Request, Gpus!Reserve(r) < Gpus!Reserve(q)
  PROVE  r.mem < q.mem
<1>1. PICK x, y, u, v : /\ x = Gpus!Reserve(r) /\ y = Gpus!Reserve(q)
                        /\ u = Gpus!Mem(r.mem) /\ v = Gpus!Mem(q.mem)
  OBVIOUS
<1>2. x \in Nat \ {0} /\ y \in Nat \ {0} /\ u \in Nat /\ v \in Nat /\ u <= x /\ x < y
  BY <1>1, ReserveIs
<1>3. y = v \/ y = 1
  BY <1>1 DEF Gpus!Reserve
<1>4. u < v
  BY <1>2, <1>3
<1>5. r.mem \in Int /\ q.mem \in Int
  BY RequestIs
<1> QED
  BY <1>1, <1>4, <1>5, MemIs

LEMMA RoomiestIs ==
  ASSUME NEW F \in SUBSET GpuDevices, F # {}, NEW free, \A d \in F : free[d] \in Int
  PROVE  Gpus!Roomiest(free, F) \in F
<1> DEFINE key == [d \in F |-> -free[d]]
<1>1. F \in SUBSET Nat /\ IsFiniteSet(F)
  BY GpuHost, FS_Subset
<1>2. \A d \in F : key[d] = -free[d] /\ key[d] \in Int
  OBVIOUS
<1> HIDE DEF key
<1>3. PICK d \in F : \A e \in F : key[d] < key[e] \/ (key[d] = key[e] /\ d <= e)
  BY <1>1, <1>2, LeastThere
<1>4. \A e \in F : free[d] > free[e] \/ (free[d] = free[e] /\ d <= e)
  BY <1>2, <1>3
<1> QED
  BY <1>4, Zenon DEF Gpus!Roomiest

\* What is known of a plan while it is made, on the devices D.
GpuStates(D) ==
  [free : [D -> Int], at : [GpuTeam -> D \cup {Gpus!CPU}], errors : SUBSET GpuTeam,
   warnings : SUBSET GpuTeam, left : Int]

\* There is no room for a request, or no budget.
Denied(D, s, r) ==
  \/ \A d \in D : s.free[d] < Gpus!Mem(r.mem)
  \/ s.left # -1 /\ s.left < Gpus!Reserve(r)

GetsNone(D, s, r, a, t) ==
  /\ t.free = s.free /\ t.at = s.at /\ t.left = s.left
  /\ r.kind = "none" \/ Denied(D, s, r)
  /\ r.kind = "strict" => t.errors = s.errors \cup {a}
  /\ r.kind # "strict" => t.errors = s.errors

Gets(D, s, r, a, t, d) ==
  /\ Gpus!Mem(r.mem) <= s.free[d]
  /\ s.left = -1 \/ Gpus!Reserve(r) <= s.left
  /\ t.errors = s.errors
  /\ t.at = [s.at EXCEPT ![a] = d]
  /\ t.free = [s.free EXCEPT ![d] = s.free[d] - Gpus!Reserve(r)]
  /\ t.left = IF s.left = -1 THEN s.left ELSE s.left - Gpus!Reserve(r)

LEMMA ServedIs ==
  ASSUME NEW D \in SUBSET GpuDevices, NEW s \in GpuStates(D), NEW r \in Gpus!Request,
         NEW a \in GpuTeam, NEW t, t = Gpus!Assign(s, r, a)
  PROVE  /\ t \in GpuStates(D)
         /\ GetsNone(D, s, r, a, t) \/ \E d \in D : Gets(D, s, r, a, t, d)
<1>1. PICK m, v : m = Gpus!Mem(r.mem) /\ v = Gpus!Reserve(r)
  OBVIOUS
<1>2. m \in Int /\ v \in Int
  BY <1>1, ReserveIs
<1>3. s.free \in [D -> Int] /\ s.left \in Int
  BY DEF GpuStates
<1>4. PICK F : F = Gpus!Fits(s.free, r)
  OBVIOUS
<1>5. F \in SUBSET D /\ \A d \in D : d \in F <=> m <= s.free[d]
  <2>1. F = {d \in D : s.free[d] >= m}
    BY <1>1, <1>3, <1>4 DEF Gpus!Fits
  <2> QED
    BY <1>2, <1>3, <2>1
<1>6. Gpus!Affords(s, r) <=> (s.left = -1 \/ v <= s.left)
  BY <1>1 DEF Gpus!Affords
<1>7. CASE ~Gpus!WantsGpu(r)
  <2>1. t = s /\ r.kind = "none"
    BY <1>7 DEF Gpus!Assign, Gpus!WantsGpu
  <2> QED
    BY <2>1 DEF GetsNone
<1>8. CASE Gpus!WantsGpu(r) /\ (F = {} \/ ~Gpus!Affords(s, r))
  <2>1. t = Gpus!Refused(s, r, a)
    BY <1>4, <1>8 DEF Gpus!Assign
  <2>2. Denied(D, s, r)
    BY <1>1, <1>2, <1>3, <1>5, <1>6, <1>8 DEF Denied
  <2>3. /\ r.kind = "strict" => t = [s EXCEPT !.errors = s.errors \cup {a}]
        /\ r.kind # "strict" => t = [s EXCEPT !.warnings = s.warnings \cup {a}]
    BY <2>1 DEF Gpus!Refused
  <2>4. t \in GpuStates(D)
    BY <2>3 DEF GpuStates
  <2>5. GetsNone(D, s, r, a, t)
    BY <2>2, <2>3 DEF GetsNone, GpuStates
  <2> QED
    BY <2>4, <2>5
<1>9. CASE Gpus!WantsGpu(r) /\ F # {} /\ Gpus!Affords(s, r)
  <2>1. PICK d : d = Gpus!Roomiest(s.free, F)
    OBVIOUS
  <2>2. d \in F
    BY <1>3, <1>5, <1>9, <2>1, RoomiestIs
  <2>3. t = [s EXCEPT !.free[d] = @ - v, !.at[a] = d, !.left = IF @ = -1 THEN @ ELSE @ - v]
    BY <1>1, <1>4, <1>9, <2>1, Zenon DEF Gpus!Assign
  <2>4. /\ t.errors = s.errors /\ t.warnings = s.warnings /\ t.at = [s.at EXCEPT ![a] = d]
        /\ t.free = [s.free EXCEPT ![d] = s.free[d] - v]
        /\ t.left = IF s.left = -1 THEN s.left ELSE s.left - v
    BY <2>3 DEF GpuStates
  <2>5. t \in GpuStates(D)
    <3>1. t.free \in [D -> Int] /\ t.at \in [GpuTeam -> D \cup {Gpus!CPU}] /\ t.left \in Int
          /\ t.errors \in SUBSET GpuTeam /\ t.warnings \in SUBSET GpuTeam
      BY <1>2, <1>3, <1>5, <2>2, <2>4 DEF GpuStates
    <3>2. t = [free |-> t.free, at |-> t.at, errors |-> t.errors, warnings |-> t.warnings,
               left |-> t.left]
      BY <2>3 DEF GpuStates
    <3> QED
      BY <3>1, <3>2 DEF GpuStates
  <2>6. Gets(D, s, r, a, t, d)
    BY <1>1, <1>5, <1>6, <1>9, <2>2, <2>4 DEF Gets
  <2> QED
    BY <1>5, <2>2, <2>5, <2>6
<1> QED
  BY <1>7, <1>8, <1>9

\* What the agents of S declare, in megabytes; those on a device, and those on any.
Weight(req, S)    == Gpus!Mem(Gpus!Units(req, S))
OnOne(req, at, d) == Weight(req, {a \in GpuTeam : at[a] = d})
OnAny(req, at)    == Weight(req, {a \in GpuTeam : at[a] # Gpus!CPU})

LEMMA MemOneMore ==
  ASSUME NEW req \in [GpuTeam -> Gpus!Request], NEW S \in SUBSET GpuTeam, NEW a \in GpuTeam \ S
  PROVE  /\ Weight(req, S) \in Int
         /\ Weight(req, S \cup {a}) = Weight(req, S) + Gpus!Mem(req[a].mem)
<1>1. /\ Gpus!Units(req, S) \in Int /\ req[a].mem \in Int
      /\ Gpus!Units(req, S \cup {a}) = Gpus!Units(req, S) + req[a].mem
  <2>1. /\ Gpus!Units(req, S) \in Int /\ req[a].mem \in Nat
        /\ Gpus!Units(req, S \cup {a}) = Gpus!Units(req, S) + req[a].mem
    BY UnitsOfOneMore
  <2>2. \A i \in Nat : i \in Int
    OBVIOUS
  <2> QED
    BY <2>1, <2>2, Zenon
<1>2. PICK x, y : x = Gpus!Units(req, S) /\ y = req[a].mem
  OBVIOUS
<1>3. Gpus!Mem(x) \in Int /\ Gpus!Mem(x + y) = Gpus!Mem(x) + Gpus!Mem(y)
  BY <1>1, <1>2, MemIs
<1> QED
  BY <1>1, <1>2, <1>3 DEF Weight

Moved(at, a, d, new) == new = [at EXCEPT ![a] = d]

LEMMA PutOnDevice ==
  ASSUME NEW req \in [GpuTeam -> Gpus!Request], NEW D \in SUBSET GpuDevices,
         NEW at \in [GpuTeam -> D \cup {Gpus!CPU}], NEW a \in GpuTeam, at[a] = Gpus!CPU,
         NEW d \in D, NEW new, Moved(at, a, d, new)
  PROVE  /\ \A e \in D : e # d => OnOne(req, new, e) = OnOne(req, at, e)
         /\ OnOne(req, at, d) \in Int /\ OnAny(req, at) \in Int
         /\ OnOne(req, new, d) = OnOne(req, at, d) + Gpus!Mem(req[a].mem)
         /\ OnAny(req, new) = OnAny(req, at) + Gpus!Mem(req[a].mem)
<1>1. d \in Nat /\ d # Gpus!CPU /\ \A e \in D : e # Gpus!CPU
  BY GpuHost DEF Gpus!CPU
<1>2. new[a] = d /\ \A b \in GpuTeam : b # a => new[b] = at[b]
  BY DEF Moved
<1>3. ASSUME NEW e \in D, e # d PROVE OnOne(req, new, e) = OnOne(req, at, e)
  <2>1. {b \in GpuTeam : new[b] = e} = {b \in GpuTeam : at[b] = e}
    BY <1>1, <1>2, <1>3
  <2> QED
    BY <2>1, Zenon DEF OnOne
<1>4. OnOne(req, at, d) \in Int /\ OnOne(req, new, d) = OnOne(req, at, d) + Gpus!Mem(req[a].mem)
  <2> DEFINE S == {b \in GpuTeam : at[b] = d}
  <2>1. {b \in GpuTeam : new[b] = d} = S \cup {a} /\ a \in GpuTeam \ S
    BY <1>1, <1>2
  <2>2. S \in SUBSET GpuTeam
    OBVIOUS
  <2>3. OnOne(req, at, d) = Weight(req, S) /\
        OnOne(req, new, d) = Weight(req, S \cup {a})
    BY <2>1, Zenon DEF OnOne
  <2> HIDE DEF S
  <2> QED
    BY <2>1, <2>2, <2>3, MemOneMore
<1>5. OnAny(req, at) \in Int /\ OnAny(req, new) = OnAny(req, at) + Gpus!Mem(req[a].mem)
  <2> DEFINE S == {b \in GpuTeam : at[b] # Gpus!CPU}
  <2>1. {b \in GpuTeam : new[b] # Gpus!CPU} = S \cup {a} /\ a \in GpuTeam \ S
    BY <1>1, <1>2
  <2>2. S \in SUBSET GpuTeam
    OBVIOUS
  <2>3. OnAny(req, at) = Weight(req, S) /\
        OnAny(req, new) = Weight(req, S \cup {a})
    BY <2>1, Zenon DEF OnAny
  <2> HIDE DEF S
  <2> QED
    BY <2>1, <2>2, <2>3, MemOneMore
<1> QED
  BY <1>3, <1>4, <1>5, Zenon

\* The plan after k turns, of the requests of a crew that sees some memory and has a budget.
OrderKept(k, s, req, turn) ==
  \A i, j \in 1 .. k :
    /\ req[turn[j]].kind = "strict" /\ s.at[turn[j]] = Gpus!CPU
    /\ req[turn[i]].kind # "strict" /\ s.at[turn[i]] # Gpus!CPU
    => req[turn[i]].mem < req[turn[j]].mem

ServedWell(k, s, req, sees, b, N, turn) ==
  /\ s \in GpuStates(DOMAIN sees)
  /\ \A j \in 1 .. N : j > k => s.at[turn[j]] = Gpus!CPU
  /\ \A d \in DOMAIN sees : /\ OnOne(req, s.at, d) <= sees[d]
                            /\ OnOne(req, s.at, d) <= sees[d] - s.free[d]
  /\ b = 0 => s.left = -1
  /\ b > 0 => s.left >= 0 /\ OnAny(req, s.at) <= Gpus!Mem(b) - s.left
  /\ \A j \in 1 .. k : req[turn[j]].kind = "strict" /\ s.at[turn[j]] = Gpus!CPU =>
       turn[j] \in s.errors /\ Denied(DOMAIN sees, s, req[turn[j]])
  /\ OrderKept(k, s, req, turn)

\* A crew's call: what its agents ask for, the memory it sees and its budget.
Asked(req, sees, b) ==
  /\ req \in [GpuTeam -> Gpus!Request] /\ b \in Gpus!Budgets /\ DOMAIN sees \in SUBSET GpuDevices
  /\ sees \in [DOMAIN sees -> Int] /\ \A d \in DOMAIN sees : sees[d] >= 0

\* Who was refused stays refused: what is free only shrinks.
LEMMA StillDenied ==
  ASSUME NEW D \in SUBSET GpuDevices, NEW s \in GpuStates(D), NEW t \in GpuStates(D),
         NEW r \in Gpus!Request, NEW q \in Gpus!Request, NEW a \in GpuTeam,
         GetsNone(D, s, r, a, t) \/ \E d \in D : Gets(D, s, r, a, t, d), Denied(D, s, q),
         s.left >= -1
  PROVE  Denied(D, t, q)
<1>1. PICK m, v, w : m = Gpus!Mem(q.mem) /\ v = Gpus!Reserve(q) /\ w = Gpus!Reserve(r)
  OBVIOUS
<1>2. m \in Int /\ v \in Int /\ w \in Nat \ {0}
  BY <1>1, ReserveIs
<1>3. s.free \in [D -> Int] /\ s.left \in Int /\ t.free \in [D -> Int]
  BY DEF GpuStates
<1>4. (\A d \in D : s.free[d] < m) \/ (s.left # -1 /\ s.left < v)
  BY <1>1 DEF Denied
<1>5. CASE GetsNone(D, s, r, a, t)
  BY <1>1, <1>4, <1>5 DEF GetsNone, Denied
<1>6. CASE \E d \in D : Gets(D, s, r, a, t, d)
  <2>1. PICK d \in D : Gets(D, s, r, a, t, d)
    BY <1>6
  <2>2. /\ s.left = -1 \/ w <= s.left
        /\ t.free = [s.free EXCEPT ![d] = s.free[d] - w]
        /\ t.left = IF s.left = -1 THEN s.left ELSE s.left - w
    BY <1>1, <2>1 DEF Gets
  <2>3. \A e \in D : t.free[e] <= s.free[e]
    BY <1>2, <1>3, <2>2
  <2>4. ASSUME \A e \in D : s.free[e] < m PROVE Denied(D, t, q)
    <3>1. \A e \in D : t.free[e] < m
      BY <1>2, <1>3, <2>3, <2>4
    <3> QED
      BY <1>1, <3>1 DEF Denied
  <2>5. ASSUME s.left # -1, s.left < v PROVE Denied(D, t, q)
    <3>1. w <= s.left /\ t.left = s.left - w
      BY <2>2, <2>5
    <3>2. t.left # -1 /\ t.left < v
      BY <1>2, <1>3, <2>5, <3>1
    <3> QED
      BY <1>1, <3>2 DEF Denied
  <2> QED
    BY <1>4, <2>4, <2>5
<1> QED
  BY <1>5, <1>6

\* Who is given a device after another was refused declares less.
LEMMA GivenLess ==
  ASSUME NEW D \in SUBSET GpuDevices, NEW s \in GpuStates(D), NEW t,
         NEW r \in Gpus!Request, NEW q \in Gpus!Request, NEW a \in GpuTeam, NEW d \in D,
         Gets(D, s, r, a, t, d), Denied(D, s, q)
  PROVE  r.mem < q.mem
<1>1. PICK m, n, v, w : /\ m = Gpus!Mem(q.mem) /\ v = Gpus!Reserve(q)
                        /\ n = Gpus!Mem(r.mem) /\ w = Gpus!Reserve(r)
  OBVIOUS
<1>2. m \in Int /\ v \in Int /\ n \in Int /\ w \in Int
  BY <1>1, ReserveIs
<1>3. s.free[d] \in Int /\ s.left \in Int
  BY DEF GpuStates
<1>4. n <= s.free[d] /\ (s.left = -1 \/ w <= s.left)
  BY <1>1 DEF Gets
<1>5. s.free[d] < m \/ (s.left # -1 /\ s.left < v)
  BY <1>1 DEF Denied
<1>6. ASSUME n < m PROVE r.mem < q.mem
  <2>1. r.mem \in Int /\ q.mem \in Int
    BY RequestIs
  <2> QED
    BY <1>1, <1>6, <2>1, MemIs
<1>7. ASSUME w < v PROVE r.mem < q.mem
  BY <1>1, <1>7, ReserveLess
<1>8. n < m \/ w < v
  BY <1>2, <1>3, <1>4, <1>5
<1> QED
  BY <1>6, <1>7, <1>8

LEMMA ServedOneMore ==
  ASSUME NEW req, NEW sees, NEW b, Asked(req, sees, b),
         NEW N \in Nat, NEW turn, Turns(req, N, turn), NEW k \in 1 .. N,
         NEW s, ServedWell(k - 1, s, req, sees, b, N, turn),
         NEW t, t = Gpus!Assign(s, req[turn[k]], turn[k])
  PROVE  ServedWell(k, t, req, sees, b, N, turn)
<1>1. PICK D, a, r : D = DOMAIN sees /\ a = turn[k] /\ r = req[turn[k]]
  OBVIOUS
<1>2. /\ D \in SUBSET GpuDevices /\ req \in [GpuTeam -> Gpus!Request] /\ b \in Nat
      /\ \A d \in D : sees[d] \in Int
  BY <1>1, GpuHost DEF Asked, Gpus!Budgets
<1>3. /\ \A j \in 1 .. N : turn[j] \in GpuTeam
      /\ \A i, j \in 1 .. N : turn[i] = turn[j] => i = j
      /\ \A i, j \in 1 .. N : req[turn[i]].kind # "strict" /\ req[turn[j]].kind = "strict" => j < i
  BY DEF Turns
<1>4. /\ s \in GpuStates(D)
      /\ \A j \in 1 .. N : j > k - 1 => s.at[turn[j]] = Gpus!CPU
      /\ \A d \in D : OnOne(req, s.at, d) <= sees[d] /\ OnOne(req, s.at, d) <= sees[d] - s.free[d]
      /\ b = 0 => s.left = -1
      /\ b > 0 => s.left >= 0 /\ OnAny(req, s.at) <= Gpus!Mem(b) - s.left
      /\ \A j \in 1 .. k - 1 : req[turn[j]].kind = "strict" /\ s.at[turn[j]] = Gpus!CPU =>
           turn[j] \in s.errors /\ Denied(D, s, req[turn[j]])
      /\ OrderKept(k - 1, s, req, turn)
  BY <1>1 DEF ServedWell
<1>5. a \in GpuTeam /\ r \in Gpus!Request /\ s.at[a] = Gpus!CPU
  BY <1>1, <1>2, <1>3, <1>4
<1>6. t \in GpuStates(D) /\ (GetsNone(D, s, r, a, t) \/ \E d \in D : Gets(D, s, r, a, t, d))
  BY <1>1, <1>2, <1>4, <1>5, ServedIs
<1>7. s.at \in [GpuTeam -> D \cup {Gpus!CPU}] /\ s.free \in [D -> Int] /\ s.left \in Int
  BY <1>4 DEF GpuStates
<1>8. PICK m, w : m = Gpus!Mem(r.mem) /\ w = Gpus!Reserve(r)
  OBVIOUS
<1>9. m \in Nat /\ w \in Nat \ {0} /\ m <= w /\ Gpus!Mem(b) \in Int
  <2>1. b \in Int
    BY <1>2
  <2> QED
    BY <1>5, <1>8, <2>1, ReserveIs, MemIs
<1>10. \A j \in 1 .. k : j \in 1 .. N /\ turn[j] \in GpuTeam /\ req[turn[j]] \in Gpus!Request
  BY <1>2, <1>3
<1>11. \A j \in 1 .. N : j # k => turn[j] # a
  BY <1>1, <1>3
<1>12. s.left >= -1
  BY <1>2, <1>4, <1>7
<1>13. CASE GetsNone(D, s, r, a, t)
  <2>1. /\ t.free = s.free /\ t.at = s.at /\ t.left = s.left
        /\ r.kind = "none" \/ Denied(D, s, r)
        /\ r.kind = "strict" => t.errors = s.errors \cup {a}
        /\ r.kind # "strict" => t.errors = s.errors
    BY <1>13 DEF GetsNone
  <2>2. \A j \in 1 .. N : j > k => t.at[turn[j]] = Gpus!CPU
    BY <1>4, <2>1
  <2>3. \A j \in 1 .. k : req[turn[j]].kind = "strict" /\ t.at[turn[j]] = Gpus!CPU =>
          turn[j] \in t.errors /\ Denied(D, t, req[turn[j]])
    <3> SUFFICES ASSUME NEW j \in 1 .. k, req[turn[j]].kind = "strict", s.at[turn[j]] = Gpus!CPU
                 PROVE  turn[j] \in t.errors /\ Denied(D, t, req[turn[j]])
      BY <2>1
    <3>1. CASE j = k
      <4>1. r.kind = "strict" /\ turn[j] = a /\ req[turn[j]] = r
        BY <1>1, <3>1
      <4>2. Denied(D, s, r)
        BY <2>1, <4>1
      <4>3. Denied(D, t, r)
        BY <2>1, <4>2 DEF Denied
      <4> QED
        BY <2>1, <4>1, <4>3
    <3>2. CASE j # k
      <4>1. j \in 1 .. k - 1
        BY <3>2
      <4>2. turn[j] \in s.errors /\ Denied(D, s, req[turn[j]])
        BY <1>4, <4>1
      <4>3. Denied(D, t, req[turn[j]])
        BY <2>1, <4>2 DEF Denied
      <4> QED
        BY <2>1, <4>2, <4>3
    <3> QED
      BY <3>1, <3>2
  <2>4. OrderKept(k, t, req, turn)
    <3> SUFFICES ASSUME NEW i \in 1 .. k, NEW j \in 1 .. k,
                        req[turn[j]].kind = "strict", s.at[turn[j]] = Gpus!CPU,
                        req[turn[i]].kind # "strict", s.at[turn[i]] # Gpus!CPU
                 PROVE  req[turn[i]].mem < req[turn[j]].mem
      BY <2>1 DEF OrderKept
    <3>1. i # k
      BY <1>1, <1>5
    <3>2. j < i
      BY <1>3, <1>10
    <3>3. i \in 1 .. k - 1 /\ j \in 1 .. k - 1
      BY <3>1, <3>2
    <3> QED
      BY <1>4, <3>3 DEF OrderKept
  <2> QED
    BY <1>1, <1>4, <1>6, <2>1, <2>2, <2>3, <2>4 DEF ServedWell
<1>14. CASE \E d \in D : Gets(D, s, r, a, t, d)
  <2>1. PICK d \in D : Gets(D, s, r, a, t, d)
    BY <1>14
  <2>2. /\ m <= s.free[d] /\ (s.left = -1 \/ w <= s.left) /\ t.errors = s.errors
        /\ t.at = [s.at EXCEPT ![a] = d]
        /\ t.free = [s.free EXCEPT ![d] = s.free[d] - w]
        /\ t.left = IF s.left = -1 THEN s.left ELSE s.left - w
    BY <1>8, <2>1 DEF Gets
  <2>3. t.at[a] = d /\ d # Gpus!CPU /\ \A x \in GpuTeam : x # a => t.at[x] = s.at[x]
    <3>1. d \in Nat
      BY <1>2, GpuHost
    <3> QED
      BY <1>5, <1>7, <2>2, <3>1 DEF Gpus!CPU
  <2>4. \A j \in 1 .. N : j > k => t.at[turn[j]] = Gpus!CPU
    BY <1>3, <1>4, <1>11, <2>3
  <2>5. /\ \A e \in D : e # d => OnOne(req, t.at, e) = OnOne(req, s.at, e)
        /\ OnOne(req, s.at, d) \in Int /\ OnAny(req, s.at) \in Int
        /\ OnOne(req, t.at, d) = OnOne(req, s.at, d) + m
        /\ OnAny(req, t.at) = OnAny(req, s.at) + m
    <3>1. m = Gpus!Mem(req[a].mem)
      BY <1>1, <1>8
    <3>2. PICK at, new : /\ at = s.at /\ new = t.at /\ Moved(at, a, d, new)
                         /\ at \in [GpuTeam -> D \cup {Gpus!CPU}] /\ at[a] = Gpus!CPU
      BY <1>5, <1>7, <2>2 DEF Moved
    <3>3. /\ \A e \in D : e # d => OnOne(req, new, e) = OnOne(req, at, e)
          /\ OnOne(req, at, d) \in Int /\ OnAny(req, at) \in Int
          /\ OnOne(req, new, d) = OnOne(req, at, d) + Gpus!Mem(req[a].mem)
          /\ OnAny(req, new) = OnAny(req, at) + Gpus!Mem(req[a].mem)
      BY <1>2, <1>5, <3>2, PutOnDevice
    <3> QED
      BY <3>1, <3>2, <3>3, Zenon
  <2>6. \A e \in D : OnOne(req, t.at, e) <= sees[e] /\ OnOne(req, t.at, e) <= sees[e] - t.free[e]
    <3> SUFFICES ASSUME NEW e \in D
                 PROVE  OnOne(req, t.at, e) <= sees[e] /\ OnOne(req, t.at, e) <= sees[e] - t.free[e]
      OBVIOUS
    <3>1. CASE e # d
      <4>1. OnOne(req, t.at, e) = OnOne(req, s.at, e) /\ t.free[e] = s.free[e]
        BY <1>7, <2>2, <2>5, <3>1
      <4> QED
        BY <1>4, <4>1
    <3>2. CASE e = d
      <4>1. PICK x, y, f, g, c : /\ x = OnOne(req, s.at, d) /\ y = OnOne(req, t.at, d)
                                 /\ f = s.free[d] /\ g = t.free[d] /\ c = sees[d]
        OBVIOUS
      <4>2. x \in Int /\ y = x + m /\ f \in Int /\ g = f - w /\ m <= f /\ c \in Int /\ x <= c - f
        BY <1>2, <1>4, <1>7, <2>2, <2>5, <4>1
      <4>3. y <= c /\ y <= c - g
        BY <1>9, <4>2
      <4> QED
        BY <3>2, <4>1, <4>3
    <3> QED
      BY <3>1, <3>2
  <2>7. /\ b = 0 => t.left = -1
        /\ b > 0 => t.left >= 0 /\ OnAny(req, t.at) <= Gpus!Mem(b) - t.left
    <3>1. PICK x, y, l, u, c : /\ x = OnAny(req, s.at) /\ y = OnAny(req, t.at)
                               /\ l = s.left /\ u = t.left /\ c = Gpus!Mem(b)
      OBVIOUS
    <3>2. x \in Int /\ y = x + m /\ l \in Int /\ c \in Int /\ (l = -1 \/ w <= l)
      BY <1>7, <1>9, <2>2, <2>5, <3>1
    <3>3. (l = -1 => u = -1) /\ (l # -1 => u = l - w)
      BY <2>2, <3>1
    <3>4. (b = 0 => l = -1) /\ (b > 0 => l >= 0 /\ x <= c - l)
      BY <1>4, <3>1
    <3>5. (b = 0 => u = -1) /\ (b > 0 => u >= 0 /\ y <= c - u)
      BY <1>9, <3>2, <3>3, <3>4
    <3> QED
      BY <3>1, <3>5
  <2>8. \A j \in 1 .. k : req[turn[j]].kind = "strict" /\ t.at[turn[j]] = Gpus!CPU =>
          /\ j \in 1 .. k - 1 /\ s.at[turn[j]] = Gpus!CPU
          /\ turn[j] \in s.errors /\ Denied(D, s, req[turn[j]])
    <3> SUFFICES ASSUME NEW j \in 1 .. k, req[turn[j]].kind = "strict", t.at[turn[j]] = Gpus!CPU
                 PROVE  /\ j \in 1 .. k - 1 /\ s.at[turn[j]] = Gpus!CPU
                        /\ turn[j] \in s.errors /\ Denied(D, s, req[turn[j]])
      OBVIOUS
    <3>1. turn[j] # a
      BY <2>3
    <3>2. j # k
      BY <1>1, <3>1
    <3>3. j \in 1 .. k - 1 /\ s.at[turn[j]] = Gpus!CPU
      BY <1>10, <2>3, <3>1, <3>2
    <3> QED
      BY <1>4, <3>3
  <2>9. \A j \in 1 .. k : req[turn[j]].kind = "strict" /\ t.at[turn[j]] = Gpus!CPU =>
          turn[j] \in t.errors /\ Denied(D, t, req[turn[j]])
    <3> SUFFICES ASSUME NEW j \in 1 .. k, req[turn[j]].kind = "strict", t.at[turn[j]] = Gpus!CPU
                 PROVE  turn[j] \in t.errors /\ Denied(D, t, req[turn[j]])
      OBVIOUS
    <3>1. PICK q : q = req[turn[j]]
      OBVIOUS
    <3>2. q \in Gpus!Request /\ Denied(D, s, q) /\ turn[j] \in t.errors
      BY <1>10, <2>2, <2>8, <3>1
    <3>3. Denied(D, t, q)
      BY <1>2, <1>4, <1>5, <1>6, <1>12, <3>2, StillDenied
    <3> QED
      BY <3>1, <3>2, <3>3
  <2>10. OrderKept(k, t, req, turn)
    <3> SUFFICES ASSUME NEW i \in 1 .. k, NEW j \in 1 .. k,
                        req[turn[j]].kind = "strict", t.at[turn[j]] = Gpus!CPU,
                        req[turn[i]].kind # "strict", t.at[turn[i]] # Gpus!CPU
                 PROVE  req[turn[i]].mem < req[turn[j]].mem
      BY DEF OrderKept
    <3>1. j \in 1 .. k - 1 /\ s.at[turn[j]] = Gpus!CPU /\ Denied(D, s, req[turn[j]])
      BY <2>8
    <3>2. CASE i = k
      <4>1. PICK q : q = req[turn[j]]
        OBVIOUS
      <4>2. q \in Gpus!Request /\ Denied(D, s, q)
        BY <1>10, <3>1, <4>1
      <4>3. r.mem < q.mem
        BY <1>2, <1>4, <1>5, <2>1, <4>2, GivenLess
      <4> QED
        BY <1>1, <3>2, <4>1, <4>3
    <3>3. CASE i # k
      <4>1. i \in 1 .. k - 1 /\ s.at[turn[i]] # Gpus!CPU
        BY <1>10, <1>11, <2>3, <3>3
      <4> QED
        BY <1>4, <3>1, <4>1 DEF OrderKept
    <3> QED
      BY <3>2, <3>3
  <2> QED
    BY <1>1, <1>6, <2>4, <2>6, <2>7, <2>9, <2>10 DEF ServedWell
<1> QED
  BY <1>6, <1>13, <1>14

\* A plan that was made for a request: what PlanFits and StrictFirst say of it.
PlannedGpus(req, sees, b, s) ==
  /\ s \in GpuStates(DOMAIN sees)
  /\ \A d \in DOMAIN sees : OnOne(req, s.at, d) <= sees[d]
  /\ b > 0 => OnAny(req, s.at) <= Gpus!Mem(b)
  /\ \A a \in GpuTeam : req[a].kind = "strict" /\ s.at[a] = Gpus!CPU =>
       /\ a \in s.errors
       /\ \A e \in GpuTeam : s.at[e] # Gpus!CPU /\ req[e].kind # "strict" => req[e].mem < req[a].mem

LEMMA FreshIs ==
  ASSUME NEW req, NEW sees, NEW b, Asked(req, sees, b), NEW s, s = Gpus!Fresh(sees, b)
  PROVE  /\ s \in GpuStates(DOMAIN sees) /\ s.free = sees
         /\ \A a \in GpuTeam : s.at[a] = Gpus!CPU
         /\ s.left = IF b > 0 THEN Gpus!Mem(b) ELSE -1
         /\ \A d \in DOMAIN sees : OnOne(req, s.at, d) = 0
         /\ OnAny(req, s.at) = 0 /\ b \in Nat /\ Gpus!Mem(b) \in Nat
<1>1. PICK D : D = DOMAIN sees
  OBVIOUS
<1>2. /\ D \in SUBSET GpuDevices /\ req \in [GpuTeam -> Gpus!Request] /\ b \in Nat
      /\ sees \in [D -> Int] /\ \A d \in D : d # Gpus!CPU
  BY <1>1, GpuHost DEF Asked, Gpus!Budgets, Gpus!CPU
<1>3. b \in Int
  BY <1>2
<1>4. Gpus!Mem(b) \in Nat /\ Gpus!Mem(0) = 0
  BY <1>2, <1>3, MemIs
<1>5. PICK l : l = IF b > 0 THEN Gpus!Mem(b) ELSE -1
  OBVIOUS
<1>6. l \in Int
  BY <1>4, <1>5
<1>7. s = [free |-> sees, at |-> [a \in GpuTeam |-> Gpus!CPU], errors |-> {}, warnings |-> {},
           left |-> l]
  BY <1>5, Zenon DEF Gpus!Fresh
<1>8. s \in GpuStates(D) /\ s.free = sees /\ s.left = l /\ \A a \in GpuTeam : s.at[a] = Gpus!CPU
  BY <1>2, <1>6, <1>7 DEF GpuStates
<1>9. \A d \in D : {a \in GpuTeam : s.at[a] = d} = {}
  BY <1>2, <1>8
<1>10. {a \in GpuTeam : s.at[a] # Gpus!CPU} = {}
  BY <1>8
<1>11. Weight(req, {}) = 0
  <2>1. Gpus!Units(req, {}) = 0
    BY <1>2, UnitsOfNone
  <2> QED
    BY <1>4, <2>1 DEF Weight
<1>12. \A d \in D : OnOne(req, s.at, d) = 0
  BY <1>9, <1>11, Zenon DEF OnOne
<1>13. OnAny(req, s.at) = 0
  BY <1>10, <1>11, Zenon DEF OnAny
<1> QED
  BY <1>1, <1>2, <1>4, <1>5, <1>8, <1>12, <1>13

LEMMA UnitsInInt ==
  ASSUME NEW req \in [GpuTeam -> Gpus!Request], NEW S \in SUBSET GpuTeam
  PROVE  Weight(req, S) \in Int
<1>1. PICK N \in Nat : N = Cardinality(GpuTeam) /\ GpuTeam = 1 .. N
  BY TeamOfHost
<1>2. PICK f : Sums(req, S, N, f) /\ Gpus!Units(req, S) = f[N]
  BY <1>1, UnitsSummed
<1>3. Gpus!Units(req, S) \in Int
  BY <1>2 DEF Sums
<1> QED
  BY <1>3, MemIs DEF Weight

\* schedule_crew_gpus, of any call.
LEMMA ScheduledWell ==
  ASSUME NEW req, NEW sees, NEW b, Asked(req, sees, b)
  PROVE  PlannedGpus(req, sees, b, Gpus!Schedule(req, sees, b))
<1>1. PICK N \in Nat : N = Cardinality(GpuTeam) /\ GpuTeam = 1 .. N
  BY TeamOfHost
<1>2. PICK turn : turn = Gpus!InOrder(req)
  OBVIOUS
<1>3. Turns(req, N, turn)
  BY <1>1, <1>2, TurnsTaken
<1>4. PICK D : D = DOMAIN sees
  OBVIOUS
<1>5. /\ D \in SUBSET GpuDevices /\ req \in [GpuTeam -> Gpus!Request]
      /\ sees \in [D -> Int] /\ \A d \in D : sees[d] >= 0
  BY <1>4 DEF Asked
<1>6. PICK fresh : fresh = Gpus!Fresh(sees, b)
  OBVIOUS
<1>7. /\ fresh \in GpuStates(D) /\ fresh.free = sees
      /\ \A a \in GpuTeam : fresh.at[a] = Gpus!CPU
      /\ fresh.left = IF b > 0 THEN Gpus!Mem(b) ELSE -1
      /\ \A d \in D : OnOne(req, fresh.at, d) = 0
      /\ OnAny(req, fresh.at) = 0 /\ b \in Nat /\ Gpus!Mem(b) \in Nat
  BY <1>4, <1>6, FreshIs
<1>8. CASE Gpus!OverBudget(req, b)
  <2>1. PICK s : s = Gpus!Schedule(req, sees, b)
    OBVIOUS
  <2>2. s = [fresh EXCEPT !.errors = GpuTeam]
    BY <1>6, <1>8, <2>1, Zenon DEF Gpus!Schedule
  <2>3. s \in GpuStates(D) /\ s.at = fresh.at /\ s.errors = GpuTeam
    BY <1>7, <2>2 DEF GpuStates
  <2>4. PlannedGpus(req, sees, b, s)
    BY <1>4, <1>5, <1>7, <2>3 DEF PlannedGpus
  <2> QED
    BY <2>1, <2>4
<1>9. CASE ~Gpus!OverBudget(req, b)
  <2>1. \A k \in 1 .. N : turn[k] \in GpuTeam /\ req[turn[k]] \in Gpus!Request
    BY <1>3, <1>5 DEF Turns
  <2>2. ASSUME NEW s \in GpuStates(D), NEW k \in 1 .. N
        PROVE  Gpus!Assign(s, req[turn[k]], turn[k]) \in GpuStates(D)
    BY <1>5, <2>1, ServedIs
  <2>3. PICK S : S = GpuStates(D)
    OBVIOUS
  <2> DEFINE step == [x \in S \X (1 .. N) |-> Gpus!Assign(x[1], req[turn[x[2]]], turn[x[2]])]
  <2>4. step \in [S \X (1 .. N) -> S] /\ \A s \in S, k \in 1 .. N :
          step[<<s, k>>] = Gpus!Assign(s, req[turn[k]], turn[k])
    BY <2>2, <2>3
  <2> HIDE DEF step
  <2>5. PICK f : Taken(N, S, fresh, step, f)
    BY <1>7, <2>3, <2>4, StepsTaken
  <2>6. /\ f \in [0 .. N -> S] /\ f[0] = fresh
        /\ \A k \in 1 .. N : f[k - 1] \in S /\ f[k] = Gpus!Assign(f[k - 1], req[turn[k]], turn[k])
    <3>1. f \in [0 .. N -> S] /\ f[0] = fresh /\ \A k \in 1 .. N : f[k] = step[<<f[k - 1], k>>]
      BY <2>5 DEF Taken
    <3>2. \A k \in 1 .. N : f[k - 1] \in S
      BY <3>1
    <3> QED
      BY <2>4, <3>1, <3>2
  <2> DEFINE Goes(g) == g = [k \in 0 .. N |->
                               IF k = 0 THEN fresh ELSE Gpus!Assign(g[k - 1], req[turn[k]], turn[k])]
             served == CHOOSE g : Goes(g)
  <2>7. Goes(f)
    <3>1. \A k \in 0 .. N :
            f[k] = IF k = 0 THEN fresh ELSE Gpus!Assign(f[k - 1], req[turn[k]], turn[k])
      BY <2>6
    <3>2. f = [k \in 0 .. N |-> f[k]]
      BY <2>6
    <3> QED
      BY <3>1, <3>2, Zenon
  <2>8. Goes(served)
    <3> HIDE DEF Goes
    <3> QED
      BY <2>7, Zenon
  <2>9. Gpus!Schedule(req, sees, b) = served[N]
    <3>1. Gpus!Cardinality(GpuTeam) = N
      BY <1>1, TeamOfHost
    <3> QED
      BY <1>2, <1>6, <1>9, <3>1, Zenon DEF Gpus!Schedule
  <2> HIDE DEF served
  <2>10. PICK g : g = served /\ Goes(g)
    BY <2>8, Zenon
  <2>11. \A k \in 0 .. N :
           g[k] = IF k = 0 THEN fresh ELSE Gpus!Assign(g[k - 1], req[turn[k]], turn[k])
    BY <2>10, Zenon
  <2>12. /\ g[0] = fresh
         /\ \A k \in 1 .. N : g[k] = Gpus!Assign(g[k - 1], req[turn[k]], turn[k])
    BY <2>11
  <2>13. ServedWell(0, fresh, req, sees, b, N, turn)
    <3>1. \A j \in 1 .. 0 : FALSE
      OBVIOUS
    <3>2. OrderKept(0, fresh, req, turn)
      BY <3>1, Zenon DEF OrderKept
    <3>3. \A j \in 1 .. N : turn[j] \in GpuTeam
      BY <2>1
    <3>4. \A d \in D : OnOne(req, fresh.at, d) <= sees[d] /\ OnOne(req, fresh.at, d) <= sees[d] - fresh.free[d]
      BY <1>5, <1>7
    <3>5. (b = 0 => fresh.left = -1)
          /\ (b > 0 => fresh.left >= 0 /\ OnAny(req, fresh.at) <= Gpus!Mem(b) - fresh.left)
      BY <1>7
    <3> QED
      BY <1>4, <1>7, <3>1, <3>2, <3>3, <3>4, <3>5, Zenon DEF ServedWell
  <2> DEFINE T == {k \in 0 .. N : ServedWell(k, g[k], req, sees, b, N, turn)}
  <2>14. 0 \in T
    BY <2>12, <2>13
  <2>15. ASSUME NEW k \in 1 .. N, k - 1 \in T PROVE k \in T
    <3>1. PICK t : t = g[k]
      OBVIOUS
    <3>2. ServedWell(k - 1, g[k - 1], req, sees, b, N, turn)
      BY <2>15
    <3>3. t = Gpus!Assign(g[k - 1], req[turn[k]], turn[k])
      BY <2>12, <3>1
    <3>4. ServedWell(k, t, req, sees, b, N, turn)
      BY <1>3, <3>2, <3>3, ServedOneMore
    <3> QED
      BY <3>1, <3>4
  <2>16. \A k \in 0 .. N : k \in T
    <3> HIDE DEF T
    <3> QED
      BY <2>14, <2>15, CountedUp
  <2>17. PICK s : s = g[N] /\ s = Gpus!Schedule(req, sees, b)
    BY <2>9, <2>10
  <2>18. ServedWell(N, s, req, sees, b, N, turn)
    <3>1. N \in T
      <4> HIDE DEF T
      <4> QED
        BY <2>16
    <3>2. ServedWell(N, g[N], req, sees, b, N, turn)
      BY <3>1
    <3> QED
      BY <2>17, <3>2, Zenon
  <2>19. s \in GpuStates(D) /\ \A d \in D : OnOne(req, s.at, d) <= sees[d]
    BY <1>4, <2>18 DEF ServedWell
  <2>20. b > 0 => OnAny(req, s.at) <= Gpus!Mem(b)
    <3> SUFFICES ASSUME b > 0 PROVE OnAny(req, s.at) <= Gpus!Mem(b)
      OBVIOUS
    <3>1. s.left >= 0 /\ OnAny(req, s.at) <= Gpus!Mem(b) - s.left
      BY <2>18 DEF ServedWell
    <3>2. s.left \in Int
      BY <2>19 DEF GpuStates
    <3>3. OnAny(req, s.at) \in Int
      <4>1. {a \in GpuTeam : s.at[a] # Gpus!CPU} \in SUBSET GpuTeam
        OBVIOUS
      <4> QED
        BY <1>5, <4>1, UnitsInInt DEF OnAny
    <3> QED
      BY <1>7, <3>1, <3>2, <3>3
  <2>21. ASSUME NEW a \in GpuTeam, req[a].kind = "strict", s.at[a] = Gpus!CPU
         PROVE  /\ a \in s.errors
                /\ \A e \in GpuTeam : s.at[e] # Gpus!CPU /\ req[e].kind # "strict" => req[e].mem < req[a].mem
    <3>1. PICK j \in 1 .. N : turn[j] = a
      BY <1>3, Zenon DEF Turns
    <3>2. a \in s.errors
      BY <2>18, <2>21, <3>1 DEF ServedWell
    <3>3. ASSUME NEW e \in GpuTeam, s.at[e] # Gpus!CPU, req[e].kind # "strict"
          PROVE  req[e].mem < req[a].mem
      <4>1. PICK i \in 1 .. N : turn[i] = e
        BY <1>3, Zenon DEF Turns
      <4>2. OrderKept(N, s, req, turn)
        BY <2>18 DEF ServedWell
      <4> QED
        BY <2>21, <3>1, <3>3, <4>1, <4>2 DEF OrderKept
    <3> QED
      BY <3>2, <3>3
  <2>22. PlannedGpus(req, sees, b, s)
    BY <1>4, <2>19, <2>20, <2>21 DEF PlannedGpus
  <2> QED
    BY <2>17, <2>22
<1> QED
  BY <1>8, <1>9

\* The plan at hand is a sound one, whatever has happened since it was made.
GpusInv == Gpus!PlanFits /\ Gpus!StrictFirst

LEMMA NoPlanIs ==
  /\ Gpus!NoPlan.req = [a \in GpuTeam |-> [kind |-> "none", mem |-> 0]]
  /\ DOMAIN Gpus!NoPlan.seen = {} /\ Gpus!NoPlan.budget = 0
BY DEF Gpus!NoPlan

LEMMA NoPlanSound == plan = Gpus!NoPlan => GpusInv
<1> SUFFICES ASSUME plan = Gpus!NoPlan PROVE GpusInv
  OBVIOUS
<1>1. /\ plan.req = [a \in GpuTeam |-> [kind |-> "none", mem |-> 0]]
      /\ DOMAIN plan.seen = {} /\ plan.budget = 0
  BY NoPlanIs
<1>2. \A a \in GpuTeam : plan.req[a].kind # "strict"
  BY <1>1
<1>3. Gpus!PlanFits
  BY <1>1 DEF Gpus!PlanFits
<1>4. Gpus!StrictFirst
  BY <1>2, Zenon DEF Gpus!StrictFirst
<1> QED
  BY <1>3, <1>4 DEF GpusInv

\* A plan that is made is a sound one.
LEMMA PlanSound ==
  ASSUME NEW c, Gpus!MakePlan(c)
  PROVE  GpusInv'
<1>1. PICK sees \in Gpus!Statuses, req \in [GpuTeam -> Gpus!Request], b \in Gpus!Budgets :
        plan' = [req |-> req, seen |-> sees, budget |-> b,
                 others |-> [d \in DOMAIN sees |-> Gpus!Taken(d, GpuCrews)],
                 out |-> Gpus!Schedule(req, sees, b)]
  BY Zenon DEF Gpus!MakePlan
<1>2. PICK p, s, o : p = plan' /\ s = Gpus!Schedule(req, sees, b)
                     /\ o = [d \in DOMAIN sees |-> Gpus!Taken(d, GpuCrews)]
  OBVIOUS
<1>3. p = [req |-> req, seen |-> sees, budget |-> b, others |-> o, out |-> s]
  BY <1>1, <1>2, Zenon
<1>4. p.req = req /\ p.seen = sees /\ p.budget = b /\ p.out = s
  BY <1>3
<1>5. Asked(req, sees, b)
  <2>1. PICK D \in SUBSET GpuDevices : sees \in [D -> {Gpus!Mem(u) : u \in 0 .. MaxMem}]
    BY Zenon DEF Gpus!Statuses
  <2>2. DOMAIN sees = D
    BY <2>1
  <2>3. ASSUME NEW u \in 0 .. MaxMem PROVE Gpus!Mem(u) \in Nat
    <3>1. u \in Nat /\ u \in Int
      BY GpuHost
    <3> QED
      BY <3>1, MemIs
  <2>4. \A d \in D : sees[d] \in Nat
    <3>1. \A d \in D : \E u \in 0 .. MaxMem : sees[d] = Gpus!Mem(u)
      BY <2>1
    <3> QED
      BY <2>3, <3>1, Zenon
  <2>5. sees \in [D -> Int] /\ \A d \in D : sees[d] >= 0
    BY <2>1, <2>4
  <2> QED
    BY <2>2, <2>5 DEF Asked
<1>6. PlannedGpus(req, sees, b, s)
  BY <1>2, <1>5, ScheduledWell
<1>7. Gpus!PlanFits'
  <2>1. \A d \in DOMAIN sees : Gpus!Mem(Gpus!Units(req, {a \in GpuTeam : s.at[a] = d})) <= sees[d]
    BY <1>6, Zenon DEF PlannedGpus, OnOne, Weight
  <2>2. b > 0 => Gpus!Mem(Gpus!Units(req, {a \in GpuTeam : s.at[a] # Gpus!CPU})) <= Gpus!Mem(b)
    BY <1>6, Zenon DEF PlannedGpus, OnAny, Weight
  <2> QED
    BY <1>2, <1>4, <2>1, <2>2, Zenon DEF Gpus!PlanFits, Gpus!OnDevice
<1>8. Gpus!StrictFirst'
  BY <1>2, <1>4, <1>6, Zenon DEF Gpus!StrictFirst, PlannedGpus
<1> QED
  BY <1>7, <1>8 DEF GpusInv

LEMMA GpusInit == Gpus!Init => GpusInv
BY NoPlanSound, Zenon DEF Gpus!Init

LEMMA GpusStep == GpusInv /\ [Gpus!Next]_gpuVars => GpusInv'
<1> SUFFICES ASSUME GpusInv, [Gpus!Next]_gpuVars PROVE GpusInv'
  OBVIOUS
<1>1. ASSUME NEW c, Gpus!MakePlan(c) PROVE GpusInv'
  BY <1>1, PlanSound
<1>2. ASSUME plan' = plan PROVE GpusInv'
  BY <1>2 DEF GpusInv, Gpus!PlanFits, Gpus!StrictFirst, Gpus!OnDevice
<1>3. ASSUME NEW c, Gpus!Occupy(c) PROVE GpusInv'
  <2>1. plan' = Gpus!NoPlan
    BY <1>3, Zenon DEF Gpus!Occupy
  <2>2. PICK p : p = plan' /\ p = Gpus!NoPlan
    BY <2>1
  <2>3. p.req = [a \in GpuTeam |-> [kind |-> "none", mem |-> 0]] /\ DOMAIN p.seen = {} /\ p.budget = 0
    BY <2>2, NoPlanIs, Zenon
  <2>4. \A a \in GpuTeam : p.req[a].kind # "strict"
    BY <2>3
  <2>5. Gpus!PlanFits'
    BY <2>2, <2>3 DEF Gpus!PlanFits
  <2>6. Gpus!StrictFirst'
    BY <2>2, <2>4, Zenon DEF Gpus!StrictFirst
  <2> QED
    BY <2>5, <2>6 DEF GpusInv
<1>4. ASSUME NEW c, Gpus!Release(c) PROVE GpusInv'
  BY <1>2, <1>4, Zenon DEF Gpus!Release
<1>5. CASE Gpus!Expire
  BY <1>2, <1>5, Zenon DEF Gpus!Expire
<1>6. CASE UNCHANGED gpuVars
  BY <1>2, <1>6 DEF gpuVars
<1> QED
  BY <1>1, <1>3, <1>4, <1>5, <1>6, Zenon DEF Gpus!Next

----------------------------------------------------------------------------
(* The parts together                                                       *)

CrewsInv == IF part = "checkpoint" THEN CrewInv(LoneTeam) ELSE CrewInv(Agents)
RunsInv  == IF part = "alone" THEN RunInv(OneCrew, TwoInIt) ELSE RunInv(Crews, Team)

\* Which instance a step is of, part says, and no part's step touches another's variables.
LEMMA PartsApart ==
  ASSUME [Next]_vars
  PROVE  /\ part' = part
         /\ \/ part = "checkpoint" /\ Crew(LoneTeam, 1)!Next
            \/ part # "checkpoint" /\ Crew(Agents, MaxCheckpoints)!Next
            \/ UNCHANGED crewVars
         /\ Registry!Next \/ UNCHANGED regVars
         /\ Placement!Next \/ UNCHANGED placeVars
         /\ Gpus!Next \/ UNCHANGED gpuVars
         /\ \/ part = "alone" /\ Runs(OneCrew, TwoInIt, TwoGpus, 2)!Next
            \/ part # "alone" /\ Runs(Crews, Team, Devices, MaxFailures)!Next
            \/ UNCHANGED runVars
         /\ Alerting!Next \/ UNCHANGED alertsVars
         /\ Reports!Next \/ UNCHANGED reportsVars
         /\ Audit!Next \/ UNCHANGED auditVars
<1>1. ASSUME NEW p, Only(p)
      PROVE  /\ part = p /\ part' = part
             /\ p \notin {"crew", "checkpoint"} => UNCHANGED crewVars
             /\ p # "registry" => UNCHANGED regVars
             /\ p # "placement" => UNCHANGED placeVars
             /\ p # "gpus" => UNCHANGED gpuVars
             /\ p \notin {"runs", "alone"} => UNCHANGED runVars
             /\ p # "alerts" => UNCHANGED alertsVars
             /\ p # "reports" => UNCHANGED reportsVars
             /\ p # "audit" => UNCHANGED auditVars
  BY <1>1 DEF Only
<1>2. CASE Next
  BY <1>1, <1>2 DEF Next
<1>3. CASE UNCHANGED vars
  BY <1>3 DEF vars
<1> QED
  BY <1>2, <1>3

\* Whatever crashes, publications, health checks and documents written back stale: a
\* fleet's crew is completed only when each of its agents was, its document says no more
\* than the hash of its agents, and every agent is answered for
\* (config/fleet/coordinator.py, state.py, relay.py).
THEOREM CrewStaysHonest == Spec => []CrewHonest
<1>1. Init => CrewsInv
  BY CrewInvInit DEF Init, CrewsInv
<1>2. CrewsInv /\ [Next]_vars => CrewsInv'
  <2> SUFFICES ASSUME CrewsInv, [Next]_vars PROVE CrewsInv'
    OBVIOUS
  <2>1. CASE part = "checkpoint"
    <3>1. CrewInv(LoneTeam) /\ (Crew(LoneTeam, 1)!Next \/ UNCHANGED crewVars) /\ part' = part
      BY <2>1, PartsApart DEF CrewsInv
    <3>2. CrewInv(LoneTeam)'
      BY <3>1, CrewInvStep
    <3> QED
      BY <2>1, <3>1, <3>2 DEF CrewsInv
  <2>2. CASE part # "checkpoint"
    <3>1. /\ CrewInv(Agents) /\ part' = part
          /\ Crew(Agents, MaxCheckpoints)!Next \/ UNCHANGED crewVars
      BY <2>2, PartsApart DEF CrewsInv
    <3>2. CrewInv(Agents)'
      BY <3>1, CrewInvStep
    <3> QED
      BY <2>2, <3>1, <3>2 DEF CrewsInv
  <2> QED
    BY <2>1, <2>2
<1>3. CrewsInv => CrewHonest
  BY CrewHolds DEF CrewsInv, CrewHonest
<1> QED
  BY <1>1, <1>2, <1>3, PTL DEF Spec

\* However registrations, heartbeats, crashes and evictions overlap: a stopped node counts
\* as alive no longer than its time to live, and a punctual one stays in both listings
\* (config/fleet/registry.py).
THEOREM NodesStayListed == Spec => []NodesListed
<1>1. Init => InventoryInv
  BY InventoryInvInit DEF Init
<1>2. InventoryInv /\ [Next]_vars => InventoryInv'
  BY InventoryStep, PartsApart
<1>3. InventoryInv => NodesListed
  BY InventoryHolds
<1> QED
  BY <1>1, <1>2, <1>3, PTL DEF Spec

\* Whatever the fleet, the call and the policy: an agent is placed on a ready node of the
\* group that was asked for, or the caller is told, and the policy is kept; and whatever a
\* host's devices, a crew's requests and its budget: what its agents declare fits the
\* devices they share and the budget, and an agent that must have a GPU loses it to nobody
\* who needed it less and asked for as much (config/fleet/placement.py,
\* config/gpu_scheduler.py).
THEOREM PlacementHolds == Spec => []PlacementSound
<1>1. Init => FleetInv /\ GpusInv
  BY FleetInit, GpusInit DEF Init
<1>2. FleetInv /\ GpusInv /\ [Next]_vars => (FleetInv /\ GpusInv)'
  BY FleetStep, GpusStep, PartsApart
<1>3. FleetInv /\ GpusInv => PlacementSound
  BY FleetHolds, Zenon DEF GpusInv, PlacementSound
<1> QED
  BY <1>1, <1>2, <1>3, PTL DEF Spec

\* However runs, cancellations and failing commands overlap: a run ends with a true record,
\* its callback told the end, its GPU slots given back, and the gauge of active crews covers
\* the runs under way (webgui/routes/crews.py).
THEOREM RunsSettle == Spec => []RunsSettled
<1>1. Team \in Teams /\ TwoInIt \in Teams /\ IsFiniteSet(Crews) /\ IsFiniteSet(OneCrew)
  <2>1. Team \in Teams
    BY RunTeams DEF Teams
  <2>2. TwoInIt \in Teams
    <3>1. \A k \in {1, 2} : 1..k \subseteq {1, 2}
      OBVIOUS
    <3> QED
      BY <3>1 DEF Teams, TwoInIt
  <2>3. IsFiniteSet(OneCrew)
    BY FS_Singleton DEF OneCrew
  <2> QED
    BY <2>1, <2>2, <2>3, RunCrews
<1>2. Init => RunsInv
  BY RunInvInit DEF Init, RunsInv
<1>3. RunsInv /\ [Next]_vars => RunsInv'
  <2> SUFFICES ASSUME RunsInv, [Next]_vars PROVE RunsInv'
    OBVIOUS
  <2>1. CASE part = "alone"
    <3>1. /\ RunInv(OneCrew, TwoInIt) /\ part' = part
          /\ Runs(OneCrew, TwoInIt, TwoGpus, 2)!Next \/ UNCHANGED runVars
      BY <2>1, PartsApart DEF RunsInv
    <3>2. RunInv(OneCrew, TwoInIt)'
      BY <1>1, <3>1, RunInvStep
    <3> QED
      BY <2>1, <3>1, <3>2 DEF RunsInv
  <2>2. CASE part # "alone"
    <3>1. /\ RunInv(Crews, Team) /\ part' = part
          /\ Runs(Crews, Team, Devices, MaxFailures)!Next \/ UNCHANGED runVars
      BY <2>2, PartsApart DEF RunsInv
    <3>2. RunInv(Crews, Team)'
      BY <1>1, <3>1, RunInvStep
    <3> QED
      BY <2>2, <3>1, <3>2 DEF RunsInv
  <2> QED
    BY <2>1, <2>2
<1>4. RunsInv => RunsSettled
  BY <1>1, RunsHold DEF RunsInv, RunsSettled
<1> QED
  BY <1>2, <1>3, <1>4, PTL DEF Spec

\* Operators are told of every change, but not of the same one again within its cooldown;
\* what is told of a scheduled report's delivery happened; and a report asks for action on
\* what is severe and lists its sources' findings, the severest first (shared/alerts.py,
\* webgui/scheduled_reports.py, webgui/exports.py).
THEOREM ReportsHold == Spec => []ReportsTrue
<1>1. Init => AlertInv /\ ReportInv
  BY AlertInit, ReportInit DEF Init
<1>2. AlertInv /\ ReportInv /\ [Next]_vars => (AlertInv /\ ReportInv)'
  BY AlertStep, ReportStep, PartsApart
<1>3. AlertInv /\ ReportInv => ReportsTrue
  BY AlertsHave, DeliveryIsTold, SevereIsMentioned DEF ReportsTrue, In
<1> QED
  BY <1>1, <1>2, <1>3, PTL DEF Spec

\* Whatever fails between a site and those who look into it: a tool's score is what its
\* findings leave and its risk is the score's, silence is not judged safe, and what is
\* advised comes the severest first (agents/analyst/qa_analyst.py,
\* agents/security_compliance/qa_security_compliance.py).
THEOREM AuditHolds == Spec => []AuditAgrees
<1>1. Init => AuditInv
  BY AuditInit DEF Init
<1>2. AuditInv /\ [Next]_vars => AuditInv'
  BY AuditStep, PartsApart
<1>3. AuditInv => AuditAgrees
  BY AuditsAgree, SilenceFound, RankedForAll DEF AuditAgrees, In
<1> QED
  BY <1>1, <1>2, <1>3, PTL DEF Spec

=============================================================================
