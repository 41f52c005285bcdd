------------------------ MODULE StorageProxy_proofs ------------------------
(***************************************************************************)
(* Proofs about StorageProxy: the evidence of a disturbance is sound, and  *)
(* celld is told the truth of the store across the restart of the fleet,   *)
(* for every set of modes, memory of the proxy, number of uploads and      *)
(* number of requests.                                                     *)
(***************************************************************************)
EXTENDS StorageProxy, FiniteSetTheorems, TLAPS

Stages == {"held", "upstream", "responded", "answered", "dropped", "destroyed", "throttled"}

\* What the mode and the stage of a request say of each other and of its status.
StageInv ==
  \A i \in DOMAIN requests :
    /\ requests[i].mode = "throttle" => Stage(i) = "throttled"
    /\ requests[i].mode = "timeout" =>
         Stage(i) \in {"held", "destroyed"} /\ requests[i].status = 0
    /\ Stage(i) = "held" => requests[i].mode \in {"timeout", "latency"}
    /\ Stage(i) = "dropped" => requests[i].mode = "drop" /\ requests[i].method = "PUT"
    /\ Stage(i) \in {"held", "upstream", "throttled"} => requests[i].status = 0
    /\ Stage(i) \in {"responded", "answered", "dropped"} /\ OfCell(i)
         /\ requests[i].method = "PUT" => requests[i].status \in {200, 412}

\* celld has asked for no object beyond the next one, and before the kill all of it
\* is the first process's.
ObjectInv ==
  \A i \in DOMAIN requests :
    /\ requests[i].object <= wanted /\ requests[i].object <= committed + 1
    /\ process = 1 => requests[i].by = 1

\* The store has what it said it took, and nothing else.
StoredInv ==
  /\ \A i \in DOMAIN requests :
       OfCell(i) /\ requests[i].status \in {200, 412} => requests[i].object \in stored
  /\ \A o \in stored :
       /\ o <= committed + 1
       /\ \E j \in DOMAIN requests :
            requests[j].object = o /\ requests[j].method = "PUT" /\ requests[j].status = 200

\* Before the kill an object is asked for again when the answer before has been seen,
\* and has not said that the object is there.
OneAtATime ==
  process = 1 => \A i, j \in DOMAIN requests :
    i < j /\ OfCell(i) /\ requests[i].object = requests[j].object => Sees(i) /\ ~Tells(i)

\* Before the kill a conditional upload is refused because of an earlier one.  (After
\* it the earlier one may be the one that comes late.)
TakenOnce ==
  process = 1 => \A i \in DOMAIN requests :
    OfCell(i) /\ requests[i].method = "PUT" /\ requests[i].status = 412 =>
      \E j \in DOMAIN requests :
        /\ j < i /\ requests[j].object = requests[i].object
        /\ requests[j].method = "PUT" /\ requests[j].status = 200

\* Up to its limit the proxy remembers every request.
RememberedInv ==
  Len(requests) <= Limit =>
    Len(events) = Len(requests) /\ \A k \in DOMAIN events : events[k] = k

\* Everything known to be there is; the second process starts with the kill, and what
\* it is asked for after its start is there when its batch has been acknowledged.
ProgressInv ==
  /\ 1..committed \subseteq stored
  /\ process = IF pc <= 8 THEN 1 ELSE 2
  /\ pc = 13 => committed = wanted
  /\ pc = 14 => outcome # "none" /\ committed = wanted
  /\ outcome = "passed" => pc = 14

IInv == /\ TypeOK /\ StageInv /\ ObjectInv /\ StoredInv /\ OneAtATime /\ TakenOnce
        /\ RememberedInv /\ ProgressInv /\ EvidenceIsSound

-----------------------------------------------------------------------------
\* Where the steps of the scenario stand.
LEMMA Places ==
  /\ Len(Program) = 13
  /\ pc \in Nat =>
       /\ Reached("stats") <=> pc > 7
       /\ Reached("kill") <=> pc > 8
       /\ Reached("start") <=> pc > 10
<1>. DEFINE Place(step) == CHOOSE k \in DOMAIN Program : Program[k] = step
<1>1. Len(Program) = 13 /\ DOMAIN Program = 1..13  BY DEF Program
<1>2. /\ Program[1] = "batch" /\ Program[2] = "mode" /\ Program[3] = "finalizer"
      /\ Program[4] = "traffic" /\ Program[5] = "join" /\ Program[6] = "normal"
      /\ Program[7] = "stats" /\ Program[8] = "kill" /\ Program[9] = "lapse"
      /\ Program[10] = "start" /\ Program[11] = "writes" /\ Program[12] = "again"
      /\ Program[13] = "verify"
  BY DEF Program
<1>3. \A k \in 1..13 : k \in {1, 2, 3, 4, 5, 6, 7, 8, 9, 10, 11, 12, 13}  OBVIOUS
<1>4. Place("stats") = 7  BY <1>1, <1>2, <1>3
<1>5. Place("kill") = 8  BY <1>1, <1>2, <1>3
<1>6. Place("start") = 10  BY <1>1, <1>2, <1>3
<1>. QED  BY <1>1, <1>4, <1>5, <1>6 DEF Reached

\* A request stays one when its stage changes.
LEMMA RecordFacts ==
  ASSUME NEW r \in Request, NEW s \in Stages
  PROVE  [r EXCEPT !.stage = s] \in Request
<1>. DEFINE M == Modes \cup {"normal"}
            R == [object : Nat, method : {"PUT", "GET"}, mode : M, stage : Stages,
                  status : {0, 200, 404, 412}, by : Nat]
<1>1. Request = R  BY DEF Request, Stages
<1>2. r \in R  BY <1>1
<1>. HIDE DEF M
<1>3. [r EXCEPT !.stage = s] \in R  BY <1>2
<1>. QED  BY <1>1, <1>3

\* A request's stage changes, and nothing else of any request.
LEMMA BecomesFacts ==
  ASSUME requests \in Seq(Request), NEW i \in DOMAIN requests, NEW s \in Stages, Becomes(i, s)
  PROVE  /\ requests' \in Seq(Request) /\ Len(requests') = Len(requests)
         /\ DOMAIN requests' = DOMAIN requests
         /\ \A j \in DOMAIN requests :
              /\ requests'[j].object = requests[j].object
              /\ requests'[j].method = requests[j].method
              /\ requests'[j].mode = requests[j].mode
              /\ requests'[j].status = requests[j].status
              /\ requests'[j].by = requests[j].by
              /\ requests'[j].stage = IF j = i THEN s ELSE requests[j].stage
<1>1. requests' = [requests EXCEPT ![i].stage = s]  BY DEF Becomes
<1>2. \A j \in DOMAIN requests : requests[j] \in Request  OBVIOUS
<1>3. [requests[i] EXCEPT !.stage = s] \in Request  BY <1>2, RecordFacts
<1>4. requests' \in Seq(Request)  BY <1>1, <1>3
<1>. QED  BY <1>1, <1>2, <1>4 DEF Request

\* A request arrives: the last one, recorded as the last event.
LEMMA ArriveFacts ==
  ASSUME TypeOK, ProxyAssumption, NEW o \in Nat, NEW method \in {"PUT", "GET"}, Arrive(o, method)
  PROVE  /\ requests' \in Seq(Request) /\ Len(requests') = Len(requests) + 1
         /\ DOMAIN requests' = DOMAIN requests \cup {Len(requests) + 1}
         /\ \A j \in DOMAIN requests : requests'[j] = requests[j]
         /\ requests'[Len(requests) + 1] = New(o, method)
         /\ New(o, method) \in Request
         /\ UNCHANGED <<control, window>>
<1>1. ModeNow \in Modes \cup {"normal"}  BY DEF TypeOK, ModeNow
<1>2. New(o, method) \in Request  BY <1>1 DEF New, Request, TypeOK
<1>3. requests \in Seq(Request)  BY DEF TypeOK
<1>4. requests' = Append(requests, New(o, method)) /\ UNCHANGED <<control, window>>
  BY DEF Arrive
<1>. QED  BY <1>2, <1>3, <1>4
-----------------------------------------------------------------------------
LEMMA InitInv == ProxyAssumption /\ Init => IInv
<1>. SUFFICES ASSUME ProxyAssumption, Init  PROVE IInv  OBVIOUS
<1>1. requests = <<>> /\ DOMAIN requests = {} /\ events = <<>> /\ DOMAIN events = {}
      /\ stored = {} /\ committed = 0 /\ wanted = 1 /\ pc = 1 /\ process = 1
  BY DEF Init
<1>2. TypeOK
  <2>1. control \in Modes \cup {"normal"} /\ window \in BOOLEAN /\ fault \in Modes
    BY DEF Init
  <2>2. requests \in Seq(Request) /\ events \in Seq(DOMAIN requests)  BY <1>1
  <2>3. Len(requests) <= MaxRequests /\ Len(events) <= Limit
    BY <1>1 DEF ProxyAssumption
  <2>4. /\ stored \subseteq 1..wanted /\ committed \in 0..wanted /\ wanted \in Nat
        /\ process \in Nat
        /\ pc \in 1..(Len(Program) + 1)
    BY <1>1, Places
  <2>5. /\ outcome \in {"none", "passed", "failed", "interrupted"} /\ restores \in BOOLEAN
        /\ evidence \in {"unasked", "seen", "absent"} /\ struck \in BOOLEAN
    BY DEF Init
  <2>. QED  BY <2>1, <2>2, <2>3, <2>4, <2>5 DEF TypeOK
<1>3. StageInv /\ ObjectInv /\ StoredInv /\ OneAtATime /\ TakenOnce
  BY <1>1 DEF StageInv, ObjectInv, StoredInv, OneAtATime, TakenOnce
<1>4. RememberedInv  BY <1>1 DEF RememberedInv
<1>5. ProgressInv  BY <1>1 DEF Init, ProgressInv
<1>6. EvidenceIsSound  BY DEF Init, EvidenceIsSound
<1>. QED  BY <1>2, <1>3, <1>4, <1>5, <1>6 DEF IInv

\* The proxy and celld's network move a request on.
LEMMA StageStep ==
  ASSUME IInv, ProxyAssumption, NEW i \in DOMAIN requests, NEW s \in Stages, Becomes(i, s),
         UNCHANGED <<celld, driver>>,
         Stage(i) \in {"held", "upstream", "responded"},
         \/ s = "destroyed"
         \/ s = "upstream" /\ Stage(i) = "held" /\ requests[i].mode # "timeout"
         \/ s = "dropped" /\ Stage(i) = "responded" /\ requests[i].mode = "drop"
            /\ requests[i].method = "PUT"
         \/ s = "answered" /\ Stage(i) = "responded"
  PROVE  IInv'
<1>0. TypeOK /\ requests \in Seq(Request)  BY DEF IInv, TypeOK
<1>1. /\ requests' \in Seq(Request) /\ Len(requests') = Len(requests)
      /\ DOMAIN requests' = DOMAIN requests
      /\ \A j \in DOMAIN requests :
           /\ requests'[j].object = requests[j].object
           /\ requests'[j].method = requests[j].method
           /\ requests'[j].mode = requests[j].mode
           /\ requests'[j].status = requests[j].status
           /\ requests'[j].by = requests[j].by
           /\ requests'[j].stage = IF j = i THEN s ELSE requests[j].stage
  BY <1>0, BecomesFacts
<1>2. UNCHANGED <<control, window, events, celld, driver>>  BY DEF Becomes
<1>3. TypeOK'  BY <1>0, <1>1, <1>2 DEF TypeOK, celld, driver
<1>4. StageInv'  BY <1>1 DEF IInv, StageInv, Stage, OfCell
<1>5. ObjectInv'  BY <1>1, <1>2 DEF IInv, ObjectInv, celld
<1>6. StoredInv'  BY <1>1, <1>2 DEF IInv, StoredInv, OfCell, celld
<1>7. OneAtATime'
  <2>0. process' = process  BY <1>2 DEF celld
  <2>. SUFFICES ASSUME process = 1,
                       NEW j \in DOMAIN requests, NEW k \in DOMAIN requests,
                       j < k, OfCell(j), requests[j].object = requests[k].object
                PROVE  (Sees(j) /\ ~Tells(j))'
    BY <1>1, <2>0 DEF OneAtATime, OfCell
  <2>1. Sees(j) /\ ~Tells(j)  BY DEF IInv, OneAtATime
  <2>2. j # i  BY <2>1 DEF Sees, Stage
  <2>. QED  BY <1>1, <2>1, <2>2 DEF Sees, Tells, Stage
<1>8. TakenOnce'  BY <1>1, <1>2 DEF IInv, TakenOnce, OfCell, celld
<1>9. RememberedInv'  BY <1>1, <1>2 DEF IInv, RememberedInv
<1>10. ProgressInv'  BY <1>2 DEF IInv, ProgressInv, celld, driver
<1>11. EvidenceIsSound'
  <2>1. BrokenOff => BrokenOff'  BY <1>1 DEF BrokenOff, OfCell, Stage
  <2>. QED  BY <1>1, <1>2, <2>1 DEF IInv, EvidenceIsSound, driver
<1>. QED  BY <1>3, <1>4, <1>5, <1>6, <1>7, <1>8, <1>9, <1>10, <1>11 DEF IInv

LEMMA ReleaseInv == ASSUME IInv, ProxyAssumption, Release  PROVE IInv'
<1>1. PICK i \in DOMAIN requests :
        /\ Stage(i) = "held"
        /\ Becomes(i, IF requests[i].mode = "timeout" THEN "destroyed" ELSE "upstream")
        /\ UNCHANGED <<celld, driver>>
  BY DEF Release
<1>2. CASE requests[i].mode = "timeout"
  <2>1. Becomes(i, "destroyed")  BY <1>1, <1>2
  <2>. QED  BY <1>1, <2>1, StageStep DEF Stages
<1>3. CASE requests[i].mode # "timeout"
  <2>1. Becomes(i, "upstream")  BY <1>1, <1>3
  <2>. QED  BY <1>1, <1>3, <2>1, StageStep DEF Stages
<1>. QED  BY <1>2, <1>3

LEMMA RelayInv == ASSUME IInv, ProxyAssumption, Relay  PROVE IInv'
<1>1. PICK i \in DOMAIN requests :
        /\ Stage(i) = "responded"
        /\ \/ Becomes(i, IF requests[i].mode = "drop" /\ requests[i].method = "PUT"
                         THEN "dropped" ELSE "answered")
           \/ OfCell(i) /\ Becomes(i, "destroyed")
        /\ UNCHANGED <<celld, driver>>
  BY DEF Relay
<1>2. CASE Becomes(i, "destroyed")  BY <1>1, <1>2, StageStep DEF Stages
<1>3. CASE /\ requests[i].mode = "drop" /\ requests[i].method = "PUT"
           /\ Becomes(i, "dropped")
  BY <1>1, <1>3, StageStep DEF Stages
<1>4. CASE Becomes(i, "answered")  BY <1>1, <1>4, StageStep DEF Stages
<1>. QED  BY <1>1, <1>2, <1>3, <1>4

LEMMA UpstreamBreaksInv == ASSUME IInv, ProxyAssumption, UpstreamBreaks  PROVE IInv'
<1>1. PICK i \in DOMAIN requests :
        Stage(i) = "upstream" /\ Becomes(i, "destroyed") /\ UNCHANGED <<celld, driver>>
  BY DEF UpstreamBreaks
<1>. QED  BY <1>1, StageStep DEF Stages

-----------------------------------------------------------------------------
\* The store answers.
LEMMA UpstreamInv == ASSUME IInv, ProxyAssumption, Upstream  PROVE IInv'
<1>0. TypeOK /\ requests \in Seq(Request)  BY DEF IInv, TypeOK
<1>1. PICK i \in DOMAIN requests :
        LET r == requests[i]
            there == r.object \in stored
            status == CASE r.object = 0 -> 200
                        [] r.method = "PUT" -> IF there THEN 412 ELSE 200
                        [] OTHER -> IF there THEN 200 ELSE 404
        IN /\ r.stage = "upstream"
           /\ requests' = [requests EXCEPT ![i].stage = "responded", ![i].status = status]
           /\ stored' = IF r.method = "PUT" /\ r.object > 0 THEN stored \cup {r.object}
                        ELSE stored
           /\ UNCHANGED <<control, window, events, committed, wanted, process, driver>>
  BY DEF Upstream
<1>. DEFINE object == requests[i].object
            put    == requests[i].method = "PUT"
            there  == object \in stored
            status == CASE object = 0 -> 200
                        [] put -> IF there THEN 412 ELSE 200
                        [] OTHER -> IF there THEN 200 ELSE 404
<1>2. /\ requests[i].stage = "upstream"
      /\ requests' = [requests EXCEPT ![i].stage = "responded", ![i].status = status]
      /\ stored' = IF put /\ object > 0 THEN stored \cup {object} ELSE stored
      /\ UNCHANGED <<control, window, events, committed, wanted, process, driver>>
  BY <1>1
<1>3. /\ requests[i] \in Request /\ object \in Nat /\ requests[i].method \in {"PUT", "GET"}
      /\ object <= wanted /\ object <= committed + 1
      /\ requests[i].status = 0
  <2>1. requests[i] \in Request  BY <1>0
  <2>2. object \in Nat /\ requests[i].method \in {"PUT", "GET"}  BY <2>1 DEF Request
  <2>3. object <= wanted /\ object <= committed + 1
    BY DEF IInv, ObjectInv
  <2>4. requests[i].status = 0  BY <1>2 DEF IInv, StageInv, Stage
  <2>. QED  BY <2>1, <2>2, <2>3, <2>4
<1>4. /\ status \in {200, 404, 412}
      /\ object > 0 /\ put => status = IF there THEN 412 ELSE 200
      /\ object > 0 /\ ~put => status = IF there THEN 200 ELSE 404
  BY <1>3
<1>. HIDE DEF status
<1>5. /\ requests' \in Seq(Request) /\ Len(requests') = Len(requests)
      /\ DOMAIN requests' = DOMAIN requests
      /\ \A j \in DOMAIN requests :
           /\ requests'[j].object = requests[j].object
           /\ requests'[j].method = requests[j].method
           /\ requests'[j].mode = requests[j].mode
           /\ requests'[j].by = requests[j].by
           /\ requests'[j].stage = IF j = i THEN "responded" ELSE requests[j].stage
           /\ requests'[j].status = IF j = i THEN status ELSE requests[j].status
  <2>1. requests' = [requests EXCEPT ![i] = [requests[i] EXCEPT !.stage = "responded",
                                                                !.status = status]]
    BY <1>2
  <2>. DEFINE new == [requests[i] EXCEPT !.stage = "responded", !.status = status]
  <2>2. new \in Request
    <3>. DEFINE M == Modes \cup {"normal"}
                Statuses == {0, 200, 404, 412}
                R == [object : Nat, method : {"PUT", "GET"}, mode : M, stage : Stages,
                      status : Statuses, by : Nat]
    <3>1. Request = R  BY DEF Request, Stages
    <3>2. requests[i] \in R /\ "responded" \in Stages /\ status \in Statuses
      BY <1>3, <1>4, <3>1 DEF Stages
    <3>. HIDE DEF M, Statuses
    <3>3. new \in R  BY <3>2
    <3>. QED  BY <3>1, <3>3
  <2>3. /\ new.object = requests[i].object /\ new.method = requests[i].method
        /\ new.mode = requests[i].mode /\ new.by = requests[i].by
        /\ new.stage = "responded" /\ new.status = status
    BY <1>3 DEF Request
  <2>. HIDE DEF new
  <2>4. requests' = [requests EXCEPT ![i] = new]  BY <2>1 DEF new
  <2>5. requests' \in Seq(Request) /\ Len(requests') = Len(requests)
        /\ DOMAIN requests' = DOMAIN requests
    BY <1>0, <2>2, <2>4
  <2>6. \A j \in DOMAIN requests : requests'[j] = IF j = i THEN new ELSE requests[j]
    BY <1>0, <2>4
  <2>. QED  BY <2>3, <2>5, <2>6
<1>6. stored \subseteq stored' /\ \A o \in stored' : o \in stored \/ (o = object /\ put /\ o > 0)
  BY <1>2
<1>7. TypeOK'
  BY <1>0, <1>2, <1>3, <1>5, <1>6 DEF TypeOK, driver
<1>8. StageInv'
  BY <1>2, <1>3, <1>4, <1>5 DEF IInv, StageInv, Stage, OfCell
<1>9. ObjectInv'  BY <1>2, <1>5 DEF IInv, ObjectInv
<1>10. StoredInv'
  <2>1. ASSUME NEW j \in DOMAIN requests, (OfCell(j) /\ requests[j].status \in {200, 412})'
        PROVE  (requests[j].object \in stored)'
    <3>1. CASE j = i
      <4>1. object > 0 /\ status \in {200, 412}  BY <1>5, <2>1, <3>1 DEF OfCell
      <4>2. put \/ there  BY <1>3, <1>4, <4>1
      <4>3. object \in stored'  BY <1>2, <4>1, <4>2
      <4>. QED  BY <1>5, <3>1, <4>3
    <3>2. CASE j # i
      BY <1>5, <1>6, <2>1, <3>2 DEF IInv, StoredInv, OfCell
    <3>. QED  BY <3>1, <3>2
  <2>2. ASSUME NEW o \in stored'
        PROVE  /\ o <= committed' + 1
               /\ \E j \in DOMAIN requests :
                    /\ requests'[j].object = o /\ requests'[j].method = "PUT"
                    /\ requests'[j].status = 200
    <3>1. CASE o \in stored
      <4>1. PICK j \in DOMAIN requests :
              requests[j].object = o /\ requests[j].method = "PUT" /\ requests[j].status = 200
        BY <3>1 DEF IInv, StoredInv
      <4>2. j # i  BY <1>3, <4>1
      <4>. QED  BY <1>2, <1>5, <3>1, <4>1, <4>2 DEF IInv, StoredInv
    <3>2. CASE o \notin stored
      <4>1. o = object /\ put /\ object > 0 /\ ~there  BY <1>6, <3>2
      <4>2. status = 200  BY <1>4, <4>1
      <4>3. requests'[i].object = o /\ requests'[i].method = "PUT" /\ requests'[i].status = 200
        BY <1>5, <4>1, <4>2
      <4>4. o <= committed' + 1  BY <1>2, <1>3, <4>1
      <4>. QED  BY <4>3, <4>4
    <3>. QED  BY <3>1, <3>2
  <2>. QED  BY <1>5, <2>1, <2>2 DEF StoredInv
<1>11. OneAtATime'
  <2>. SUFFICES ASSUME process = 1,
                       NEW j \in DOMAIN requests, NEW k \in DOMAIN requests,
                       j < k, OfCell(j), requests[j].object = requests[k].object
                PROVE  (Sees(j) /\ ~Tells(j))'
    BY <1>2, <1>5 DEF OneAtATime, OfCell
  <2>1. Sees(j) /\ ~Tells(j)  BY DEF IInv, OneAtATime
  <2>2. j # i  BY <1>2, <2>1 DEF Sees
  <2>. QED  BY <1>5, <2>1, <2>2 DEF Sees, Tells, Stage
<1>12. TakenOnce'
  <2>0. /\ process' = process /\ DOMAIN requests' = DOMAIN requests
        /\ \A j \in DOMAIN requests : /\ requests'[j].object = requests[j].object
                                     /\ requests'[j].method = requests[j].method
    BY <1>2, <1>5
  <2>. SUFFICES ASSUME process = 1,
                       NEW j \in DOMAIN requests, OfCell(j), requests[j].method = "PUT",
                       requests'[j].status = 412
                PROVE  \E k \in DOMAIN requests :
                         /\ k < j /\ requests'[k].object = requests[j].object
                         /\ requests'[k].method = "PUT" /\ requests'[k].status = 200
    BY <2>0 DEF TakenOnce, OfCell
  <2>1. CASE j # i
    <3>1. PICK k \in DOMAIN requests :
            /\ k < j /\ requests[k].object = requests[j].object
            /\ requests[k].method = "PUT" /\ requests[k].status = 200
      BY <1>5, <2>1 DEF IInv, TakenOnce
    <3>2. k # i  BY <1>3, <3>1
    <3>. QED  BY <1>5, <3>1, <3>2
  <2>2. CASE j = i
    <3>1. there /\ object > 0  BY <1>4, <1>5, <2>2 DEF OfCell
    <3>2. PICK k \in DOMAIN requests :
            requests[k].object = object /\ requests[k].method = "PUT" /\ requests[k].status = 200
      BY <3>1 DEF IInv, StoredInv
    <3>3. k # i  BY <1>3, <3>2
    <3>4. ~(i < k)
      BY <1>2, <3>1, <3>2 DEF IInv, OneAtATime, Sees, OfCell
    <3>5. k < i  BY <1>0, <3>3, <3>4
    <3>. QED  BY <1>5, <2>2, <3>2, <3>3, <3>5
  <2>. QED  BY <2>1, <2>2
<1>13. RememberedInv'  BY <1>2, <1>5 DEF IInv, RememberedInv
<1>14. ProgressInv'
  BY <1>2, <1>6 DEF IInv, ProgressInv, driver
<1>15. EvidenceIsSound'
  <2>1. BrokenOff => BrokenOff'  BY <1>2, <1>5 DEF BrokenOff, OfCell, Stage
  <2>. QED  BY <1>2, <1>5, <2>1 DEF IInv, EvidenceIsSound, driver
<1>. QED
  BY <1>7, <1>8, <1>9, <1>10, <1>11, <1>12, <1>13, <1>14, <1>15 DEF IInv

-----------------------------------------------------------------------------
\* A new request for something else, or for the next object once what was asked for
\* it before has been seen.
LEMMA ArriveInv ==
  ASSUME IInv, ProxyAssumption, NEW o \in Nat, NEW method \in {"PUT", "GET"},
         Arrive(o, method), Alive, UNCHANGED <<celld, driver>>,
         Len(requests) < MaxRequests, o <= wanted, o <= committed + 1,
         process = 1 => \A i \in DOMAIN requests :
           OfCell(i) /\ requests[i].object = o => Sees(i) /\ ~Tells(i)
  PROVE  IInv'
<1>. DEFINE n == Len(requests) + 1
<1>0. /\ TypeOK /\ requests \in Seq(Request) /\ Len(requests) \in Nat /\ n \in Nat
      /\ DOMAIN requests = 1..Len(requests) /\ n \notin DOMAIN requests
      /\ process \in Nat
  BY DEF IInv, TypeOK
<1>1. /\ requests' \in Seq(Request) /\ Len(requests') = n
      /\ DOMAIN requests' = DOMAIN requests \cup {n}
      /\ \A j \in DOMAIN requests : requests'[j] = requests[j]
      /\ requests'[n] = New(o, method)
      /\ UNCHANGED <<control, window>>
  BY <1>0, ArriveFacts
<1>2. /\ requests'[n].object = o /\ requests'[n].method = method
      /\ requests'[n].status = 0 /\ requests'[n].by = process
      /\ requests'[n].stage \in {"throttled", "held", "upstream"}
      /\ requests'[n].mode = "throttle" => requests'[n].stage = "throttled"
      /\ requests'[n].mode = "timeout" => requests'[n].stage = "held"
      /\ requests'[n].stage = "held" => requests'[n].mode \in {"timeout", "latency"}
  BY <1>0, <1>1 DEF New
<1>3. events \in Seq(DOMAIN requests) /\ Len(events) <= Limit /\ Len(events) \in Nat
  BY DEF IInv, TypeOK
<1>4. events' = Append(IF Len(events) >= Limit THEN Tail(events) ELSE events, n)
  BY DEF Arrive
<1>5. events' \in Seq(DOMAIN requests') /\ Len(events') <= Limit
  <2>. DEFINE D == DOMAIN requests'
  <2>1. n \in D /\ events \in Seq(D)  BY <1>1, <1>3
  <2>. HIDE DEF D
  <2>2. CASE Len(events) >= Limit
    <3>1. /\ Len(events) # 0 /\ Tail(events) \in Seq(D)
          /\ Len(Tail(events)) = Len(events) - 1
      BY <1>3, <2>1, <2>2 DEF ProxyAssumption
    <3>. QED  BY <1>3, <1>4, <2>1, <2>2, <3>1 DEF D
  <2>3. CASE ~(Len(events) >= Limit)
    BY <1>3, <1>4, <2>1, <2>3 DEF D, ProxyAssumption
  <2>. QED  BY <2>2, <2>3
<1>6. TypeOK'
  BY <1>0, <1>1, <1>5 DEF TypeOK, celld, driver
<1>7. StageInv'  BY <1>1, <1>2 DEF IInv, StageInv, Stage, OfCell
<1>8. ObjectInv'  BY <1>1, <1>2 DEF IInv, ObjectInv, celld
<1>9. StoredInv'  BY <1>1, <1>2 DEF IInv, StoredInv, OfCell, celld
<1>10. OneAtATime'
  <2>0. process' = process  BY DEF celld
  <2>. SUFFICES ASSUME process = 1,
                       NEW i \in DOMAIN requests', NEW j \in DOMAIN requests',
                       i < j, OfCell(i)', requests'[i].object = requests'[j].object
                PROVE  (Sees(i) /\ ~Tells(i))'
    BY <2>0 DEF OneAtATime
  <2>1. i \in DOMAIN requests  BY <1>0, <1>1
  <2>2. CASE j \in DOMAIN requests
    BY <1>1, <2>1, <2>2 DEF IInv, OneAtATime, OfCell, Sees, Tells, Stage
  <2>3. CASE j = n
    BY <1>1, <1>2, <2>1, <2>3 DEF OfCell, Sees, Tells, Stage
  <2>. QED  BY <1>1, <2>2, <2>3
<1>11. TakenOnce'  BY <1>1, <1>2 DEF IInv, TakenOnce, OfCell, celld
<1>12. RememberedInv'
  <2>. SUFFICES ASSUME n <= Limit  PROVE (Len(events) = Len(requests) /\
                                          \A k \in DOMAIN events : events[k] = k)'
    BY <1>1 DEF RememberedInv
  <2>1. Len(events) = Len(requests) /\ \A k \in DOMAIN events : events[k] = k
    BY <1>0 DEF IInv, RememberedInv, ProxyAssumption
  <2>2. events' = Append(events, n)  BY <1>0, <1>4, <2>1 DEF ProxyAssumption
  <2>. QED  BY <1>1, <1>3, <2>1, <2>2
<1>13. ProgressInv'  BY DEF IInv, ProgressInv, celld, driver
<1>14. EvidenceIsSound'
  <2>1. BrokenOff => BrokenOff'  BY <1>1 DEF BrokenOff, OfCell, Stage
  <2>2. Len(requests') <= Limit => Len(requests) <= Limit
    BY <1>0, <1>1 DEF ProxyAssumption
  <2>. QED  BY <2>1, <2>2 DEF IInv, EvidenceIsSound, driver
<1>. QED
  BY <1>6, <1>7, <1>8, <1>9, <1>10, <1>11, <1>12, <1>13, <1>14 DEF IInv

LEMMA UploadInv == ASSUME IInv, ProxyAssumption, Upload  PROVE IInv'
<1>1. /\ Alive /\ committed < wanted /\ Len(requests) < MaxRequests
      /\ \A i \in Current : Sees(i) /\ ~Tells(i)
      /\ UNCHANGED <<celld, driver>>
  BY DEF Upload
<1>2. PICK method \in {"PUT", "GET"} : Arrive(committed + 1, method)  BY DEF Upload
<1>3. committed \in Nat /\ wanted \in Nat  BY DEF IInv, TypeOK
<1>5. process = 1 => \A i \in DOMAIN requests :
        requests[i].object = committed + 1 => Sees(i) /\ ~Tells(i)
  BY <1>1 DEF Current, Own, IInv, ObjectInv
<1>6. committed + 1 \in Nat /\ committed + 1 <= wanted  BY <1>1, <1>3
<1>. QED  BY <1>1, <1>2, <1>5, <1>6, ArriveInv

LEMMA OtherRequestInv == ASSUME IInv, ProxyAssumption, OtherRequest  PROVE IInv'
<1>1. /\ Alive /\ Len(requests) < MaxRequests /\ Arrive(0, "PUT")
      /\ UNCHANGED <<celld, driver>>
  BY DEF OtherRequest
<1>2. 0 \in Nat /\ 0 <= wanted /\ 0 <= committed + 1  BY DEF IInv, TypeOK
<1>. QED  BY <1>1, <1>2, ArriveInv DEF OfCell

\* celld learns that its object is there.
LEMMA LearnInv == ASSUME IInv, ProxyAssumption, Learn  PROVE IInv'
<1>1. /\ Alive /\ committed < wanted /\ committed' = committed + 1
      /\ UNCHANGED <<proxy, stored, wanted, process, driver>>
  BY DEF Learn
<1>2. PICK i \in DOMAIN requests : requests[i].object = committed + 1 /\ Tells(i)
  BY DEF Learn, Current
<1>3. committed \in Nat /\ wanted \in Nat  BY DEF IInv, TypeOK
<1>4. committed + 1 \in stored  BY <1>2, <1>3 DEF IInv, StoredInv, Tells, OfCell
<1>5. TypeOK'  BY <1>1, <1>3, <1>4 DEF IInv, TypeOK, proxy, driver
<1>6. StageInv'  BY <1>1 DEF IInv, StageInv, Stage, OfCell, proxy
<1>7. ObjectInv' /\ StoredInv'
  <2>1. \A k \in DOMAIN requests : requests[k].object \in Nat
    <3>1. \A k \in DOMAIN requests : requests[k] \in Request  BY DEF IInv, TypeOK
    <3>. QED  BY <3>1 DEF Request
  <2>2. \A x \in stored : x \in Nat  BY <1>3 DEF IInv, TypeOK
  <2>. QED  BY <1>1, <1>3, <2>1, <2>2 DEF IInv, ObjectInv, StoredInv, OfCell, proxy
<1>8. OneAtATime'  BY <1>1 DEF IInv, OneAtATime, OfCell, Sees, Tells, Stage, proxy
<1>9. TakenOnce' /\ RememberedInv'
  BY <1>1 DEF IInv, TakenOnce, RememberedInv, OfCell, proxy
<1>10. ProgressInv'
  <2>1. 1..committed' \subseteq stored  BY <1>1, <1>3, <1>4 DEF IInv, ProgressInv
  <2>2. pc' = pc /\ outcome' = outcome /\ pc # 13 /\ pc # 14
    BY <1>1, <1>3 DEF IInv, ProgressInv, Alive, driver
  <2>. QED  BY <1>1, <2>1, <2>2 DEF IInv, ProgressInv
<1>11. EvidenceIsSound'
  BY <1>1 DEF IInv, EvidenceIsSound, BrokenOff, OfCell, Stage, proxy, driver
<1>. QED  BY <1>5, <1>6, <1>7, <1>8, <1>9, <1>10, <1>11 DEF IInv

-----------------------------------------------------------------------------
\* The scenario's steps that leave requests, store and verdict as they are.
LEMMA FrameInv ==
  ASSUME IInv, UNCHANGED <<requests, events, stored, committed, evidence, struck, fault>>,
         process' = 1 => process = 1,
         wanted \in Nat, wanted' \in Nat, wanted <= wanted', TypeOK', ProgressInv'
  PROVE  IInv'
<1>1. StageInv'  BY DEF IInv, StageInv, Stage, OfCell
<1>2. ObjectInv'
  <2>1. \A i \in DOMAIN requests : requests[i] \in Request  BY DEF IInv, TypeOK
  <2>2. \A i \in DOMAIN requests : requests[i].object \in Nat  BY <2>1 DEF Request
  <2>. QED  BY <2>2 DEF IInv, ObjectInv
<1>3. StoredInv' /\ TakenOnce' /\ RememberedInv'
  BY DEF IInv, StoredInv, TakenOnce, RememberedInv, OfCell
<1>4. OneAtATime'  BY DEF IInv, OneAtATime, OfCell, Sees, Tells, Stage
<1>5. EvidenceIsSound'  BY DEF IInv, EvidenceIsSound, BrokenOff, OfCell, Stage
<1>. QED  BY <1>1, <1>2, <1>3, <1>4, <1>5 DEF IInv

\* What At says of the program counter.
LEMMA Steps ==
  ASSUME TypeOK, ProgressInv
  PROVE  /\ pc \in 1..14
         /\ At("batch") => pc = 1
         /\ At("mode") => pc = 2
         /\ At("finalizer") => pc = 3
         /\ At("traffic") => pc = 4
         /\ At("join") => pc = 5
         /\ At("normal") => pc = 6
         /\ At("stats") => pc = 7
         /\ At("kill") => pc = 8
         /\ At("lapse") => pc = 9
         /\ At("start") => pc = 10
         /\ At("writes") => pc = 11
         /\ At("again") => pc = 12
         /\ At("verify") => pc = 13
<1>1. pc \in 1..14  BY Places DEF TypeOK
<1>2. /\ Program[1] = "batch" /\ Program[2] = "mode" /\ Program[3] = "finalizer"
      /\ Program[4] = "traffic" /\ Program[5] = "join" /\ Program[6] = "normal"
      /\ Program[7] = "stats" /\ Program[8] = "kill" /\ Program[9] = "lapse"
      /\ Program[10] = "start" /\ Program[11] = "writes" /\ Program[12] = "again"
      /\ Program[13] = "verify"
  BY DEF Program
<1>3. \A k \in 1..14 : k \in {1, 2, 3, 4, 5, 6, 7, 8, 9, 10, 11, 12, 13, 14}  OBVIOUS
<1>4. \A step :
        At(step) => pc \in {1, 2, 3, 4, 5, 6, 7, 8, 9, 10, 11, 12, 13} /\ Program[pc] = step
  BY <1>1, <1>3, Places DEF At
<1>. QED  BY <1>1, <1>2, <1>4

\* The steps of the scenario that send writes, wait for them or set the mode.
LEMMA EarlyInv ==
  ASSUME IInv, ProxyAssumption,
         Batch \/ Traffic \/ Join \/ Disturb \/ Install \/ Restore
  PROVE  IInv'
<1>0. TypeOK /\ ProgressInv  BY DEF IInv
<1>1. /\ pc \in (1..6) \cup {11, 12} /\ outcome = "none"
      /\ \/ pc' = pc + 1 /\ outcome' = outcome
         \/ pc' = pc /\ outcome' = "failed"
      /\ pc = 12 /\ pc' = 13 => committed = wanted /\ wanted' = wanted
      /\ UNCHANGED <<requests, events, stored, committed, process, evidence, struck, fault>>
  BY <1>0, Steps DEF Batch, Traffic, Join, Disturb, Install, Restore, At, Advance, Remains,
     SetMode, proxy, celld
<1>2. wanted' = wanted \/ wanted' = wanted + Uploads
  BY DEF Batch, Traffic, Join, Disturb, Install, Restore, celld
<1>3. /\ control' = control \/ control' = fault \/ control' = "normal"
      /\ window' \in BOOLEAN /\ restores' \in BOOLEAN
  BY <1>0 DEF TypeOK, Batch, Traffic, Join, Disturb, Install, Restore, Remains, SetMode,
     proxy
<1>4. wanted \in Nat /\ wanted' \in Nat /\ wanted <= wanted'
  BY <1>0, <1>2 DEF TypeOK, ProxyAssumption
<1>5. TypeOK'
  <2>1. /\ pc' \in 1..(Len(Program) + 1)
        /\ outcome' \in {"none", "passed", "failed", "interrupted"}
    BY <1>0, <1>1, Places DEF TypeOK
  <2>2. stored' \subseteq 1..wanted' /\ committed' \in 0..wanted'
    BY <1>0, <1>1, <1>4 DEF TypeOK
  <2>. QED  BY <1>0, <1>1, <1>3, <1>4, <2>1, <2>2 DEF TypeOK
<1>6. ProgressInv'  BY <1>0, <1>1 DEF ProgressInv
<1>. QED  BY <1>1, <1>4, <1>5, <1>6, FrameInv

LEMMA KillAllInv == ASSUME IInv, ProxyAssumption, KillAll  PROVE IInv'
<1>0. TypeOK /\ ProgressInv  BY DEF IInv
<1>1. /\ pc = 8 /\ pc' = 9 /\ outcome' = outcome /\ outcome = "none" /\ process' = process + 1
      /\ UNCHANGED <<control, window, requests, events, stored, committed, wanted, restores,
                     evidence, struck, fault>>
  BY <1>0, Steps DEF KillAll, At, Advance, Remains, proxy
<1>2. TypeOK'  BY <1>0, <1>1, Places DEF TypeOK
<1>3. ProgressInv'  BY <1>0, <1>1 DEF ProgressInv
<1>4. wanted \in Nat /\ wanted' = wanted  BY <1>0, <1>1 DEF TypeOK
<1>5. process' # 1  BY <1>0, <1>1 DEF ProgressInv
<1>. QED  BY <1>1, <1>2, <1>3, <1>4, <1>5, FrameInv

LEMMA LapseInv == ASSUME IInv, ProxyAssumption, Lapse  PROVE IInv'
<1>0. TypeOK /\ ProgressInv  BY DEF IInv
<1>1. /\ pc = 9 /\ pc' = 10 /\ outcome' = outcome /\ outcome = "none"
      /\ UNCHANGED <<control, window, requests, events, stored, committed, wanted, process,
                     restores, evidence, struck, fault>>
  BY <1>0, Steps DEF Lapse, At, Advance, Remains, proxy, celld
<1>2. TypeOK'  BY <1>0, <1>1, Places DEF TypeOK
<1>3. ProgressInv'  BY <1>0, <1>1 DEF ProgressInv
<1>4. wanted \in Nat /\ wanted' = wanted  BY <1>0, <1>1 DEF TypeOK
<1>. QED  BY <1>1, <1>2, <1>3, <1>4, FrameInv

\* The record is read.  What it does not show has not happened, but for the retry of
\* an object whose first answer broke off.
LEMMA StatsInv == ASSUME IInv, ProxyAssumption, Stats  PROVE IInv'
<1>0. TypeOK /\ ProgressInv  BY DEF IInv
<1>1. /\ pc = 7 /\ outcome = "none"
      /\ evidence' = IF hasStorageFaultEvidence(fault) THEN "seen" ELSE "absent"
      /\ struck' = \E i \in DOMAIN requests : Disturbed(i)
      /\ UNCHANGED <<control, window, requests, events, stored, committed, wanted, process,
                     restores, fault>>
      /\ \/ pc' = 8 /\ outcome' = outcome
         \/ pc' = 7 /\ outcome' = "failed"
  BY <1>0, Steps DEF Stats, At, Advance, proxy, celld
<1>2. TypeOK'
  <2>1. evidence' \in {"unasked", "seen", "absent"} /\ struck' \in BOOLEAN  BY <1>1
  <2>2. outcome' \in {"none", "passed", "failed", "interrupted"} /\ pc' \in 1..(Len(Program) + 1)
    BY <1>1, Places
  <2>. QED  BY <1>0, <1>1, <2>1, <2>2, Places DEF TypeOK
<1>3. ProgressInv'  BY <1>0, <1>1 DEF ProgressInv
<1>4. events \in Seq(DOMAIN requests) /\ \A k \in DOMAIN events : events[k] \in DOMAIN requests
  BY <1>0 DEF TypeOK
<1>5. \A i \in DOMAIN requests : requests[i] \in Request  BY <1>0 DEF TypeOK
<1>6. ASSUME evidence' = "seen"  PROVE struck'
  <2>1. PICK k \in DOMAIN events :
          /\ requests[events[k]].mode = fault /\ requests[events[k]].object > 0
          /\ fault = "drop" => /\ requests[events[k]].method = "PUT"
                               /\ requests[events[k]].status = 200
                               /\ requests[events[k]].stage = "dropped"
    BY <1>1, <1>6 DEF hasStorageFaultEvidence
  <2>2. events[k] \in DOMAIN requests  BY <1>4
  <2>3. Disturbed(events[k])
    BY <2>1, <2>2 DEF IInv, StageInv, StoredInv, Disturbed, OfCell, Stage
  <2>. QED  BY <1>1, <2>2, <2>3
<1>7. ASSUME evidence' = "absent", Len(requests) <= Limit, struck'
      PROVE  fault = "drop" /\ BrokenOff
  <2>1. PICK i \in DOMAIN requests : Disturbed(i)  BY <1>1, <1>7
  <2>2. ~hasStorageFaultEvidence(fault)  BY <1>1, <1>7
  <2>3. \A j \in DOMAIN requests : j \in DOMAIN events /\ events[j] = j
    <3>1. Len(events) = Len(requests) /\ \A k \in DOMAIN events : events[k] = k
      BY <1>7 DEF IInv, RememberedInv
    <3>2. requests \in Seq(Request)  BY <1>0 DEF TypeOK
    <3>. QED  BY <1>4, <3>1, <3>2
  <2>4. \A j \in DOMAIN requests :
          requests[j].mode = fault /\ requests[j].object > 0 =>
            /\ fault = "drop"
            /\ ~(requests[j].method = "PUT" /\ requests[j].status = 200
                 /\ requests[j].stage = "dropped")
    BY <2>2, <2>3 DEF hasStorageFaultEvidence
  <2>5. /\ fault = "drop" /\ requests[i].mode = "drop" /\ OfCell(i)
        /\ Stage(i) = "dropped" /\ requests[i].object \in stored
    BY <2>1, <2>4 DEF Disturbed, OfCell
  <2>6. requests[i].method = "PUT" /\ requests[i].status \in {200, 412}
    BY <2>5 DEF IInv, StageInv
  <2>7. requests[i].status = 412  BY <2>4, <2>5, <2>6 DEF OfCell, Stage
  <2>0. process = 1  BY <1>0, <1>1 DEF ProgressInv
  <2>8. PICK j \in DOMAIN requests :
          /\ j < i /\ requests[j].object = requests[i].object
          /\ requests[j].method = "PUT" /\ requests[j].status = 200
    BY <2>0, <2>5, <2>6, <2>7 DEF IInv, TakenOnce
  <2>9. OfCell(j) /\ Sees(j) /\ ~Tells(j)
    BY <2>0, <2>5, <2>8 DEF IInv, OneAtATime, OfCell
  <2>10. Stage(j) \notin {"answered", "throttled"}
    BY <2>8, <2>9 DEF IInv, StageInv, Tells, Stage
  <2>11. Stage(j) # "dropped"
    BY <2>4, <2>5, <2>8, <2>9 DEF IInv, StageInv, OfCell, Stage
  <2>12. Stage(j) = "destroyed"  BY <2>9, <2>10, <2>11 DEF Sees, Stage
  <2>. QED  BY <2>5, <2>8, <2>9, <2>12 DEF BrokenOff
<1>8. EvidenceIsSound'
  BY <1>1, <1>6, <1>7 DEF EvidenceIsSound, BrokenOff, OfCell, Stage
<1>9. StageInv' /\ ObjectInv' /\ StoredInv' /\ OneAtATime' /\ TakenOnce' /\ RememberedInv'
  BY <1>1 DEF IInv, StageInv, ObjectInv, StoredInv, OneAtATime, TakenOnce, RememberedInv,
     OfCell, Stage, Sees, Tells
<1>. QED  BY <1>2, <1>3, <1>8, <1>9 DEF IInv

\* The started fleet finds what the store has: all that was committed, and perhaps
\* the next object.
LEMMA StartInv == ASSUME IInv, ProxyAssumption, Start  PROVE IInv'
<1>0. TypeOK /\ ProgressInv  BY DEF IInv
<1>1. /\ pc = 10 /\ pc' = 11 /\ outcome = "none" /\ outcome' = outcome
      /\ committed' = Cardinality(stored)
      /\ UNCHANGED <<control, window, requests, events, stored, wanted, process, restores,
                     evidence, struck, fault>>
  BY <1>0, Steps DEF Start, At, Advance, Remains, proxy
<1>2. committed \in Nat /\ wanted \in Nat /\ committed <= wanted
      /\ stored \subseteq 1..wanted /\ 1..committed \subseteq stored
  BY <1>0 DEF TypeOK, ProgressInv
<1>3. \A x \in stored : x <= committed + 1  BY DEF IInv, StoredInv
<1>4. \/ committed' = committed /\ stored = 1..committed
      \/ committed' = committed + 1 /\ stored = 1..(committed + 1) /\ committed < wanted
  <2>1. CASE committed + 1 \in stored
    <3>1. stored = 1..(committed + 1)
      <4>1. \A x \in stored : x \in 1..(committed + 1)
        <5>1. \A x \in stored : x \in 1..wanted  BY <1>2
        <5>. QED  BY <1>2, <1>3, <5>1
      <4>2. \A x \in 1..(committed + 1) : x \in stored
        <5>1. \A x \in 1..(committed + 1) : x \in 1..committed \/ x = committed + 1
          BY <1>2
        <5>. QED  BY <1>2, <2>1, <5>1
      <4>. QED  BY <4>1, <4>2
    <3>2. Cardinality(1..(committed + 1)) = committed + 1  BY <1>2, FS_Interval
    <3>. QED  BY <1>1, <1>2, <2>1, <3>1, <3>2
  <2>2. CASE committed + 1 \notin stored
    <3>1. stored = 1..committed
      <4>1. \A x \in stored : x \in 1..committed
        <5>1. \A x \in stored : x \in 1..wanted /\ x # committed + 1  BY <1>2, <2>2
        <5>. QED  BY <1>2, <1>3, <5>1
      <4>. QED  BY <1>2, <4>1
    <3>2. Cardinality(1..committed) = committed  BY <1>2, FS_Interval
    <3>. QED  BY <1>1, <3>1, <3>2
  <2>. QED  BY <2>1, <2>2
<1>5. committed' \in Nat /\ committed <= committed' /\ committed' <= wanted
      /\ 1..committed' \subseteq stored
  BY <1>2, <1>4
<1>6. TypeOK'  BY <1>0, <1>1, <1>5, Places DEF TypeOK
<1>7. ProgressInv'  BY <1>0, <1>1, <1>5 DEF ProgressInv
<1>8. ObjectInv' /\ StoredInv'
  <2>1. \A i \in DOMAIN requests : requests[i] \in Request  BY <1>0 DEF TypeOK
  <2>2. \A i \in DOMAIN requests : requests[i].object \in Nat  BY <2>1 DEF Request
  <2>3. \A x \in stored : x \in Nat  BY <1>2
  <2>. QED  BY <1>1, <1>2, <1>5, <2>2, <2>3 DEF IInv, ObjectInv, StoredInv, OfCell
<1>9. StageInv' /\ OneAtATime' /\ TakenOnce' /\ RememberedInv' /\ EvidenceIsSound'
  BY <1>1 DEF IInv, StageInv, OneAtATime, TakenOnce, RememberedInv, EvidenceIsSound,
     BrokenOff, OfCell, Stage, Sees, Tells
<1>. QED  BY <1>6, <1>7, <1>8, <1>9 DEF IInv

\* The scenario passes with everything it asked for acknowledged.
LEMMA VerifyInv == ASSUME IInv, ProxyAssumption, Verify  PROVE IInv'
<1>0. TypeOK /\ ProgressInv  BY DEF IInv
<1>1. /\ pc = 13 /\ pc' = 14 /\ outcome' = "passed"
      /\ UNCHANGED <<control, window, requests, events, stored, committed, wanted, process,
                     restores, evidence, struck, fault>>
  BY <1>0, Steps DEF Verify, At, Remains, proxy, celld
<1>2. TypeOK'  BY <1>0, <1>1, Places DEF TypeOK
<1>3. ProgressInv'  BY <1>0, <1>1 DEF ProgressInv
<1>4. wanted \in Nat /\ wanted' = wanted  BY <1>0, <1>1 DEF TypeOK
<1>. QED  BY <1>1, <1>2, <1>3, <1>4, FrameInv

\* The window's end, an interruption and the finalizer.
LEMMA OutsideInv ==
  ASSUME IInv, ProxyAssumption, WindowCloses \/ Interrupt \/ Close  PROVE IInv'
<1>0. TypeOK /\ ProgressInv  BY DEF IInv
<1>1. /\ pc' = pc /\ process' = process /\ wanted' = wanted
      /\ UNCHANGED <<requests, events, stored, committed, evidence, struck, fault>>
      /\ \/ outcome' = outcome
         \/ outcome' = "interrupted"
      /\ control' = control \/ control' = "normal"
      /\ window' \in BOOLEAN /\ restores' \in BOOLEAN
  BY <1>0 DEF TypeOK, WindowCloses, Interrupt, Close, Remains, SetMode, proxy, celld, driver
<1>2. TypeOK'  BY <1>0, <1>1 DEF TypeOK
<1>3. ProgressInv'  BY <1>0, <1>1 DEF ProgressInv
<1>4. wanted \in Nat  BY <1>0 DEF TypeOK
<1>. QED  BY <1>1, <1>2, <1>3, <1>4, FrameInv

LEMMA IInvStep == ASSUME IInv, ProxyAssumption, [Next]_vars  PROVE IInv'
<1>1. CASE Proxy  BY <1>1, ReleaseInv, UpstreamInv, RelayInv, UpstreamBreaksInv DEF Proxy
<1>2. CASE Upload \/ Learn \/ OtherRequest  BY <1>2, UploadInv, LearnInv, OtherRequestInv
<1>3. CASE Scenario
  BY <1>3, EarlyInv, StatsInv, KillAllInv, LapseInv, StartInv, VerifyInv DEF Scenario
<1>4. CASE WindowCloses \/ Interrupt \/ Close  BY <1>4, OutsideInv
<1>5. CASE UNCHANGED vars
  <2>1. TypeOK'  BY <1>5 DEF vars, proxy, celld, driver, IInv, TypeOK
  <2>2. ProgressInv'  BY <1>5 DEF vars, proxy, celld, driver, IInv, ProgressInv
  <2>3. wanted \in Nat  BY DEF IInv, TypeOK
  <2>. QED  BY <1>5, <2>1, <2>2, <2>3, FrameInv DEF vars, proxy, celld, driver
<1>. QED  BY <1>1, <1>2, <1>3, <1>4, <1>5 DEF Next

LEMMA Inductive == Spec => []IInv
<1>. USE ProxyAssumption
<1>1. Init => IInv  BY InitInv
<1>2. IInv /\ [Next]_vars => IInv'  BY IInvStep
<1>. QED  BY <1>1, <1>2, PTL DEF Spec

-----------------------------------------------------------------------------
\* The proxy's record, the store and the scenario stay in their domains; above all
\* the proxy never remembers more than its limit (StorageProxy.ts line 56).
THEOREM TypeCorrect == Spec => []TypeOK
<1>1. IInv => TypeOK  BY DEF IInv
<1>. QED  BY <1>1, Inductive, PTL

\* Evidence of a disturbance is an upload of the cell that was disturbed, and a
\* disturbed upload is found, but for the retry of an object whose first answer broke
\* off (QualificationOracles.ts lines 12-26).
THEOREM EvidenceSound == Spec => []EvidenceIsSound
<1>1. IInv => EvidenceIsSound  BY DEF IInv
<1>. QED  BY <1>1, Inductive, PTL

\* celld is never told of an object that is not there, the store is never more than the
\* next object ahead of it, and a scenario that passed has left everything in the store,
\* although the uploads of the killed process may still arrive (StorageProxy.ts lines
\* 55-118, QualificationContext.ts lines 226-233).
THEOREM NothingFeigned == Spec => []NothingIsFeigned
<1>1. ASSUME IInv  PROVE NothingIsFeigned
  <2>1. /\ committed \in Nat /\ wanted \in Nat /\ stored \subseteq 1..wanted
        /\ pc \in Nat
    BY <1>1, Places DEF IInv, TypeOK
  <2>2. 1..committed \subseteq stored  BY <1>1 DEF IInv, ProgressInv
  <2>3. \A o \in stored : o \in 1..wanted /\ o <= committed + 1
    BY <1>1, <2>1 DEF IInv, StoredInv
  <2>4. stored \subseteq 1..(committed + 1)  BY <2>1, <2>3
  <2>5. outcome = "passed" => committed = wanted  BY <1>1 DEF IInv, ProgressInv
  <2>. QED  BY <2>1, <2>2, <2>4, <2>5 DEF NothingIsFeigned
<1>. QED  BY <1>1, Inductive, PTL
=============================================================================
