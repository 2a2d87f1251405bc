-------------------------- MODULE PodCaptureProofs --------------------------
(***************************************************************************)
(* Theorems about PodCapture, for any number of captures, files, keys and  *)
(* workers: a bundle that can be chosen is whole, the evidence of a log    *)
(* stays its own, and the server implements DeliveryEvidence.              *)
(*                                                                         *)
(* The argument: only the request that inserted a draft fills and seals    *)
(* it, once, and nothing else makes a bundle ready; a retry that writes an *)
(* old copy back only ever writes it as expired.  A promotion holds the    *)
(* shipment's row from before its last look at the bundle to its commit,   *)
(* so that no other log can take the bundle in between.                    *)
(***************************************************************************)
EXTENDS PodCapture, TLAPS

-----------------------------------------------------------------------------
(***************************************************************************)
(* The inductive invariant                                                 *)
(***************************************************************************)

\* Worker p is filling capture c; worker x is about to promote its bundle.
Filling == {"staged", "attached", "counted", "sealed"}
Fills(p, c)    == phone[p].at \in Filling /\ phone[p].capture = c
Promotes(x, c) == exec[x].at \in {"resolved", "promoted"} /\ exec[x].bundle = c

\* A bundle that is found or chosen for promotion is stored; with this, types
\* are inductive.
TypeInv ==
    /\ TypeOK
    /\ \A p \in Phones : phone[p].at = "found" => row[phone[p].capture] # NoBundle
    /\ \A x \in Executors : exec[x].at # "idle" => row[exec[x].bundle] # NoBundle

\* The files of a capture come all at once, and a used bundle is never a
\* draft or ready again.
WholeOrEmpty(c) ==
    /\ MediaOf(c) \in {{}, sent[c]}
    /\ MediaOf(c) # {} => row[c] # NoBundle
    /\ Used(c) => row[c] # NoBundle /\ row[c].status \in {"promoted", "expired"}

\* Who fills a capture is alone with it and holds the copy it has written.
FillsAlone(p, c) ==
    Fills(p, c) =>
        /\ row[c] # NoBundle /\ row[c].status \in {"draft", "expired"}
        /\ ~Used(c)
        /\ MediaOf(c) = IF phone[p].at = "staged" THEN {} ELSE sent[c]
        /\ phone[p].copy = [Draft EXCEPT !.sealed =
                                IF phone[p].at = "sealed" THEN sent[c] ELSE {}]
        /\ \A q \in Phones : Fills(q, c) => q = p

\* Who promotes a bundle read it whole and unused, and it still is.
PromotesWhole(x, c) ==
    Promotes(x, c) =>
        /\ ~Used(c)
        /\ logs[exec[x].key] = NoLog
        /\ exec[x].copy.sealed = sent[c] /\ MediaOf(c) = sent[c]
        /\ \A p \in Phones : ~Fills(p, c)

\* The shipment's row is held by who has locked it, and files that were merged
\* are files of some capture.
HoldsLock(x) ==
    /\ exec[x].at \in {"locked", "resolved", "promoted"} => lock = x
    /\ exec[x].at # "idle" => \A f \in exec[x].merged : media[f].bundle # NoBundle

EvidenceInv ==
    /\ TypeInv
    /\ ReadyIsWhole
    /\ EvidenceStays
    /\ \A c \in Captures : WholeOrEmpty(c)
    /\ \A p \in Phones, c \in Captures : FillsAlone(p, c)
    /\ \A x \in Executors, c \in Captures : PromotesWhole(x, c)
    /\ \A x \in Executors : HoldsLock(x)

-----------------------------------------------------------------------------
(***************************************************************************)
(* Types                                                                   *)
(***************************************************************************)

\* What a worker's state holds, by the step it has come to.
LEMMA PhoneFields ==
    ASSUME TypeOK, NEW p \in Phones
    PROVE  /\ phone[p].at \in {"idle", "new", "found", "staged", "attached", "counted",
                              "sealed"}
           /\ phone[p].at # "idle" => phone[p].capture \in Captures
           /\ phone[p].at \in {"found", "staged", "attached", "counted", "sealed"} =>
                  /\ phone[p] \in [at : {"found", "staged", "attached", "counted", "sealed"},
                                   capture : Captures, copy : Bundles]
                  /\ phone[p].copy \in Bundles
BY DEF TypeOK, PhoneStates, IdlePhone

LEMMA ExecFields ==
    ASSUME TypeOK, NEW x \in Executors
    PROVE  /\ exec[x].at \in {"idle", "prepared", "locked", "resolved", "promoted"}
           /\ exec[x].at # "idle" =>
                  /\ exec[x].key \in Keys
                  /\ exec[x].bundle \in Captures
                  /\ exec[x].merged \in SUBSET Files
           /\ exec[x].at \in {"prepared", "locked"} =>
                  exec[x] \in [at : {"prepared", "locked"}, key : Keys,
                               bundle : Captures, merged : SUBSET Files]
           /\ exec[x].at \in {"resolved", "promoted"} =>
                  /\ exec[x] \in [at : {"resolved", "promoted"}, key : Keys,
                                  bundle : Captures, merged : SUBSET Files, copy : Bundles]
                  /\ exec[x].copy \in Bundles
BY DEF TypeOK, ExecStates, IdleExec

LEMMA MediaOfIsFiles == \A c : MediaOf(c) \in SUBSET Files
BY DEF MediaOf

LEMMA DraftIsBundle == Draft \in Bundles /\ Draft = [Draft EXCEPT !.sealed = {}]
BY DEF Draft, Bundles

LEMMA PodTypeInit == Init => TypeInv
BY DEF Init, TypeInv, TypeOK, PhoneStates, ExecStates, IdlePhone, IdleExec

\* A capture worker writes one row as a bundle and goes on.
LEMMA PhoneStepTypes ==
    ASSUME TypeInv, NEW p \in Phones, NEW c \in Captures,
           NEW b \in Bundles, row' = [row EXCEPT ![c] = b] \/ row' = row,
           NEW s \in PhoneStates, phone' = [phone EXCEPT ![p] = s],
           s.at = "found" => row[s.capture] # NoBundle,
           media' \in [Files -> [bundle : Captures \cup {NoBundle}, log : Keys \cup {NoLog}]],
           UNCHANGED <<sent, late, logs, lock, exec>>
    PROVE  TypeInv'
<1>1. row' \in [Captures -> Bundles \cup {NoBundle}]
  BY DEF TypeInv, TypeOK
<1>2. \A d \in Captures : row[d] # NoBundle => row'[d] # NoBundle
  BY NoneAssumption DEF TypeInv, TypeOK
<1>3. phone' \in [Phones -> PhoneStates]
  BY DEF TypeInv, TypeOK
<1>4. \A q \in Phones : phone'[q].at = "found" => row[phone'[q].capture] # NoBundle
  BY DEF TypeInv, TypeOK
<1>5. \A q \in Phones : phone'[q].at = "found" => phone'[q].capture \in Captures
  BY <1>3 DEF PhoneStates, IdlePhone
<1> QED
  BY <1>1, <1>2, <1>3, <1>4, <1>5, ExecFields DEF TypeInv, TypeOK

\* An execute worker that writes no row goes on with a stored bundle.
LEMMA ExecStepTypes ==
    ASSUME TypeInv, NEW x \in Executors,
           NEW s \in ExecStates, exec' = [exec EXCEPT ![x] = s],
           s.at # "idle" => row[s.bundle] # NoBundle,
           lock' \in Executors \cup {Nobody},
           UNCHANGED <<row, media, sent, late, logs, phone>>
    PROVE  TypeInv'
BY DEF TypeInv, TypeOK

LEMMA PodTypeNext == TypeInv /\ [Next]_vars => TypeInv'
<1> SUFFICES ASSUME TypeInv, [Next]_vars PROVE TypeInv'
  OBVIOUS
<1>0. /\ TypeOK /\ IdlePhone \in PhoneStates /\ IdleExec \in ExecStates
      /\ IdlePhone.at = "idle" /\ IdleExec.at = "idle"
  BY DEF TypeInv, PhoneStates, ExecStates, IdlePhone, IdleExec
<1>1. ASSUME NEW p \in Phones, NEW c \in Captures, Look(p, c), UNCHANGED sent
      PROVE  TypeInv'
  <2> DEFINE s == IF row[c] = NoBundle THEN [at |-> "new", capture |-> c]
                  ELSE [at |-> "found", capture |-> c, copy |-> row[c]]
  <2>1. s \in PhoneStates
    BY <1>0 DEF TypeOK, PhoneStates
  <2>2. phone' = [phone EXCEPT ![p] = s]
    BY <1>1 DEF Look
  <2> QED
    BY <1>1, <1>0, <2>1, <2>2, DraftIsBundle, PhoneStepTypes DEF Look, TypeOK
<1>2. ASSUME NEW p \in Phones, Refused(p) \/ Replay(p) \/ Conflict(p) \/ Drop(p),
             UNCHANGED sent
      PROVE  TypeInv'
  <2>1. phone' = [phone EXCEPT ![p] = IdlePhone]
    BY <1>2 DEF Refused, Replay, Conflict, Drop, Hang
  <2>2. UNCHANGED <<row, media, late, logs, lock, exec, sent>>
    BY <1>2 DEF Refused, Replay, Conflict, Drop
  <2> QED
    BY <1>0, <1>2, <2>1, <2>2, DraftIsBundle, PhoneFields, PhoneStepTypes
       DEF TypeOK, Refused, Replay, Conflict, Drop
<1>3. ASSUME NEW p \in Phones, MarkExpired(p), UNCHANGED sent PROVE TypeInv'
  <2>1. phone[p].capture \in Captures /\ phone[p].copy \in Bundles
    BY <1>0, <1>3, PhoneFields DEF MarkExpired
  <2>2. [phone[p].copy EXCEPT !.status = "expired"] \in Bundles
    BY <2>1 DEF Bundles
  <2> QED
    BY <1>3, <1>0, <2>1, <2>2, PhoneStepTypes DEF MarkExpired, Hang, TypeOK
<1>4. ASSUME NEW p \in Phones, Create(p), UNCHANGED sent PROVE TypeInv'
  <2>1. phone[p].capture \in Captures
    BY <1>0, <1>4, PhoneFields DEF Create
  <2>2. [at |-> "staged", capture |-> phone[p].capture, copy |-> Draft] \in PhoneStates
    BY <2>1, DraftIsBundle DEF PhoneStates
  <2>3. [at |-> "staged", capture |-> phone[p].capture, copy |-> Draft].at = "staged"
    OBVIOUS
  <2>4. media \in [Files -> [bundle : Captures \cup {NoBundle}, log : Keys \cup {NoLog}]]
    BY <1>0 DEF TypeOK
  <2> QED
    BY <1>4, <1>0, <2>1, <2>2, <2>3, <2>4, DraftIsBundle, PhoneStepTypes DEF Create, Hang, TypeOK
<1>5. ASSUME NEW p \in Phones, Attach(p), UNCHANGED sent PROVE TypeInv'
  <2>1. phone[p].capture \in Captures /\ phone[p].copy \in Bundles
    BY <1>0, <1>5, PhoneFields DEF Attach
  <2>2. [phone[p] EXCEPT !.at = "attached"] \in PhoneStates
        /\ [phone[p] EXCEPT !.at = "attached"].at = "attached"
    BY <1>0, <1>5, PhoneFields DEF Attach, PhoneStates
  <2>3. media' \in [Files -> [bundle : Captures \cup {NoBundle}, log : Keys \cup {NoLog}]]
    BY <1>0, <1>5, <2>1 DEF Attach, TypeOK
  <2>4. phone' = [phone EXCEPT ![p] = [phone[p] EXCEPT !.at = "attached"]]
    BY <1>5 DEF Attach
  <2> QED
    BY <1>5, <2>1, <2>2, <2>3, <2>4, PhoneStepTypes DEF Attach
<1>17. ASSUME NEW p \in Phones, Count(p), UNCHANGED sent PROVE TypeInv'
  <2>1. phone[p].capture \in Captures /\ phone[p].copy \in Bundles
    BY <1>0, <1>17, PhoneFields DEF Count
  <2>2. [phone[p] EXCEPT !.at = "counted"] \in PhoneStates
        /\ [phone[p] EXCEPT !.at = "counted"].at = "counted"
    BY <1>0, <1>17, PhoneFields DEF Count, PhoneStates
  <2>3. media' \in [Files -> [bundle : Captures \cup {NoBundle}, log : Keys \cup {NoLog}]]
    BY <1>0, <1>17 DEF Count, TypeOK
  <2>4. phone' = [phone EXCEPT ![p] = [phone[p] EXCEPT !.at = "counted"]]
    BY <1>17 DEF Count
  <2> QED
    BY <1>17, <2>1, <2>2, <2>3, <2>4, PhoneStepTypes DEF Count
<1>6. ASSUME NEW p \in Phones, Seal(p), UNCHANGED sent PROVE TypeInv'
  <2> DEFINE c == phone[p].capture
             sealed == [phone[p].copy EXCEPT !.sealed = MediaOf(c)]
             s == [phone[p] EXCEPT !.at = "sealed", !.copy = sealed]
  <2>1. c \in Captures /\ phone[p].copy \in Bundles
    BY <1>0, <1>6, PhoneFields DEF Seal
  <2>2. sealed \in Bundles
    BY <2>1, MediaOfIsFiles DEF Bundles
  <2>3. s \in PhoneStates /\ s.at = "sealed"
    BY <1>0, <1>6, <2>2, PhoneFields DEF Seal, PhoneStates
  <2>4. phone' = [phone EXCEPT ![p] = s] /\ row' = [row EXCEPT ![c] = sealed]
    BY <1>6 DEF Seal
  <2>5. UNCHANGED <<media, late, logs, lock, exec, sent>>
    BY <1>6 DEF Seal
  <2> HIDE DEF s, sealed, c
  <2> QED
    BY <1>0, <2>1, <2>2, <2>3, <2>4, <2>5, PhoneStepTypes DEF TypeOK
<1>7. ASSUME NEW p \in Phones, MarkReady(p), UNCHANGED sent PROVE TypeInv'
  <2> DEFINE c == phone[p].capture
             b == [phone[p].copy EXCEPT !.status = IF c \in late THEN "expired" ELSE "ready"]
  <2>1. c \in Captures /\ phone[p].copy \in Bundles
    BY <1>0, <1>7, PhoneFields DEF MarkReady
  <2>2. b \in Bundles
    BY <2>1 DEF Bundles
  <2>3. phone' = [phone EXCEPT ![p] = IdlePhone] /\ row' = [row EXCEPT ![c] = b]
    BY <1>7 DEF MarkReady, Hang
  <2> HIDE DEF b, c
  <2> QED
    BY <1>0, <1>7, <2>1, <2>2, <2>3, PhoneStepTypes DEF MarkReady, TypeOK
<1>8. ASSUME NEW x \in Executors, NEW k \in Keys, NEW c \in Captures, Prepare(x, k, c),
             UNCHANGED sent
      PROVE  TypeInv'
  <2> DEFINE m == UNION {MediaOf(d) : d \in Candidates}
             s == [at |-> "prepared", key |-> k, bundle |-> c, merged |-> m]
  <2>1. m \in SUBSET Files
    BY MediaOfIsFiles
  <2>2. s \in ExecStates /\ row[s.bundle] # NoBundle
    BY <1>8, <2>1 DEF ExecStates, Prepare, Candidates, Stored
  <2>3. exec' = [exec EXCEPT ![x] = s]
    BY <1>8 DEF Prepare
  <2> HIDE DEF s
  <2> QED
    BY <1>0, <1>8, <2>2, <2>3, ExecStepTypes DEF Prepare, TypeOK
<1>9. ASSUME NEW x \in Executors, Lock(x), UNCHANGED sent PROVE TypeInv'
  <2>1. [exec[x] EXCEPT !.at = "locked"] \in ExecStates
    BY <1>0, <1>9, ExecFields DEF Lock, ExecStates
  <2>2. [exec[x] EXCEPT !.at = "locked"].bundle = exec[x].bundle
    BY <1>0, <1>9, ExecFields DEF Lock
  <2>3. row[exec[x].bundle] # NoBundle
    BY <1>9 DEF Lock, TypeInv
  <2>4. exec' = [exec EXCEPT ![x] = [exec[x] EXCEPT !.at = "locked"]]
    BY <1>9 DEF Lock
  <2> QED
    BY <1>9, <2>1, <2>2, <2>3, <2>4, ExecStepTypes DEF Lock
<1>10. ASSUME NEW x \in Executors, Resolve(x), UNCHANGED sent PROVE TypeInv'
  <2> DEFINE s == [at |-> "resolved", key |-> exec[x].key, bundle |-> exec[x].bundle,
                   merged |-> exec[x].merged, copy |-> row[exec[x].bundle]]
  <2>1. row[exec[x].bundle] \in Bundles
    BY <1>0, <1>10, ExecFields DEF Resolve, TypeInv, TypeOK
  <2>2. s \in ExecStates /\ row[s.bundle] # NoBundle
    BY <1>0, <1>10, <2>1, ExecFields DEF Resolve, ExecStates, TypeInv
  <2>3. exec' = [exec EXCEPT ![x] = s]
    BY <1>10 DEF Resolve
  <2> HIDE DEF s
  <2> QED
    BY <1>0, <1>10, <2>2, <2>3, ExecStepTypes DEF Resolve, TypeOK
<1>11. ASSUME NEW x \in Executors, Promote(x), UNCHANGED sent PROVE TypeInv'
  <2>1. [exec[x] EXCEPT !.at = "promoted"] \in ExecStates
    BY <1>0, <1>11, ExecFields DEF Promote, ExecStates
  <2>2. [exec[x] EXCEPT !.at = "promoted"].bundle = exec[x].bundle
    BY <1>0, <1>11, ExecFields DEF Promote
  <2>3. row[exec[x].bundle] # NoBundle
    BY <1>11 DEF Promote, TypeInv
  <2>4. exec' = [exec EXCEPT ![x] = [exec[x] EXCEPT !.at = "promoted"]]
    BY <1>11 DEF Promote
  <2> QED
    BY <1>0, <1>11, <2>1, <2>2, <2>3, <2>4, ExecStepTypes DEF Promote, TypeOK
<1>12. ASSUME NEW x \in Executors, Commit(x), UNCHANGED sent PROVE TypeInv'
  <2> DEFINE c == exec[x].bundle
             k == exec[x].key
             b == [exec[x].copy EXCEPT !.status = "promoted", !.log = k]
  <2>1. c \in Captures /\ k \in Keys /\ exec[x].copy \in Bundles
        /\ exec[x].merged \in SUBSET Files
    BY <1>0, <1>12, ExecFields DEF Commit
  <2>2. b \in Bundles /\ b # NoBundle
    BY <2>1, NoneAssumption DEF Bundles
  <2>3. row' = [row EXCEPT ![c] = b]
    BY <1>12 DEF Commit
  <2>4. row' \in [Captures -> Bundles \cup {NoBundle}]
        /\ \A d \in Captures : row[d] # NoBundle => row'[d] # NoBundle
    BY <1>0, <2>1, <2>2, <2>3 DEF TypeOK
  <2>5. media' \in [Files -> [bundle : Captures \cup {NoBundle}, log : Keys \cup {NoLog}]]
    BY <1>0, <1>12, <2>1 DEF Commit, TypeOK
  <2>6. logs' \in [Keys -> Log \cup {NoLog}]
    <3>1. PICK extra \in SUBSET exec[x].merged :
              logs' = [logs EXCEPT ![k] = [bundle |-> c, files |-> MediaOf(c) \cup extra]]
      BY <1>12 DEF Commit
    <3>2. [bundle |-> c, files |-> MediaOf(c) \cup extra] \in Log
      BY <2>1, MediaOfIsFiles DEF Log
    <3> QED BY <1>0, <3>1, <3>2 DEF TypeOK
  <2>7. exec' \in [Executors -> ExecStates] /\ \A y \in Executors :
            exec'[y].at # "idle" => exec'[y] = exec[y]
    BY <1>0, <1>12 DEF Commit, Finish, TypeOK, IdleExec
  <2> QED
    BY <1>0, <1>12, <2>4, <2>5, <2>6, <2>7, ExecFields DEF Commit, TypeInv, TypeOK
<1>13. ASSUME NEW x \in Executors, Refuse(x) \/ Die(x), UNCHANGED sent PROVE TypeInv'
  <2>1. exec' = [exec EXCEPT ![x] = IdleExec] /\ IdleExec.at = "idle"
    BY <1>13 DEF Refuse, Die, Rollback, Finish, IdleExec
  <2>2. lock' \in Executors \cup {Nobody}
    BY <1>0, <1>13 DEF Refuse, Die, Rollback, TypeOK
  <2> QED
    BY <1>0, <1>13, <2>1, <2>2, ExecStepTypes DEF Refuse, Die, Rollback
<1>14. ASSUME NEW c \in Captures, TimePasses(c), UNCHANGED sent PROVE TypeInv'
  BY <1>14 DEF TimePasses, TypeInv, TypeOK
<1>15. ASSUME ExpireStale, UNCHANGED sent PROVE TypeInv'
  <2>1. \A c \in Captures : row[c] # NoBundle =>
            [row[c] EXCEPT !.status = "expired"] \in Bundles
    BY <1>0 DEF TypeOK, Bundles
  <2>2. \A c \in Captures :
            /\ row'[c] \in Bundles \cup {NoBundle}
            /\ row[c] # NoBundle => row'[c] # NoBundle
    BY <1>0, <1>15, <2>1, NoneAssumption DEF ExpireStale, Stored, TypeOK
  <2>3. row' \in [Captures -> Bundles \cup {NoBundle}]
    BY <1>15, <2>2 DEF ExpireStale
  <2> QED
    BY <1>0, <1>15, <2>2, <2>3, ExecFields, PhoneFields DEF ExpireStale, TypeInv, TypeOK
<1>16. CASE UNCHANGED vars
  BY <1>16 DEF vars, TypeInv, TypeOK
<1> QED
  BY <1>1, <1>2, <1>3, <1>4, <1>5, <1>6, <1>7, <1>8, <1>9, <1>10, <1>11, <1>12,
     <1>13, <1>14, <1>15, <1>16, <1>17 DEF Next, Capture, Execute

\* Every row, log and worker keeps its shape; whoever dies, none of them is
\* ever read before it is there.
THEOREM PodTypeCorrect == Spec => []TypeOK
<1>1. TypeInv => TypeOK
  BY DEF TypeInv
<1> QED
  BY <1>1, PodTypeInit, PodTypeNext, PTL DEF Spec

-----------------------------------------------------------------------------
(***************************************************************************)
(* Evidence                                                                *)
(***************************************************************************)

LEMMA EvidenceInit == Init => EvidenceInv
<1> SUFFICES ASSUME Init PROVE EvidenceInv
  OBVIOUS
<1>1. \A c \in Captures : MediaOf(c) = {} /\ ~Used(c) /\ row[c] = NoBundle
  BY NoneAssumption DEF Init, MediaOf, Used
<1>2. \A p \in Phones : phone[p].at = "idle"
  BY DEF Init, IdlePhone
<1>3. \A x \in Executors : exec[x].at = "idle"
  BY DEF Init, IdleExec
<1>4. \A k \in Keys : logs[k] = NoLog
  BY DEF Init
<1> QED
  BY <1>1, <1>2, <1>3, <1>4, PodTypeInit
     DEF EvidenceInv, ReadyIsWhole, EvidenceStays, Stored, WholeOrEmpty,
         FillsAlone, Fills, Filling, PromotesWhole, Promotes, HoldsLock

LEMMA SameTables ==
    /\ media' = media => \A c \in Captures : MediaOf(c)' = MediaOf(c)
    /\ logs' = logs => \A c \in Captures : Used(c)' <=> Used(c)
BY DEF MediaOf, Used

\* What a capture is sent with is not empty.
LEMMA SentFiles ==
    ASSUME TypeOK, NEW c \in Captures
    PROVE  sent[c] \in SUBSET Files /\ sent[c] # {}
BY ContentsAssumption DEF TypeOK

\* A capture worker that lets go writes nothing, or marks a bundle expired,
\* or makes ready what it alone has filled.
LEMMA LetsGo ==
    ASSUME EvidenceInv, TypeInv', NEW p \in Phones, NEW s, s.at \notin Filling,
           phone' = [phone EXCEPT ![p] = s],
           UNCHANGED <<media, sent, logs, lock, exec>>,
           NEW c \in Captures, NEW b \in Bundles,
           row' = row \/ row' = [row EXCEPT ![c] = b],
           \/ b.status = "expired"
           \/ /\ b.status = "ready"
              /\ b.sealed = sent[c] /\ MediaOf(c) = sent[c] /\ ~Used(c)
              /\ \A q \in Phones \ {p} : ~Fills(q, c)
    PROVE  EvidenceInv'
<1> USE DEF EvidenceInv
<1>1. \A d \in Captures : MediaOf(d)' = MediaOf(d) /\ (Used(d)' <=> Used(d))
  BY SameTables
<1>2. \A d \in Captures : row[d] # NoBundle => row'[d] # NoBundle
  BY NoneAssumption DEF TypeInv, TypeOK
<1>3. \A d \in Captures : row'[d] = row[d] \/ (d = c /\ row'[d] = b)
  BY DEF TypeInv, TypeOK
<1>4. \A q \in Phones, d \in Captures : Fills(q, d)' => q # p /\ Fills(q, d) /\ phone'[q] = phone[q]
  BY DEF TypeInv, TypeOK, Fills
<1>5. ReadyIsWhole'
  BY <1>1, <1>3 DEF ReadyIsWhole, Stored
<1>6. EvidenceStays'
  BY DEF EvidenceStays
<1>7. \A d \in Captures : WholeOrEmpty(d)'
  BY <1>1, <1>2, <1>3 DEF WholeOrEmpty
<1>8. ASSUME NEW q \in Phones, NEW d \in Captures PROVE FillsAlone(q, d)'
  <2> SUFFICES ASSUME Fills(q, d)' PROVE FillsAlone(q, d)'
    BY DEF FillsAlone
  <2>1. q # p /\ Fills(q, d) /\ phone'[q] = phone[q] /\ FillsAlone(q, d)
    BY <1>4
  <2>2. row'[d] # NoBundle /\ row'[d].status \in {"draft", "expired"}
    BY <2>1, <1>2, <1>3 DEF FillsAlone
  <2>3. \A r \in Phones : Fills(r, d)' => r = q
    BY <2>1, <1>4 DEF FillsAlone
  <2> QED
    BY <1>1, <2>1, <2>2, <2>3 DEF FillsAlone
<1>9. ASSUME NEW x \in Executors, NEW d \in Captures PROVE PromotesWhole(x, d)'
  <2>1. Promotes(x, d)' <=> Promotes(x, d)
    BY DEF Promotes
  <2> QED
    BY <1>1, <1>4, <2>1 DEF PromotesWhole
<1>10. \A x \in Executors : HoldsLock(x)'
  BY DEF HoldsLock
<1> QED
  BY <1>5, <1>6, <1>7, <1>8, <1>9, <1>10

\* A capture worker that goes on writes the draft it holds, if it writes the
\* row, with the files of its capture or before there are any.
LEMMA GoesOn ==
    ASSUME EvidenceInv, TypeInv', NEW p \in Phones, NEW s, NEW c \in Captures,
           s.at \in Filling, s.capture = c,
           s.copy = [Draft EXCEPT !.sealed = IF s.at = "sealed" THEN sent[c] ELSE {}],
           phone' = [phone EXCEPT ![p] = s],
           \/ row' = [row EXCEPT ![c] = s.copy]
           \/ row' = row /\ row[c] # NoBundle /\ row[c].status \in {"draft", "expired"},
           UNCHANGED <<sent, logs, lock, exec>>,
           MediaOf(c)' = IF s.at = "staged" THEN {} ELSE sent[c],
           \A d \in Captures \ {c} : MediaOf(d)' = MediaOf(d),
           \A f \in Files : /\ media[f].log # NoLog => media'[f] = media[f]
                            /\ media[f].bundle # NoBundle => media'[f].bundle # NoBundle,
           ~Used(c),
           \A q \in Phones \ {p} : ~Fills(q, c),
           \A x \in Executors : ~Promotes(x, c)
    PROVE  EvidenceInv'
<1> USE DEF EvidenceInv
<1>1. \A d \in Captures : Used(d)' <=> Used(d)
  BY SameTables
<1>2. s.copy \in Bundles /\ s.copy.status = "draft" /\ s.copy # NoBundle
  BY SentFiles, NoneAssumption DEF TypeInv, Draft, Bundles
<1>3. /\ row'[c] # NoBundle /\ row'[c].status \in {"draft", "expired"}
      /\ \A d \in Captures \ {c} : row'[d] = row[d]
  BY <1>2 DEF TypeInv, TypeOK
<1>4. phone'[p] = s /\ \A q \in Phones \ {p} : phone'[q] = phone[q]
  BY DEF TypeInv, TypeOK
<1>5. ReadyIsWhole'
  BY <1>2, <1>3 DEF ReadyIsWhole, Stored
<1>6. EvidenceStays'
  <2> SUFFICES ASSUME NEW k \in Keys, logs[k] # NoLog, NEW f \in sent[logs[k].bundle]
               PROVE  /\ media'[f] = [bundle |-> logs[k].bundle, log |-> k]
                      /\ f \in logs[k].files
    BY DEF EvidenceStays
  <2>1. media[f] = [bundle |-> logs[k].bundle, log |-> k] /\ f \in logs[k].files
    BY DEF EvidenceStays
  <2>2. f \in Files
    BY SentFiles DEF TypeInv, TypeOK, Log
  <2> QED BY <2>1, <2>2, NoneAssumption
<1>7. \A d \in Captures : WholeOrEmpty(d)'
  BY <1>1, <1>2, <1>3 DEF WholeOrEmpty
<1>8. ASSUME NEW q \in Phones, NEW d \in Captures PROVE FillsAlone(q, d)'
  <2> SUFFICES ASSUME Fills(q, d)' PROVE FillsAlone(q, d)'
    BY DEF FillsAlone
  <2>1. CASE q = p
    <3>1. d = c
      BY <1>4, <2>1 DEF Fills
    <3>2. \A r \in Phones : Fills(r, c)' => r = p
      BY <1>4 DEF Fills
    <3>3. /\ MediaOf(c)' = IF phone'[p].at = "staged" THEN {} ELSE sent'[c]
          /\ phone'[p].copy = [Draft EXCEPT !.sealed =
                                   IF phone'[p].at = "sealed" THEN sent'[c] ELSE {}]
      BY <1>4
    <3>4. row'[c] # NoBundle /\ row'[c].status \in {"draft", "expired"} /\ ~Used(c)'
      BY <1>1, <1>2, <1>3
    <3> QED
      BY <2>1, <3>1, <3>2, <3>3, <3>4 DEF FillsAlone
  <2>2. CASE q # p
    <3>1. Fills(q, d) /\ d # c /\ FillsAlone(q, d)
      BY <1>4, <2>2 DEF Fills
    <3>2. \A r \in Phones : Fills(r, d)' => r # p /\ Fills(r, d)
      BY <1>4, <3>1 DEF Fills
    <3> QED
      BY <1>1, <1>3, <1>4, <2>2, <3>1, <3>2 DEF FillsAlone
  <2> QED BY <2>1, <2>2
<1>9. ASSUME NEW x \in Executors, NEW d \in Captures PROVE PromotesWhole(x, d)'
  <2> SUFFICES ASSUME Promotes(x, d)' PROVE PromotesWhole(x, d)'
    BY DEF PromotesWhole
  <2>1. Promotes(x, d) /\ d # c
    BY DEF Promotes
  <2>2. \A q \in Phones : ~Fills(q, d)'
    BY <1>4, <2>1 DEF PromotesWhole, Fills
  <2> QED
    BY <1>1, <2>1, <2>2 DEF PromotesWhole
<1>10. ASSUME NEW x \in Executors PROVE HoldsLock(x)'
  BY ExecFields DEF HoldsLock, TypeInv
<1> QED
  BY <1>5, <1>6, <1>7, <1>8, <1>9, <1>10
\* An execute worker that writes nothing yet.
LEMMA ExecuteGoesOn ==
    ASSUME EvidenceInv, TypeInv', NEW x \in Executors, NEW s,
           exec' = [exec EXCEPT ![x] = s],
           UNCHANGED <<row, media, sent, logs, phone>>,
           \/ lock' = lock
           \/ lock = Nobody /\ lock' = x
           \/ lock = x /\ lock' = Nobody,
           s.at \in {"locked", "resolved", "promoted"} => lock' = x,
           s.at # "idle" => \A f \in s.merged : media[f].bundle # NoBundle,
           s.at \in {"resolved", "promoted"} =>
               /\ ~Used(s.bundle) /\ logs[s.key] = NoLog
               /\ s.copy.sealed = sent[s.bundle] /\ MediaOf(s.bundle) = sent[s.bundle]
               /\ \A p \in Phones : ~Fills(p, s.bundle)
    PROVE  EvidenceInv'
<1> USE DEF EvidenceInv
<1>1. \A d \in Captures : MediaOf(d)' = MediaOf(d) /\ (Used(d)' <=> Used(d))
  BY SameTables
<1>2. exec'[x] = s /\ \A y \in Executors \ {x} : exec'[y] = exec[y]
  BY DEF TypeInv, TypeOK
<1>3. ReadyIsWhole' /\ EvidenceStays'
  BY <1>1 DEF ReadyIsWhole, EvidenceStays, Stored
<1>4. \A d \in Captures : WholeOrEmpty(d)'
  BY <1>1 DEF WholeOrEmpty
<1>5. \A q \in Phones, d \in Captures : Fills(q, d)' <=> Fills(q, d)
  BY DEF Fills
<1>6. \A q \in Phones, d \in Captures : FillsAlone(q, d)'
  BY <1>1, <1>5 DEF FillsAlone
<1>7. ASSUME NEW y \in Executors, NEW d \in Captures PROVE PromotesWhole(y, d)'
  <2>1. CASE y = x
    BY <1>1, <1>2, <1>5, <2>1 DEF PromotesWhole, Promotes
  <2>2. CASE y # x
    <3>1. Promotes(y, d)' <=> Promotes(y, d)
      BY <1>2, <2>2 DEF Promotes
    <3> QED
      BY <1>1, <1>2, <1>5, <2>2, <3>1 DEF PromotesWhole
  <2> QED BY <2>1, <2>2
<1>8. ASSUME NEW y \in Executors PROVE HoldsLock(y)'
  <2>1. CASE y = x
    BY <1>2, <2>1 DEF HoldsLock
  <2>2. CASE y # x
    BY <1>2, <2>2, NoneAssumption DEF HoldsLock
  <2> QED BY <2>1, <2>2
<1> QED
  BY <1>3, <1>4, <1>6, <1>7, <1>8

\* The commit: nobody else holds the shipment's row, so that no other log has
\* taken the bundle or the key.
LEMMA CommitKeeps ==
    ASSUME EvidenceInv, TypeInv', NEW x \in Executors, Commit(x), UNCHANGED sent
    PROVE  EvidenceInv'
<1> USE DEF EvidenceInv
<1> DEFINE c == exec[x].bundle
           k == exec[x].key
<1>1. /\ c \in Captures /\ k \in Keys /\ Promotes(x, c) /\ exec[x].at = "promoted"
      /\ exec[x].copy \in Bundles
  BY ExecFields DEF Commit, Promotes, TypeInv
<1>2. /\ ~Used(c) /\ logs[k] = NoLog
      /\ exec[x].copy.sealed = sent[c] /\ MediaOf(c) = sent[c]
      /\ \A p \in Phones : ~Fills(p, c)
  BY <1>1 DEF PromotesWhole
<1>3. PICK extra \in SUBSET exec[x].merged :
          logs' = [logs EXCEPT ![k] = [bundle |-> c, files |-> MediaOf(c) \cup extra]]
  BY DEF Commit
<1>4. /\ media' = [f \in Files |->
             IF media[f].bundle = c THEN [media[f] EXCEPT !.log = k] ELSE media[f]]
      /\ row' = [row EXCEPT ![c] = [exec[x].copy EXCEPT !.status = "promoted", !.log = k]]
      /\ exec' = [exec EXCEPT ![x] = IdleExec]
      /\ lock' = Nobody
      /\ UNCHANGED <<late, phone>>
  BY DEF Commit, Finish
<1>5. /\ row'[c].status = "promoted" /\ row'[c].sealed = sent[c] /\ row'[c] # NoBundle
      /\ \A d \in Captures \ {c} : row'[d] = row[d]
  <2> DEFINE b == [exec[x].copy EXCEPT !.status = "promoted", !.log = k]
  <2>1. b \in Bundles /\ b.status = "promoted" /\ b.sealed = sent[c]
    BY <1>1, <1>2 DEF Bundles
  <2>2. row' = [row EXCEPT ![c] = b]
    BY <1>4
  <2> HIDE DEF b, c
  <2> QED BY <1>1, <2>1, <2>2, NoneAssumption DEF TypeInv, TypeOK
<1>6. \A f \in Files : media'[f].bundle = media[f].bundle
  BY <1>4 DEF TypeInv, TypeOK
<1>7. \A d \in Captures : MediaOf(d)' = MediaOf(d)
  BY <1>6 DEF MediaOf
<1>8. logs'[k] = [bundle |-> c, files |-> MediaOf(c) \cup extra] /\ logs'[k] # NoLog
      /\ \A j \in Keys \ {k} : logs'[j] = logs[j]
  <2>1. extra \in SUBSET Files
    BY <1>1, ExecFields DEF TypeInv
  <2>2. [bundle |-> c, files |-> MediaOf(c) \cup extra] \in Log
    BY <1>1, <2>1, MediaOfIsFiles DEF Log
  <2> QED BY <1>1, <1>3, <2>2, NoneAssumption DEF TypeInv, TypeOK
<1>9. \A d \in Captures : Used(d)' <=> (Used(d) \/ d = c)
  BY <1>1, <1>2, <1>8 DEF Used
<1>10. exec'[x].at = "idle" /\ \A y \in Executors \ {x} : exec'[y] = exec[y]
  BY <1>4 DEF TypeInv, TypeOK, IdleExec
<1>11. \A y \in Executors \ {x} : exec[y].at \notin {"locked", "resolved", "promoted"}
  BY <1>1 DEF HoldsLock
<1> HIDE DEF c, k
<1>12. ReadyIsWhole'
  BY <1>2, <1>5, <1>7 DEF ReadyIsWhole, Stored
<1>13. EvidenceStays'
  <2> SUFFICES ASSUME NEW j \in Keys, logs'[j] # NoLog,
                      NEW f \in sent[logs'[j].bundle]
               PROVE  /\ media'[f] = [bundle |-> logs'[j].bundle, log |-> j]
                      /\ f \in logs'[j].files
    BY DEF EvidenceStays
  <2>1. CASE j = k
    <3>1. f \in MediaOf(c) /\ logs'[j].bundle = c /\ f \in logs'[j].files
      BY <1>2, <1>8, <2>1
    <3>2. f \in Files /\ media[f].bundle = c
      BY <3>1 DEF MediaOf
    <3>3. media'[f] = [media[f] EXCEPT !.log = k]
      BY <1>4, <3>2 DEF c, k
    <3> QED BY <2>1, <3>1, <3>2, <3>3 DEF TypeInv, TypeOK
  <2>2. CASE j # k
    <3>1. logs'[j] = logs[j] /\ logs[j].bundle # c /\ logs[j] \in Log
      BY <1>2, <1>8, <2>2 DEF Used, TypeInv, TypeOK
    <3>2. media[f] = [bundle |-> logs[j].bundle, log |-> j] /\ f \in logs[j].files
      BY <3>1 DEF EvidenceStays
    <3>3. f \in Files
      BY <3>1, SentFiles DEF Log, TypeInv
    <3> QED BY <1>4, <3>1, <3>2, <3>3 DEF c
  <2> QED BY <2>1, <2>2
<1>14. ASSUME NEW d \in Captures PROVE WholeOrEmpty(d)'
  <2>1. WholeOrEmpty(d)
    OBVIOUS
  <2> QED BY <1>5, <1>7, <1>9, <2>1 DEF WholeOrEmpty
<1>15. ASSUME NEW q \in Phones, NEW d \in Captures PROVE FillsAlone(q, d)'
  <2> SUFFICES ASSUME Fills(q, d)' PROVE FillsAlone(q, d)'
    BY DEF FillsAlone
  <2>1. \A r \in Phones : Fills(r, d)' <=> Fills(r, d)
    BY <1>4 DEF Fills
  <2>2. Fills(q, d) /\ d # c /\ FillsAlone(q, d)
    BY <1>2, <2>1
  <2> QED BY <1>4, <1>5, <1>7, <1>9, <2>1, <2>2 DEF FillsAlone
<1>16. ASSUME NEW y \in Executors, NEW d \in Captures PROVE PromotesWhole(y, d)'
  <2>1. ~Promotes(y, d)'
    BY <1>10, <1>11 DEF Promotes
  <2> QED BY <2>1 DEF PromotesWhole
<1>17. ASSUME NEW y \in Executors PROVE HoldsLock(y)'
  <2>1. exec'[y].at # "idle" => y # x /\ exec'[y] = exec[y]
    BY <1>10
  <2>2. exec'[y].at # "idle" => exec[y].merged \in SUBSET Files
    BY <2>1, ExecFields DEF TypeInv
  <2> QED BY <1>6, <1>11, <2>1, <2>2 DEF HoldsLock
<1> QED BY <1>12, <1>13, <1>14, <1>15, <1>16, <1>17
\* Nothing but the time changes.
LEMMA OnlyTimePasses ==
    ASSUME EvidenceInv, TypeInv', UNCHANGED <<row, media, sent, logs, lock, phone, exec>>
    PROVE  EvidenceInv'
<1> USE DEF EvidenceInv
<1>1. \A d \in Captures : MediaOf(d)' = MediaOf(d) /\ (Used(d)' <=> Used(d))
  BY SameTables
<1>2. ReadyIsWhole' /\ EvidenceStays'
  BY <1>1 DEF ReadyIsWhole, EvidenceStays, Stored
<1>3. \A c \in Captures : WholeOrEmpty(c)'
  BY <1>1 DEF WholeOrEmpty
<1>4. \A p \in Phones, c \in Captures : (Fills(p, c)' <=> Fills(p, c)) /\ FillsAlone(p, c)'
  BY <1>1 DEF FillsAlone, Fills
<1>5. \A x \in Executors, c \in Captures : PromotesWhole(x, c)'
  BY <1>1, <1>4 DEF PromotesWhole, Promotes
<1>6. \A x \in Executors : HoldsLock(x)'
  BY DEF HoldsLock
<1> QED
  BY <1>2, <1>3, <1>4, <1>5, <1>6

LEMMA EvidenceNext == EvidenceInv /\ [Next]_vars => EvidenceInv'
<1> SUFFICES ASSUME EvidenceInv, [Next]_vars PROVE EvidenceInv'
  OBVIOUS
<1>0. TypeInv /\ TypeOK /\ TypeInv'
  BY PodTypeNext DEF EvidenceInv, TypeInv
<1>a. IdlePhone.at \notin Filling /\ IdleExec.at = "idle"
  BY DEF IdlePhone, IdleExec, Filling
<1>1. ASSUME NEW p \in Phones, NEW c \in Captures, Look(p, c), UNCHANGED sent
      PROVE  EvidenceInv'
  <2> DEFINE s == IF row[c] = NoBundle THEN [at |-> "new", capture |-> c]
                  ELSE [at |-> "found", capture |-> c, copy |-> row[c]]
  <2>1. s.at \notin Filling
    BY DEF Filling
  <2>2. phone' = [phone EXCEPT ![p] = s]
    BY <1>1 DEF Look
  <2>3. UNCHANGED <<row, media, sent, logs, lock, exec>>
    BY <1>1 DEF Look
  <2>4. [Draft EXCEPT !.status = "expired"] \in Bundles
        /\ [Draft EXCEPT !.status = "expired"].status = "expired"
    BY DEF Draft, Bundles
  <2> HIDE DEF s
  <2> QED
    BY <1>0, <2>1, <2>2, <2>3, <2>4, LetsGo
<1>2. ASSUME NEW p \in Phones, Hang(p), UNCHANGED <<row, media, sent, logs, lock, exec>>,
             NEW c \in Captures
      PROVE  EvidenceInv'
  <2>1. [Draft EXCEPT !.status = "expired"] \in Bundles
        /\ [Draft EXCEPT !.status = "expired"].status = "expired"
    BY DEF Draft, Bundles
  <2>2. phone' = [phone EXCEPT ![p] = IdlePhone]
    BY <1>2 DEF Hang
  <2> QED
    BY <1>0, <1>a, <1>2, <2>1, <2>2, LetsGo
<1>3. ASSUME NEW p \in Phones, Refused(p) \/ Replay(p) \/ Conflict(p) \/ Drop(p),
             UNCHANGED sent
      PROVE  EvidenceInv'
  <2>1. phone[p].capture \in Captures
    BY <1>0, <1>3, PhoneFields DEF Refused, Replay, Conflict, Drop
  <2> QED
    BY <1>2, <1>3, <2>1 DEF Refused, Replay, Conflict, Drop
<1>4. ASSUME NEW p \in Phones, MarkExpired(p), UNCHANGED sent PROVE EvidenceInv'
  <2> DEFINE b == [phone[p].copy EXCEPT !.status = "expired"]
  <2>1. phone[p].capture \in Captures /\ phone[p].copy \in Bundles
    BY <1>0, <1>4, PhoneFields DEF MarkExpired
  <2>2. b \in Bundles /\ b.status = "expired"
    BY <2>1 DEF Bundles
  <2>3. row' = row \/ row' = [row EXCEPT ![phone[p].capture] = b]
    BY <1>4 DEF MarkExpired
  <2>4. /\ phone' = [phone EXCEPT ![p] = IdlePhone]
        /\ UNCHANGED <<media, sent, logs, lock, exec>>
    BY <1>4 DEF MarkExpired, Hang
  <2> HIDE DEF b
  <2> QED
    BY <1>0, <1>a, <2>1, <2>2, <2>3, <2>4, LetsGo
<1>5. ASSUME NEW p \in Phones, Create(p), UNCHANGED sent PROVE EvidenceInv'
  <2>1. PICK c \in Captures : c = phone[p].capture
    BY <1>0, <1>5, PhoneFields DEF Create
  <2> DEFINE s == [at |-> "staged", capture |-> c, copy |-> Draft]
  <2>2. CASE row[c] # NoBundle
    BY <1>2, <1>5, <2>1, <2>2 DEF Create
  <2>3. CASE row[c] = NoBundle
    <3>1. s.at = "staged" /\ s.capture = c /\ s.copy = Draft
          /\ Draft = [Draft EXCEPT !.sealed = {}] /\ s.at \in Filling
      BY DraftIsBundle DEF Filling
    <3>2. phone' = [phone EXCEPT ![p] = s] /\ row' = [row EXCEPT ![c] = Draft]
      BY <1>5, <2>1, <2>3 DEF Create
    <3>3. UNCHANGED <<media, sent, logs, lock, exec>>
      BY <1>5 DEF Create
    <3>4. MediaOf(c) = {} /\ ~Used(c)
      BY <2>1, <2>3, <1>0, SentFiles DEF EvidenceInv, WholeOrEmpty
    <3>5. \A q \in Phones : ~Fills(q, c)
      BY <2>1, <2>3 DEF EvidenceInv, FillsAlone
    <3>6. \A x \in Executors : ~Promotes(x, c)
      BY <1>0, <2>3 DEF TypeInv, Promotes
    <3> HIDE DEF s
    <3>7. \A d \in Captures : MediaOf(d)' = MediaOf(d)
      BY <3>3, SameTables
    <3>8. MediaOf(c)' = IF s.at = "staged" THEN {} ELSE sent[c]
      BY <2>1, <3>1, <3>4, <3>7
    <3>9. s.copy = [Draft EXCEPT !.sealed = IF s.at = "sealed" THEN sent[c] ELSE {}]
      BY <3>1
    <3>10. row' = [row EXCEPT ![c] = s.copy]
      BY <3>1, <3>2
    <3> QED
      BY <1>0, <2>1, <3>1, <3>2, <3>3, <3>4, <3>5, <3>6, <3>7, <3>8, <3>9, <3>10, GoesOn
  <2> QED BY <2>2, <2>3
\* What a worker that fills a capture may count on.
<1>6. ASSUME NEW p \in Phones, phone[p].at \in Filling
      PROVE  \E c \in Captures :
                 /\ c = phone[p].capture
                 /\ Fills(p, c) /\ FillsAlone(p, c) /\ ~Used(c)
                 /\ \A q \in Phones \ {p} : ~Fills(q, c)
                 /\ \A x \in Executors : ~Promotes(x, c)
  <2>1. phone[p].capture \in Captures /\ Fills(p, phone[p].capture)
    BY <1>0, <1>6, PhoneFields DEF Filling, Fills
  <2> QED
    BY <2>1 DEF EvidenceInv, FillsAlone, PromotesWhole
<1>7. ASSUME NEW p \in Phones, Attach(p), UNCHANGED sent PROVE EvidenceInv'
  <2>0. phone[p].at = "staged" /\ phone[p].at \in Filling
    BY <1>7 DEF Attach, Filling
  <2>1. PICK c \in Captures :
            /\ c = phone[p].capture
            /\ Fills(p, c) /\ FillsAlone(p, c) /\ ~Used(c)
            /\ \A q \in Phones \ {p} : ~Fills(q, c)
            /\ \A x \in Executors : ~Promotes(x, c)
    BY <1>6, <2>0
  <2> DEFINE s == [phone[p] EXCEPT !.at = "attached"]
  <2>2. MediaOf(c) = {} /\ phone[p].copy = [Draft EXCEPT !.sealed = {}]
    BY <2>0, <2>1 DEF FillsAlone
  <2>3. s.at = "attached" /\ s.at \in Filling /\ s.capture = c /\ s.copy = phone[p].copy
    BY <1>0, <2>0, <2>1, PhoneFields DEF Filling
  <2>4. /\ phone' = [phone EXCEPT ![p] = s]
        /\ FilesAreFree(c)
        /\ media' = [f \in Files |-> IF f \in sent[c]
                         THEN [bundle |-> c, log |-> NoLog] ELSE media[f]]
        /\ UNCHANGED <<row, sent, logs, lock, exec>>
    BY <1>7, <2>1 DEF Attach
  <2> HIDE DEF s
  <2>5. \A f \in Files : /\ media[f].log # NoLog => media'[f] = media[f]
                         /\ media[f].bundle # NoBundle => media'[f].bundle # NoBundle
    BY <2>1, <2>4, NoneAssumption DEF FilesAreFree
  <2>6. MediaOf(c)' = sent[c]
    BY <1>0, <2>1, <2>2, <2>4, SentFiles DEF MediaOf
  <2>7. \A d \in Captures \ {c} : MediaOf(d)' = MediaOf(d)
    BY <2>1, <2>4, NoneAssumption DEF MediaOf, FilesAreFree
  <2>8. /\ MediaOf(c)' = IF s.at = "staged" THEN {} ELSE sent[c]
        /\ s.copy = [Draft EXCEPT !.sealed = IF s.at = "sealed" THEN sent[c] ELSE {}]
    BY <2>2, <2>3, <2>6
  <2>9. row[c] # NoBundle /\ row[c].status \in {"draft", "expired"}
    BY <2>1 DEF FillsAlone
  <2> QED
    BY <1>0, <2>1, <2>3, <2>4, <2>5, <2>7, <2>8, <2>9, GoesOn
<1>18. ASSUME NEW p \in Phones, Count(p), UNCHANGED sent PROVE EvidenceInv'
  <2>0. phone[p].at = "attached" /\ phone[p].at \in Filling
    BY <1>18 DEF Count, Filling
  <2>1. PICK c \in Captures :
            /\ c = phone[p].capture
            /\ Fills(p, c) /\ FillsAlone(p, c) /\ ~Used(c)
            /\ \A q \in Phones \ {p} : ~Fills(q, c)
            /\ \A x \in Executors : ~Promotes(x, c)
    BY <1>6, <2>0
  <2> DEFINE s == [phone[p] EXCEPT !.at = "counted"]
  <2>2. MediaOf(c) = sent[c] /\ phone[p].copy = [Draft EXCEPT !.sealed = {}]
    BY <2>0, <2>1 DEF FillsAlone
  <2>3. s.at = "counted" /\ s.at \in Filling /\ s.capture = c /\ s.copy = phone[p].copy
    BY <1>0, <2>0, <2>1, PhoneFields DEF Filling
  <2>4. /\ phone' = [phone EXCEPT ![p] = s] /\ row' = [row EXCEPT ![c] = phone[p].copy]
        /\ UNCHANGED <<media, sent, logs, lock, exec>>
    BY <1>18, <2>1 DEF Count
  <2> HIDE DEF s
  <2>5. \A d \in Captures : MediaOf(d)' = MediaOf(d)
    BY <2>4, SameTables
  <2>6. /\ MediaOf(c)' = IF s.at = "staged" THEN {} ELSE sent[c]
        /\ s.copy = [Draft EXCEPT !.sealed = IF s.at = "sealed" THEN sent[c] ELSE {}]
        /\ row' = [row EXCEPT ![c] = s.copy]
    BY <2>1, <2>2, <2>3, <2>4, <2>5
  <2> QED
    BY <1>0, <2>1, <2>3, <2>4, <2>5, <2>6, GoesOn
<1>8. ASSUME NEW p \in Phones, Seal(p), UNCHANGED sent PROVE EvidenceInv'
  <2>0. phone[p].at = "counted" /\ phone[p].at \in Filling
    BY <1>8 DEF Seal, Filling
  <2>1. PICK c \in Captures :
            /\ c = phone[p].capture
            /\ Fills(p, c) /\ FillsAlone(p, c) /\ ~Used(c)
            /\ \A q \in Phones \ {p} : ~Fills(q, c)
            /\ \A x \in Executors : ~Promotes(x, c)
    BY <1>6, <2>0
  <2> DEFINE sealed == [phone[p].copy EXCEPT !.sealed = MediaOf(c)]
             s == [phone[p] EXCEPT !.at = "sealed", !.copy = sealed]
  <2>2. MediaOf(c) = sent[c] /\ phone[p].copy = [Draft EXCEPT !.sealed = {}]
    BY <2>0, <2>1 DEF FillsAlone
  <2>3. s.at = "sealed" /\ s.at \in Filling /\ s.capture = c /\ s.copy = sealed
    BY <1>0, <2>0, <2>1, PhoneFields DEF Filling
  <2>4. sealed = [Draft EXCEPT !.sealed = sent[c]]
    BY <2>2 DEF Draft
  <2>5. /\ phone' = [phone EXCEPT ![p] = s] /\ row' = [row EXCEPT ![c] = sealed]
        /\ UNCHANGED <<media, sent, logs, lock, exec>>
    BY <1>8, <2>1 DEF Seal
  <2> HIDE DEF s, sealed
  <2>6. \A d \in Captures : MediaOf(d)' = MediaOf(d)
    BY <2>5, SameTables
  <2>7. /\ MediaOf(c)' = IF s.at = "staged" THEN {} ELSE sent[c]
        /\ s.copy = [Draft EXCEPT !.sealed = IF s.at = "sealed" THEN sent[c] ELSE {}]
        /\ row' = [row EXCEPT ![c] = s.copy]
    BY <2>1, <2>2, <2>3, <2>4, <2>5, <2>6
  <2> QED
    BY <1>0, <2>1, <2>3, <2>5, <2>6, <2>7, GoesOn
<1>9. ASSUME NEW p \in Phones, MarkReady(p), UNCHANGED sent PROVE EvidenceInv'
  <2>0. phone[p].at = "sealed" /\ phone[p].at \in Filling
    BY <1>9 DEF MarkReady, Filling
  <2>1. PICK c \in Captures :
            /\ c = phone[p].capture
            /\ Fills(p, c) /\ FillsAlone(p, c) /\ ~Used(c)
            /\ \A q \in Phones \ {p} : ~Fills(q, c)
    BY <1>6, <2>0
  <2> DEFINE b == [phone[p].copy EXCEPT !.status = IF c \in late THEN "expired" ELSE "ready"]
  <2>2. MediaOf(c) = sent[c] /\ phone[p].copy = [Draft EXCEPT !.sealed = sent[c]]
    BY <2>0, <2>1 DEF FillsAlone
  <2>3. sent[c] \in SUBSET Files
    BY <1>0, <2>1, SentFiles
  <2>4. b \in Bundles /\ b.sealed = sent[c] /\ b.status \in {"expired", "ready"}
    BY <2>2, <2>3 DEF Draft, Bundles
  <2>5. /\ phone' = [phone EXCEPT ![p] = IdlePhone] /\ row' = [row EXCEPT ![c] = b]
        /\ UNCHANGED <<media, sent, logs, lock, exec>>
    BY <1>9, <2>1 DEF MarkReady, Hang
  <2> HIDE DEF b
  <2> QED
    BY <1>0, <1>a, <2>1, <2>2, <2>4, <2>5, LetsGo
<1>10. ASSUME NEW x \in Executors, NEW k \in Keys, NEW c \in Captures, Prepare(x, k, c),
              UNCHANGED sent
       PROVE  EvidenceInv'
  <2> DEFINE m == UNION {MediaOf(d) : d \in Candidates}
             s == [at |-> "prepared", key |-> k, bundle |-> c, merged |-> m]
  <2>1. s.at = "prepared" /\ s.merged = m
    OBVIOUS
  <2>2. \A f \in m : media[f].bundle # NoBundle
    BY NoneAssumption DEF Candidates, Stored, MediaOf
  <2>3. exec' = [exec EXCEPT ![x] = s] /\ UNCHANGED <<row, media, sent, logs, lock, phone>>
    BY <1>10 DEF Prepare
  <2> HIDE DEF s, m
  <2> QED
    BY <1>0, <2>1, <2>2, <2>3, ExecuteGoesOn
<1>11. ASSUME NEW x \in Executors, Lock(x), UNCHANGED sent PROVE EvidenceInv'
  <2> DEFINE s == [exec[x] EXCEPT !.at = "locked"]
  <2>1. s.at = "locked" /\ s.merged = exec[x].merged /\ exec[x].at # "idle"
    BY <1>0, <1>11, ExecFields DEF Lock
  <2>2. \A f \in exec[x].merged : media[f].bundle # NoBundle
    BY <2>1 DEF EvidenceInv, HoldsLock
  <2>3. /\ exec' = [exec EXCEPT ![x] = s] /\ lock = Nobody /\ lock' = x
        /\ UNCHANGED <<row, media, sent, logs, phone>>
    BY <1>11 DEF Lock
  <2> HIDE DEF s
  <2> QED
    BY <1>0, <2>1, <2>2, <2>3, ExecuteGoesOn
\* The last look before the promotion finds a whole bundle that no log has used.
<1>12. ASSUME NEW x \in Executors, Resolve(x), UNCHANGED sent PROVE EvidenceInv'
  <2>1. PICK c \in Captures : c = exec[x].bundle
    BY <1>0, <1>12, ExecFields DEF Resolve
  <2> DEFINE s == [at |-> "resolved", key |-> exec[x].key, bundle |-> c,
                   merged |-> exec[x].merged, copy |-> row[c]]
  <2>2. /\ s.at = "resolved" /\ s.merged = exec[x].merged /\ s.bundle = c
        /\ s.key = exec[x].key /\ s.copy = row[c]
    OBVIOUS
  <2>3. lock = x /\ \A f \in exec[x].merged : media[f].bundle # NoBundle
    BY <1>12 DEF Resolve, EvidenceInv, HoldsLock
  <2>4. logs[exec[x].key] = NoLog /\ row[c].status = "ready" /\ row[c] # NoBundle
    BY <1>12, <1>0, <2>1 DEF Resolve, MayPromote, Promotable, TypeInv
  <2>5. row[c].sealed = sent[c] /\ MediaOf(c) = sent[c]
    BY <2>4 DEF EvidenceInv, ReadyIsWhole, Stored
  <2>6. ~Used(c) /\ \A p \in Phones : ~Fills(p, c)
    BY <2>4 DEF EvidenceInv, WholeOrEmpty, FillsAlone
  <2>7. exec' = [exec EXCEPT ![x] = s] /\ UNCHANGED <<row, media, sent, logs, lock, phone>>
    BY <1>12, <2>1 DEF Resolve
  <2> HIDE DEF s
  <2> QED
    BY <1>0, <2>2, <2>3, <2>4, <2>5, <2>6, <2>7, ExecuteGoesOn
<1>13. ASSUME NEW x \in Executors, Promote(x), UNCHANGED sent PROVE EvidenceInv'
  <2>1. PICK c \in Captures : c = exec[x].bundle
    BY <1>0, <1>13, ExecFields DEF Promote
  <2> DEFINE s == [exec[x] EXCEPT !.at = "promoted"]
  <2>2. /\ s.at = "promoted" /\ s.merged = exec[x].merged /\ s.bundle = c
        /\ s.key = exec[x].key /\ s.copy = exec[x].copy
    BY <1>0, <1>13, <2>1, ExecFields DEF Promote
  <2>3. lock = x /\ \A f \in exec[x].merged : media[f].bundle # NoBundle
    BY <1>13 DEF Promote, EvidenceInv, HoldsLock
  <2>4. PromotesWhole(x, c) /\ Promotes(x, c)
    BY <1>13, <2>1 DEF Promote, EvidenceInv, Promotes
  <2>5. exec' = [exec EXCEPT ![x] = s] /\ UNCHANGED <<row, media, sent, logs, lock, phone>>
    BY <1>13 DEF Promote
  <2> HIDE DEF s
  <2> QED
    BY <1>0, <2>2, <2>3, <2>4, <2>5, ExecuteGoesOn DEF PromotesWhole
<1>14. ASSUME NEW x \in Executors, Refuse(x) \/ Die(x), UNCHANGED sent PROVE EvidenceInv'
  <2>1. /\ exec' = [exec EXCEPT ![x] = IdleExec]
        /\ lock' = lock \/ (lock = x /\ lock' = Nobody)
        /\ UNCHANGED <<row, media, sent, logs, phone>>
    BY <1>14 DEF Refuse, Die, Rollback, Finish
  <2> QED
    BY <1>0, <1>a, <2>1, ExecuteGoesOn
<1>15. ASSUME NEW c \in Captures, TimePasses(c), UNCHANGED sent PROVE EvidenceInv'
  BY <1>0, <1>15, OnlyTimePasses DEF TimePasses
<1>16. ASSUME ExpireStale, UNCHANGED sent PROVE EvidenceInv'
  <2>1. \A d \in Captures : MediaOf(d)' = MediaOf(d) /\ (Used(d)' <=> Used(d))
    BY <1>16, SameTables DEF ExpireStale
  <2>2. UNCHANGED <<media, sent, logs, lock, phone, exec>>
    BY <1>16 DEF ExpireStale
  <2>3. \A c \in Captures :
            \/ row'[c] = row[c]
            \/ row[c] # NoBundle /\ row'[c] # NoBundle /\ row'[c].status = "expired"
    <3> SUFFICES ASSUME NEW c \in Captures, row'[c] # row[c]
                 PROVE  row[c] # NoBundle /\ row'[c] # NoBundle /\ row'[c].status = "expired"
      OBVIOUS
    <3>1. row[c] # NoBundle /\ row'[c] = [row[c] EXCEPT !.status = "expired"]
      BY <1>16 DEF ExpireStale, Stored
    <3>2. row[c] \in Bundles
      BY <1>0, <3>1 DEF TypeOK
    <3>3. row'[c] \in Bundles /\ row'[c].status = "expired"
      BY <3>1, <3>2 DEF Bundles
    <3> QED BY <3>1, <3>3, NoneAssumption
  <2>4. ReadyIsWhole' /\ EvidenceStays'
    BY <2>1, <2>2, <2>3 DEF EvidenceInv, ReadyIsWhole, EvidenceStays, Stored
  <2>5. \A c \in Captures : WholeOrEmpty(c)'
    BY <2>1, <2>2, <2>3 DEF EvidenceInv, WholeOrEmpty
  <2>6. \A p \in Phones, c \in Captures : (Fills(p, c)' <=> Fills(p, c)) /\ FillsAlone(p, c)'
    BY <2>1, <2>2, <2>3 DEF EvidenceInv, FillsAlone, Fills
  <2>7. \A x \in Executors, c \in Captures : PromotesWhole(x, c)'
    BY <2>1, <2>2, <2>6 DEF EvidenceInv, PromotesWhole, Promotes
  <2> QED
    BY <1>0, <2>2, <2>4, <2>5, <2>6, <2>7 DEF EvidenceInv, HoldsLock
<1>17. CASE UNCHANGED vars
  BY <1>0, <1>17, OnlyTimePasses DEF vars
<1> QED
  BY <1>0, <1>1, <1>3, <1>4, <1>5, <1>7, <1>8, <1>9, <1>10, <1>11, <1>12, <1>13, <1>14,
     <1>15, <1>16, <1>17, <1>18, CommitKeeps DEF Next, Capture, Execute

\* A bundle that an execute request may choose, and one that it has promoted,
\* has all the files of its capture under its seal: whichever workers die, and
\* whatever old copy a retry writes back.
THEOREM ReadyBundlesAreWhole == Spec => []ReadyIsWhole
<1>1. EvidenceInv => ReadyIsWhole
  BY DEF EvidenceInv
<1> QED
  BY <1>1, EvidenceInit, EvidenceNext, PTL DEF Spec

\* The files of a committed log stay its bundle's, marked with it and shown by
\* it: no capture takes them and no other promotion marks them.
THEOREM LogsKeepTheirEvidence == Spec => []EvidenceStays
<1>1. EvidenceInv => EvidenceStays
  BY DEF EvidenceInv
<1> QED
  BY <1>1, EvidenceInit, EvidenceNext, PTL DEF Spec
-----------------------------------------------------------------------------
(***************************************************************************)
(* The server implements DeliveryEvidence                                  *)
(***************************************************************************)

Stages == [c \in Captures |-> StageOf(c)]
Proofs == [k \in Keys |-> IF logs[k] = NoLog THEN NoLog ELSE logs[k].files]

LEMMA StagesInit == Init => Evidence!Init
<1> SUFFICES ASSUME Init PROVE Evidence!Init
  OBVIOUS
<1>1. \A c \in Captures : StageOf(c) = "absent"
  BY NoneAssumption DEF Init, StageOf, MediaOf, Used
<1> QED
  BY <1>1 DEF Init, Evidence!Init

\* A step is seen from outside only by what it adds: a row, files, or a log.
LEMMA NothingAdded ==
    ASSUME UNCHANGED <<media, logs, sent>>,
           \A c \in Captures : row'[c] = NoBundle <=> row[c] = NoBundle
    PROVE  UNCHANGED Evidence!evidence
<1>1. \A c \in Captures : StageOf(c)' = StageOf(c)
  BY SameTables DEF StageOf
<1> QED
  BY <1>1 DEF Evidence!evidence

LEMMA CreateOpens ==
    ASSUME EvidenceInv, NEW p \in Phones, Create(p), UNCHANGED sent
    PROVE  [Evidence!Next]_Evidence!evidence
<1> USE DEF EvidenceInv, TypeInv
<1>1. PICK c \in Captures : c = phone[p].capture
  BY PhoneFields DEF Create
<1>2. CASE row[c] # NoBundle
  BY <1>1, <1>2, NothingAdded DEF Create
<1>3. CASE row[c] = NoBundle
  <2>1. /\ row' = [row EXCEPT ![c] = Draft]
        /\ UNCHANGED <<media, logs>>
    BY <1>1, <1>3 DEF Create
  <2>2. \A d \in Captures : MediaOf(d)' = MediaOf(d) /\ (Used(d)' <=> Used(d))
    BY <2>1, SameTables
  <2>3. row'[c] # NoBundle /\ \A d \in Captures \ {c} : row'[d] = row[d]
    BY <2>1, DraftIsBundle, NoneAssumption DEF TypeOK
  <2>4. MediaOf(c) = {} /\ ~Used(c)
    BY <1>3, SentFiles DEF WholeOrEmpty
  <2>5. StageOf(c) = "absent" /\ StageOf(c)' = "open"
    BY <1>3, <2>2, <2>3, <2>4 DEF StageOf
  <2>6. \A d \in Captures \ {c} : StageOf(d)' = StageOf(d)
    BY <2>2, <2>3 DEF StageOf
  <2>7. Evidence!Open(c)
    BY <2>1, <2>5, <2>6 DEF Evidence!Open
  <2> QED BY <2>7 DEF Evidence!Next
<1> QED BY <1>2, <1>3

LEMMA AttachFills ==
    ASSUME EvidenceInv, NEW p \in Phones, Attach(p), UNCHANGED sent
    PROVE  [Evidence!Next]_Evidence!evidence
<1> USE DEF EvidenceInv, TypeInv
<1>1. PICK c \in Captures : c = phone[p].capture
  BY PhoneFields DEF Attach
<1>2. FillsAlone(p, c) /\ Fills(p, c) /\ phone[p].at = "staged"
  BY <1>1 DEF Attach, Fills, Filling
<1>3. row[c] # NoBundle /\ MediaOf(c) = {} /\ ~Used(c)
  BY <1>2 DEF FillsAlone
<1>4. /\ FilesAreFree(c)
      /\ media' = [f \in Files |-> IF f \in sent[c]
                       THEN [bundle |-> c, log |-> NoLog] ELSE media[f]]
      /\ UNCHANGED <<row, logs>>
  BY <1>1 DEF Attach
<1>5. \A d \in Captures : Used(d)' <=> Used(d)
  BY <1>4, SameTables
<1>6. MediaOf(c)' # {}
  BY <1>4, SentFiles DEF MediaOf
<1>7. \A d \in Captures \ {c} : MediaOf(d)' = MediaOf(d) /\ row'[d] = row[d]
  BY <1>4, NoneAssumption DEF MediaOf, FilesAreFree, TypeOK
<1>8. StageOf(c) = "open" /\ StageOf(c)' = "filled"
  BY <1>3, <1>5, <1>6 DEF StageOf
<1>9. \A d \in Captures \ {c} : StageOf(d)' = StageOf(d)
  BY <1>5, <1>7 DEF StageOf
<1>10. Evidence!Fill(c)
  BY <1>4, <1>8, <1>9 DEF Evidence!Fill
<1> QED BY <1>10 DEF Evidence!Next

\* The files that a log shows besides its bundle's were merged from captures
\* that had been filled.
LEMMA CommitUses ==
    ASSUME EvidenceInv, NEW x \in Executors, Commit(x), UNCHANGED sent
    PROVE  [Evidence!Next]_Evidence!evidence
<1> USE DEF EvidenceInv, TypeInv
<1>1. PICK c \in Captures, k \in Keys : c = exec[x].bundle /\ k = exec[x].key
  BY ExecFields DEF Commit
<1>2. /\ ~Used(c) /\ logs[k] = NoLog /\ MediaOf(c) = sent[c]
  BY <1>1 DEF Commit, PromotesWhole, Promotes
<1>3. PICK extra \in SUBSET exec[x].merged :
          logs' = [logs EXCEPT ![k] = [bundle |-> c, files |-> MediaOf(c) \cup extra]]
  BY <1>1 DEF Commit
<1>4. /\ media' = [f \in Files |->
             IF media[f].bundle = c THEN [media[f] EXCEPT !.log = k] ELSE media[f]]
      /\ row' = [row EXCEPT ![c] = [exec[x].copy EXCEPT !.status = "promoted", !.log = k]]
  BY <1>1 DEF Commit
<1>5. exec[x].merged \in SUBSET Files
  BY ExecFields DEF Commit
<1>6. [bundle |-> c, files |-> MediaOf(c) \cup extra] \in Log
  BY <1>5, MediaOfIsFiles DEF Log
<1>7. /\ logs'[k] = [bundle |-> c, files |-> sent[c] \cup extra] /\ logs'[k] # NoLog
      /\ \A j \in Keys \ {k} : logs'[j] = logs[j]
  BY <1>2, <1>3, <1>6, NoneAssumption DEF TypeOK
<1>8. \A d \in Captures : Used(d)' <=> (Used(d) \/ d = c)
  BY <1>2, <1>7 DEF Used
<1>9. \A f \in Files : media'[f].bundle = media[f].bundle
  BY <1>4 DEF TypeOK
<1>10. \A d \in Captures : MediaOf(d)' = MediaOf(d)
  BY <1>9 DEF MediaOf
<1>11. \A d \in Captures \ {c} : row'[d] = row[d]
  BY <1>4 DEF TypeOK
<1>12. StageOf(c) = "filled" /\ StageOf(c)' = "used"
  BY <1>2, <1>8, SentFiles DEF StageOf
<1>13. \A d \in Captures \ {c} : StageOf(d)' = StageOf(d)
  BY <1>8, <1>10, <1>11 DEF StageOf
<1>14. extra \in SUBSET UNION {sent[d] : d \in Evidence!Filled}
  <2> SUFFICES ASSUME NEW f \in extra
               PROVE  \E d \in Evidence!Filled : f \in sent[d]
    OBVIOUS
  <2>1. media[f].bundle # NoBundle /\ f \in Files
    BY <1>5 DEF Commit, HoldsLock
  <2>2. PICK d \in Captures : d = media[f].bundle
    BY <2>1 DEF TypeOK
  <2>3. f \in MediaOf(d)
    BY <2>1, <2>2 DEF MediaOf
  <2>4. f \in sent[d] /\ StageOf(d) \in {"filled", "used"}
    BY <2>3 DEF WholeOrEmpty, StageOf
  <2> QED BY <2>4 DEF Evidence!Filled
<1>15. Proofs' = [Proofs EXCEPT ![k] = sent[c] \cup extra]
  <2>1. (IF logs'[k] = NoLog THEN NoLog ELSE logs'[k].files) = sent[c] \cup extra
    BY <1>7
  <2> QED BY <1>7, <2>1 DEF Proofs
<1>16. Stages' = [Stages EXCEPT ![c] = "used"]
  BY <1>12, <1>13 DEF Stages
<1>17. Stages[c] = "filled" /\ Proofs[k] = NoLog
  BY <1>2, <1>12 DEF Stages, Proofs
<1>18. Evidence!Use(c, k)
  BY <1>14, <1>15, <1>16, <1>17 DEF Evidence!Use, Stages, Proofs
<1> QED BY <1>18 DEF Evidence!Next
LEMMA StagesNext ==
    EvidenceInv /\ [Next]_vars => [Evidence!Next]_Evidence!evidence
<1> SUFFICES ASSUME EvidenceInv, [Next]_vars PROVE [Evidence!Next]_Evidence!evidence
  OBVIOUS
<1>0. TypeInv /\ TypeOK
  BY DEF EvidenceInv, TypeInv
<1>1. ASSUME UNCHANGED <<row, media, logs, sent>> PROVE [Evidence!Next]_Evidence!evidence
  BY <1>1, NothingAdded
\* A row that is written over was there: only its content changes.
<1>2. ASSUME NEW c \in Captures, row[c] # NoBundle,
             NEW b \in Bundles, row' = [row EXCEPT ![c] = b], UNCHANGED <<media, logs, sent>>
      PROVE  [Evidence!Next]_Evidence!evidence
  BY <1>0, <1>2, NothingAdded, NoneAssumption DEF TypeOK
<1>3. ASSUME NEW p \in Phones, MarkExpired(p), UNCHANGED sent
      PROVE  [Evidence!Next]_Evidence!evidence
  <2>1. PICK c \in Captures : c = phone[p].capture
    BY <1>0, <1>3, PhoneFields DEF MarkExpired
  <2>2. [phone[p].copy EXCEPT !.status = "expired"] \in Bundles
    BY <1>0, <1>3, PhoneFields DEF MarkExpired, Bundles
  <2>3. row[c] # NoBundle
    BY <1>0, <1>3, <2>1 DEF MarkExpired, TypeInv
  <2> QED
    BY <1>1, <1>2, <1>3, <2>1, <2>2, <2>3 DEF MarkExpired
<1>4. ASSUME NEW p \in Phones, Count(p) \/ Seal(p) \/ MarkReady(p), UNCHANGED sent
      PROVE  [Evidence!Next]_Evidence!evidence
  <2>1. PICK c \in Captures : c = phone[p].capture
    BY <1>0, <1>4, PhoneFields DEF Count, Seal, MarkReady
  <2>2. phone[p].copy \in Bundles
    BY <1>0, <1>4, PhoneFields DEF Count, Seal, MarkReady
  <2>3. row[c] # NoBundle
    BY <1>4, <2>1 DEF Count, Seal, MarkReady, EvidenceInv, FillsAlone, Fills, Filling
  <2>4. CASE Seal(p)
    <3>1. [phone[p].copy EXCEPT !.sealed = MediaOf(c)] \in Bundles
      BY <2>2, MediaOfIsFiles DEF Bundles
    <3>2. /\ row' = [row EXCEPT ![c] = [phone[p].copy EXCEPT !.sealed = MediaOf(c)]]
          /\ UNCHANGED <<media, logs>>
      BY <2>1, <2>4 DEF Seal
    <3> QED BY <1>2, <1>4, <2>3, <3>1, <3>2
  <2>5. CASE MarkReady(p)
    <3> DEFINE b == [phone[p].copy EXCEPT
                         !.status = IF c \in late THEN "expired" ELSE "ready"]
    <3>1. b \in Bundles
      BY <2>2 DEF Bundles
    <3>2. row' = [row EXCEPT ![c] = b] /\ UNCHANGED <<media, logs>>
      BY <2>1, <2>5 DEF MarkReady
    <3> HIDE DEF b
    <3> QED BY <1>2, <1>4, <2>3, <3>1, <3>2
  <2>6. CASE Count(p)
    <3>1. row' = [row EXCEPT ![c] = phone[p].copy] /\ UNCHANGED <<media, logs>>
      BY <2>1, <2>6 DEF Count
    <3> QED BY <1>2, <1>4, <2>2, <2>3, <3>1
  <2> QED BY <1>4, <2>4, <2>5, <2>6
<1>5. ASSUME ExpireStale, UNCHANGED sent PROVE [Evidence!Next]_Evidence!evidence
  <2>1. \A c \in Captures : row'[c] = NoBundle <=> row[c] = NoBundle
    <3> SUFFICES ASSUME NEW c \in Captures, row'[c] # row[c]
                 PROVE  row[c] # NoBundle /\ row'[c] # NoBundle
      OBVIOUS
    <3>1. row[c] \in Bundles /\ row'[c] = [row[c] EXCEPT !.status = "expired"]
      BY <1>0, <1>5 DEF ExpireStale, Stored, TypeOK
    <3>2. row'[c] \in Bundles
      BY <3>1 DEF Bundles
    <3> QED BY <3>1, <3>2, NoneAssumption
  <2> QED BY <1>5, <2>1, NothingAdded DEF ExpireStale
<1>6. ASSUME NEW p \in Phones, UNCHANGED sent,
             \/ Refused(p) \/ Replay(p) \/ Conflict(p) \/ Drop(p)
             \/ \E c \in Captures : Look(p, c)
      PROVE  [Evidence!Next]_Evidence!evidence
  BY <1>1, <1>6 DEF Refused, Replay, Conflict, Drop, Look
<1>7. ASSUME NEW x \in Executors, UNCHANGED sent,
             \/ Lock(x) \/ Resolve(x) \/ Refuse(x) \/ Promote(x) \/ Die(x)
             \/ \E k \in Keys, c \in Captures : Prepare(x, k, c)
      PROVE  [Evidence!Next]_Evidence!evidence
  BY <1>1, <1>7 DEF Lock, Resolve, Refuse, Promote, Die, Rollback, Prepare
<1>8. ASSUME NEW c \in Captures, TimePasses(c), UNCHANGED sent
      PROVE  [Evidence!Next]_Evidence!evidence
  BY <1>1, <1>8 DEF TimePasses
<1>9. CASE UNCHANGED vars
  BY <1>1, <1>9 DEF vars
<1> QED
  BY <1>3, <1>4, <1>5, <1>6, <1>7, <1>8, <1>9, CreateOpens, AttachFills, CommitUses
     DEF Next, Capture, Execute

\* The server implements DeliveryEvidence: a capture is opened once, filled
\* once with all of its files, and used by at most one log, which shows its
\* files and else only files of captures that were filled by then.
THEOREM ImplementsEvidence == Spec => RefinesEvidence
<1> QED
  BY StagesInit, StagesNext, EvidenceInit, EvidenceNext, PTL
     DEF Spec, RefinesEvidence, Evidence!Spec
=============================================================================
