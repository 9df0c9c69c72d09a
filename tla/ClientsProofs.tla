---------------------------- MODULE ClientsProofs ----------------------------
(***************************************************************************)
(* Machine-checked proofs about the two boundaries that callers reach with *)
(* operations they repeat: the lease service and the Coordinator client.   *)
(* They hold for any workers, clients, identifiers, payloads and bounds.   *)
(*                                                                         *)
(* Answers are lost, delayed and given to others, so both arguments are    *)
(* about everything that somebody may still be told.  A lease that was     *)
(* ever told is good (IsGood): it is in force, it is over, or its holder   *)
(* ended it.  An answered request is borne out by the log (IsAnswered),    *)
(* and no revision that a write quotes comes from the future (PastOK).     *)
(***************************************************************************)
EXTENDS MCClients, TLAPS

(* The lease in force is the one that the last operation left; and an      *)
(* operation id in the journal is remembered.                              *)
JournalOK ==
  /\ lease = LeaseAfter(Len(journal))
  /\ \A i \in 1..Len(journal) : ~IsNew(journal[i].id)

(* A lease that a worker may be told of is good for the holder it names:   *)
(* it is in force still, or that holder ended it.                          *)
IsGood(l) ==
  l.owner # None /\ clock < l.expires =>
    \/ l.owner = lease.owner /\ l.fence = lease.fence /\ l.expires <= lease.expires
    \/ l.owner \in Workers /\ EndedItself(l.owner, l.fence)

ToldOK ==
  /\ \A w \in Workers : IsGood(known[w].lease)
  /\ \A i \in 1..Len(delayed) : IsGood(delayed[i].lease)
  /\ \A id \in OperationIds : IsGood(operations[id].response.lease)

LeaseInv == TypeOK /\ AppliedOnce /\ JournalOK /\ TermsEndByHolderOrClock /\ ToldOK

---------------------------------------------------------------------------
(* Times count up from zero, and the first lease is nobody's.              *)
LEMMA TimesAreNat == Times \subseteq Nat
BY BoundAssumption DEF Times

LEMMA FreeIs == Free \in Leases /\ Free.owner = None /\ Free.expires = 0
BY DEF Free, Leases

(* What a worker asks for is well formed, and a holder's request is its    *)
(* own.                                                                    *)
LEMMA CallsAre ==
  ASSUME TypeOK, NEW w \in Workers, NEW req \in CallsOf(w)
  PROVE  /\ req \in Requests /\ req.now \in Times
         /\ req.op \in {"acquire", "heartbeat", "release", "handoff", "recover_expired"}
         /\ req.op \in {"acquire", "heartbeat", "release", "handoff"} => req.owner = w
         /\ req.op \in {"handoff", "recover_expired"} => req.newOwner \in Workers
         /\ req.op # "release" => req.expires > 0
<1>0. PICK rev, old : rev = known[w].revision /\ old = known[w].lease
  OBVIOUS
<1>1. rev \in Nat /\ old.owner \in Workers \cup {None} /\ old.fence \in Nat /\ old.expires \in Nat
  BY <1>0 DEF TypeOK, Responses, Leases
<1>2. \A now \in Times : now \in Nat
  BY TimesAreNat
<1>3. \A t \in Terms : t \in Nat /\ t > 0
  BY TermsAssumption
<1>4. \/ \E now \in Times, t \in Terms : req = Request("acquire", rev, w, 0, None, now, now + t)
      \/ \E now \in Times, t \in Terms :
           req = Request("heartbeat", rev, w, old.fence, None, now, old.expires + t)
      \/ \E now \in Times : req = Request("release", rev, w, old.fence, None, now, 0)
      \/ \E v \in Workers, now \in Times, t \in Terms :
           req = Request("handoff", rev, w, old.fence, v, now, now + t)
      \/ \E now \in Times, t \in Terms :
           req = Request("recover_expired", rev, old.owner, old.fence, w, now, now + t)
  BY <1>0 DEF CallsOf
<1>5. ASSUME NEW now \in Times, NEW t \in Terms,
            req = Request("acquire", rev, w, 0, None, now, now + t)
     PROVE  /\ req \in Requests /\ req.op = "acquire" /\ req.owner = w /\ req.now = now
            /\ req.newOwner = None /\ req.expires = now + t /\ req.expires \in Nat
  <2>1. now \in Nat /\ now + t \in Nat
    BY <1>1, <1>2, <1>3
  <2>2. QED
    BY <2>1, <1>1, <1>5 DEF Request, Requests, Kinds
<1>6. ASSUME NEW now \in Times, NEW t \in Terms,
            req = Request("heartbeat", rev, w, old.fence, None, now, old.expires + t)
     PROVE  /\ req \in Requests /\ req.op = "heartbeat" /\ req.owner = w /\ req.now = now
            /\ req.newOwner = None /\ req.expires = old.expires + t /\ req.expires \in Nat
  <2>1. now \in Nat /\ old.expires + t \in Nat
    BY <1>1, <1>2, <1>3
  <2>2. QED
    BY <2>1, <1>1, <1>6 DEF Request, Requests, Kinds
<1>7. ASSUME NEW now \in Times,
            req = Request("release", rev, w, old.fence, None, now, 0)
     PROVE  /\ req \in Requests /\ req.op = "release" /\ req.owner = w /\ req.now = now
            /\ req.newOwner = None /\ req.expires = 0 /\ req.expires \in Nat
  <2>1. now \in Nat /\ 0 \in Nat
    BY <1>1, <1>2, <1>3
  <2>2. QED
    BY <2>1, <1>1, <1>7 DEF Request, Requests, Kinds
<1>8. ASSUME NEW v \in Workers, NEW now \in Times, NEW t \in Terms,
            req = Request("handoff", rev, w, old.fence, v, now, now + t)
     PROVE  /\ req \in Requests /\ req.op = "handoff" /\ req.owner = w /\ req.now = now
            /\ req.newOwner = v /\ req.expires = now + t /\ req.expires \in Nat
  <2>1. now \in Nat /\ now + t \in Nat
    BY <1>1, <1>2, <1>3
  <2>2. QED
    BY <2>1, <1>1, <1>8 DEF Request, Requests, Kinds
<1>9. ASSUME NEW now \in Times, NEW t \in Terms,
            req = Request("recover_expired", rev, old.owner, old.fence, w, now, now + t)
     PROVE  /\ req \in Requests /\ req.op = "recover_expired" /\ req.owner = old.owner /\ req.now = now
            /\ req.newOwner = w /\ req.expires = now + t /\ req.expires \in Nat
  <2>1. now \in Nat /\ now + t \in Nat
    BY <1>1, <1>2, <1>3
  <2>2. QED
    BY <2>1, <1>1, <1>9 DEF Request, Requests, Kinds
<1>10. \A now \in Times, t \in Terms : now + t > 0 /\ old.expires + t > 0
  BY <1>1, <1>2, <1>3
<1>11. QED
  BY <1>4, <1>5, <1>6, <1>7, <1>8, <1>9, <1>10
---------------------------------------------------------------------------
(* The new lease is a lease; what it is to the one before.                 *)
LEMMA AfterIs ==
  ASSUME TypeOK, NEW w \in Workers, NEW req \in CallsOf(w), Accepts(req)
  PROVE  /\ After(req) \in Leases
         /\ After(req).owner = None <=> After(req).expires = 0
         /\ req.op = "acquire" => lease.owner = None /\ After(req).fence = lease.fence + 1
         /\ req.op = "heartbeat" =>
              /\ After(req).owner = lease.owner /\ lease.owner = w
              /\ After(req).fence = lease.fence /\ req.fence = lease.fence
              /\ lease.expires <= After(req).expires
         /\ req.op = "release" =>
              /\ After(req).owner = None /\ lease.owner = w
              /\ After(req).fence = lease.fence /\ req.fence = lease.fence
         /\ req.op = "handoff" =>
              lease.owner = w /\ req.fence = lease.fence /\ After(req).fence = lease.fence + 1
         /\ req.op = "recover_expired" =>
              lease.expires <= req.now /\ After(req).fence = lease.fence + 1
<1>1. /\ lease \in Leases /\ lease.fence \in Nat /\ lease.expires \in Nat
      /\ (lease.owner = None <=> lease.expires = 0)
  BY DEF TypeOK, Leases
<1>2. /\ req.owner \in Workers \cup {None} /\ req.newOwner \in Workers \cup {None}
      /\ req.expires \in Nat /\ req.now \in Nat /\ req.fence \in Nat
  BY CallsAre DEF Requests
<1>3. CASE req.op = "acquire"
  <2>1. After(req) = [owner |-> w, fence |-> lease.fence + 1, expires |-> req.expires]
    BY <1>3, CallsAre DEF After, NewTerm
  <2>2. QED
    BY <2>1, <1>1, <1>2, <1>3, CallsAre, NoneAssumption DEF Accepts, Leases
<1>4. CASE req.op = "heartbeat"
  <2>1. After(req) = [lease EXCEPT !.expires = req.expires]
    BY <1>4 DEF After
  <2>2. lease.owner = w /\ req.fence = lease.fence /\ req.expires > lease.expires
    BY <1>4, CallsAre DEF Accepts, NamesTheLease
  <2>3. QED
    BY <2>1, <2>2, <1>1, <1>2, <1>4, NoneAssumption DEF Leases
<1>5. CASE req.op = "release"
  <2>1. After(req) = [lease EXCEPT !.owner = None, !.expires = 0]
    BY <1>5 DEF After
  <2>2. lease.owner = w /\ req.fence = lease.fence
    BY <1>5, CallsAre DEF Accepts, NamesTheLease
  <2>3. /\ After(req) = [owner |-> None, fence |-> lease.fence, expires |-> 0]
    BY <2>1, <1>1 DEF Leases
  <2>4. QED
    BY <2>3, <2>2, <1>1, <1>5 DEF Leases
<1>6. CASE req.op \in {"handoff", "recover_expired"}
  <2>1. After(req) = [owner |-> req.newOwner, fence |-> lease.fence + 1, expires |-> req.expires]
    BY <1>6 DEF After, NewTerm
  <2>2. req.newOwner \in Workers /\ req.expires > 0
    BY <1>6, CallsAre
  <2>3. After(req) \in Leases /\ (After(req).owner = None <=> After(req).expires = 0)
    BY <2>1, <2>2, <1>1, <1>2, NoneAssumption DEF Leases
  <2>4. req.op = "handoff" => lease.owner = w /\ req.fence = lease.fence
    BY CallsAre DEF Accepts, NamesTheLease
  <2>5. req.op = "recover_expired" => lease.expires <= req.now
    BY <1>1, <1>2 DEF Accepts, LeaseIsOver
  <2>6. QED
    BY <2>1, <2>3, <2>4, <2>5, <1>6, <1>1
<1>7. QED
  BY <1>3, <1>4, <1>5, <1>6, CallsAre
---------------------------------------------------------------------------
(* What one commit changes: e is the entry it writes, r what it answers.   *)
Entry(w, id, req) ==
  [id |-> id, op |-> req.op, by |-> w, quoted |-> req.fence, lease |-> After(req), at |-> req.now]

Changes(w, id, req, e, r) ==
  /\ e \in Entries /\ e = Entry(w, id, req) /\ journal' = Append(journal, e)
  /\ r \in Responses /\ r = [revision |-> revision + 1, lease |-> After(req)]
  /\ Accepts(req)
  /\ lease' = After(req) /\ lease' \in Leases /\ (lease'.owner = None <=> lease'.expires = 0)
  /\ clock' = req.now /\ clock' \in Times /\ clock <= clock'
  /\ revision' = revision + 1
  /\ operations' \in [OperationIds -> [request : Requests, response : Responses]]
  /\ \A o \in OperationIds :
       operations'[o] = IF o = id THEN [request |-> req, response |-> r] ELSE operations[o]
  /\ known' \in {known, [known EXCEPT ![w] = r]}
  /\ delayed' \in {delayed, Append(delayed, r)}
  /\ faults' \in 0..MaxFaults

LEMMA CommitIs ==
  ASSUME TypeOK, NEW w \in Workers, NEW id \in OperationIds, NEW req \in CallsOf(w), Commit(w, id, req)
  PROVE  \E e, r : Changes(w, id, req, e, r)
<1>1. PICK r : r = [revision |-> revision + 1, lease |-> After(req)]
  OBVIOUS
<1>2. PICK e : e = Entry(w, id, req)
  OBVIOUS
<1>3. /\ lease' = After(req) /\ revision' = revision + 1
      /\ operations' = [operations EXCEPT ![id] = [request |-> req, response |-> r]]
      /\ journal' = Append(journal, e)
      /\ clock' = req.now /\ Accepts(req)
  BY <1>1, <1>2 DEF Commit, Entry
<1>4. After(req) \in Leases /\ (After(req).owner = None <=> After(req).expires = 0)
  BY <1>3, AfterIs
<1>5. revision \in Nat /\ faults \in 0..MaxFaults /\ MaxFaults \in Nat
  BY BoundAssumption DEF TypeOK
<1>6. r \in Responses
  BY <1>1, <1>4, <1>5 DEF Responses
<1>7. req \in Requests /\ req.now \in Times /\ req.op \in Kinds /\ req.fence \in Nat
  BY CallsAre DEF Requests
<1>8. e \in Entries
  BY <1>2, <1>4, <1>7 DEF Entry, Entries
<1>9. /\ known' \in {known, [known EXCEPT ![w] = r]} /\ delayed' \in {delayed, Append(delayed, r)}
      /\ faults' = faults \/ (faults < MaxFaults /\ faults' = faults + 1)
  <2>1. \/ known' = [known EXCEPT ![w] = r] /\ UNCHANGED <<delayed, faults>>
        \/ faults < MaxFaults /\ faults' = faults + 1 /\ UNCHANGED <<delayed, known>>
        \/ faults < MaxFaults /\ faults' = faults + 1 /\ delayed' = Append(delayed, r) /\ UNCHANGED known
    BY <1>1 DEF Commit
  <2>2. QED
    BY <2>1
<1>10. faults' \in 0..MaxFaults
  BY <1>5, <1>9
<1>11. clock <= clock'
  BY <1>3 DEF Accepts
<1>12. operations \in [OperationIds -> [request : Requests, response : Responses]]
  BY DEF TypeOK
<1>13. /\ operations' \in [OperationIds -> [request : Requests, response : Responses]]
       /\ \A o \in OperationIds :
            operations'[o] = IF o = id THEN [request |-> req, response |-> r] ELSE operations[o]
  BY <1>3, <1>6, <1>7, <1>12
<1>14. QED
  BY <1>1, <1>2, <1>3, <1>4, <1>6, <1>7, <1>8, <1>9, <1>10, <1>11, <1>13 DEF Changes

(* The log after a commit: one entry more.                                 *)
LEMMA OneMore ==
  ASSUME TypeOK, NEW e \in Entries, journal' = Append(journal, e)
  PROVE  /\ journal' \in Seq(Entries) /\ Len(journal) \in Nat
         /\ Len(journal') = Len(journal) + 1
         /\ journal'[Len(journal')] = e
         /\ \A i \in 1..Len(journal) : journal'[i] = journal[i] /\ journal[i] \in Entries
BY DEF TypeOK

LEMMA CommitKeepsTypes ==
  ASSUME TypeOK, NEW w \in Workers, NEW id \in OperationIds, NEW req, NEW e, NEW r,
         Changes(w, id, req, e, r)
  PROVE  TypeOK'
<1>1. journal' \in Seq(Entries)
  BY OneMore DEF Changes
<1>2. known' \in [Workers -> Responses]
  <2>1. known \in [Workers -> Responses] /\ r \in Responses /\ known' \in {known, [known EXCEPT ![w] = r]}
    BY DEF Changes, TypeOK
  <2>2. QED
    BY <2>1
<1>3. delayed' \in Seq(Responses)
  <2>1. delayed \in Seq(Responses) /\ r \in Responses /\ delayed' \in {delayed, Append(delayed, r)}
    BY DEF Changes, TypeOK
  <2>2. QED
    BY <2>1
<1>4. revision' \in Nat
  BY DEF Changes, TypeOK
<1>5. QED
  BY <1>1, <1>2, <1>3, <1>4 DEF Changes, TypeOK

LEMMA CommitKeepsJournal ==
  ASSUME TypeOK, AppliedOnce, JournalOK,
         NEW w \in Workers, NEW id \in OperationIds, IsNew(id),
         NEW req \in CallsOf(w), NEW e, NEW r, Changes(w, id, req, e, r)
  PROVE  AppliedOnce' /\ JournalOK'
<1>1. /\ Len(journal) \in Nat /\ Len(journal') = Len(journal) + 1
      /\ journal'[Len(journal')] = e /\ e.id = id /\ e.lease = lease'
      /\ \A i \in 1..Len(journal) : journal'[i] = journal[i] /\ journal[i].id \in OperationIds
  BY OneMore DEF Changes, Entry, Entries
<1>2. revision \in Nat /\ revision' = 1 + Len(journal')
  BY <1>1 DEF Changes, TypeOK, AppliedOnce
<1>3. \A i \in 1..Len(journal) : journal[i].id # id
  BY DEF JournalOK
<1>4. \A i \in 1..Len(journal') : i = Len(journal') \/ i \in 1..Len(journal)
  BY <1>1
<1>5. AppliedOnce'
  BY <1>1, <1>2, <1>3, <1>4 DEF AppliedOnce
<1>6. ~IsNew(id)'
  <2>1. operations'[id].request = req /\ Unused.request.op = "none"
    BY DEF Changes, Unused, Request
  <2>2. req.op # "none"
    BY CallsAre
  <2>3. QED
    BY <2>1, <2>2 DEF IsNew
<1>7. \A o \in OperationIds \ {id} : IsNew(o)' = IsNew(o)
  BY DEF Changes, IsNew
<1>8. lease' = LeaseAfter(Len(journal))'
  BY <1>1 DEF LeaseAfter
<1>9. \A i \in 1..Len(journal') : ~IsNew(journal[i].id)'
  BY <1>1, <1>3, <1>4, <1>6, <1>7 DEF JournalOK
<1>10. QED
  BY <1>5, <1>8, <1>9 DEF JournalOK

(* How the term before a commit ends, if it ends.                          *)
LEMMA CommitKeepsTerms ==
  ASSUME TypeOK, JournalOK, TermsEndByHolderOrClock,
         NEW w \in Workers, NEW id \in OperationIds,
         NEW req \in CallsOf(w), NEW e, NEW r, Changes(w, id, req, e, r)
  PROVE  TermsEndByHolderOrClock'
<1> DEFINE n == Len(journal')
           Ends(b, x) ==
             /\ x.lease.fence = b.fence =>
                  /\ x.by = b.owner /\ x.quoted = b.fence
                  /\ x.lease.owner \in {b.owner, None}
             /\ x.lease.fence # b.fence =>
                  \/ b.owner = None
                  \/ x.by = b.owner
                  \/ b.expires <= x.at
<1>1. /\ Len(journal) \in Nat /\ n = Len(journal) + 1 /\ journal'[n] = e
      /\ \A i \in 1..Len(journal) : journal'[i] = journal[i]
  BY OneMore DEF Changes
<1>2. Ends(lease, e)
  <2>1. e.lease = After(req) /\ e.by = w /\ e.quoted = req.fence /\ e.at = req.now /\ Accepts(req)
    BY DEF Changes, Entry
  <2>2. lease.fence \in Nat
    BY DEF TypeOK, Leases
  <2>3. QED
    BY <2>1, <2>2, AfterIs, CallsAre
<1>3. (IF n - 1 = 0 THEN Free ELSE journal'[n - 1].lease) = lease
  <2>1. n - 1 = Len(journal)
    BY <1>1
  <2>2. LeaseAfter(Len(journal)) = lease
    BY DEF JournalOK
  <2>3. QED
    BY <1>1, <2>1, <2>2 DEF LeaseAfter
<1>4. \A i \in 1..Len(journal) :
        /\ journal'[i] = journal[i]
        /\ (IF i - 1 = 0 THEN Free ELSE journal'[i - 1].lease) = LeaseAfter(i - 1)
  BY <1>1 DEF LeaseAfter
<1>5. \A i \in 1..Len(journal) : Ends(LeaseAfter(i - 1), journal[i])
  BY DEF TermsEndByHolderOrClock
<1>6. \A i \in 1..n : Ends(IF i - 1 = 0 THEN Free ELSE journal'[i - 1].lease, journal'[i])
  <2>1. TAKE i \in 1..n
  <2>2. CASE i = n
    BY <2>2, <1>1, <1>2, <1>3
  <2>3. CASE i \in 1..Len(journal)
    BY <2>3, <1>4, <1>5
  <2>4. QED
    BY <2>2, <2>3, <1>1
<1>7. QED
  BY <1>6 DEF TermsEndByHolderOrClock, LeaseAfter

(* A lease that was good is so after a commit: it is extended, ended by    *)
(* its holder, or over by the time of the commit.                          *)
LEMMA CommitKeepsGood ==
  ASSUME TypeOK, NEW w \in Workers, NEW id \in OperationIds,
         NEW req \in CallsOf(w), NEW e, NEW r, Changes(w, id, req, e, r)
  PROVE  /\ \A l \in Leases : IsGood(l) => IsGood(l)'
         /\ IsGood(lease)'
<1>1. /\ Len(journal) \in Nat /\ Len(journal') = Len(journal) + 1 /\ journal'[Len(journal')] = e
      /\ \A i \in 1..Len(journal) : journal'[i] = journal[i]
  BY OneMore DEF Changes
<1>2. \A v, f : EndedItself(v, f) => EndedItself(v, f)'
  BY <1>1 DEF EndedItself
<1>3. req.op \in {"release", "handoff"} => EndedItself(w, req.fence)'
  <2>1. e.by = w /\ e.quoted = req.fence /\ e.op = req.op /\ Len(journal') \in 1..Len(journal')
    BY <1>1 DEF Changes, Entry
  <2>2. QED
    BY <2>1, <1>1 DEF EndedItself
<1>4. clock \in Nat /\ clock' \in Nat /\ clock <= clock' /\ clock' = req.now
  BY TimesAreNat DEF Changes, TypeOK
<1>5. lease \in Leases /\ lease' \in Leases /\ lease' = After(req) /\ Accepts(req)
  BY DEF Changes, TypeOK
<1>6. ASSUME NEW l \in Leases, IsGood(l), l.owner # None, clock' < l.expires
      PROVE  \/ l.owner = lease'.owner /\ l.fence = lease'.fence /\ l.expires <= lease'.expires
             \/ l.owner \in Workers /\ EndedItself(l.owner, l.fence)'
  <2>1. l.expires \in Nat /\ clock < l.expires
    BY <1>4, <1>6 DEF Leases
  <2>2. CASE l.owner \in Workers /\ EndedItself(l.owner, l.fence)
    BY <2>2, <1>2
  <2>3. CASE l.owner = lease.owner /\ l.fence = lease.fence /\ l.expires <= lease.expires
    <3>1. lease.expires \in Nat /\ lease'.expires \in Nat /\ req.now < lease.expires
      BY <2>1, <2>3, <1>4, <1>5, <1>6 DEF Leases
    <3>2. req.op \notin {"acquire", "recover_expired"}
      BY <3>1, <2>3, <1>4, <1>5, <1>6, AfterIs
    <3>3. CASE req.op = "heartbeat"
      BY <3>1, <3>3, <2>1, <2>3, <1>5, AfterIs
    <3>4. CASE req.op \in {"release", "handoff"}
      <4>1. lease.owner = w /\ req.fence = lease.fence
        BY <3>4, <1>5, AfterIs
      <4>2. QED
        BY <4>1, <3>4, <2>3, <1>3
    <3>5. QED
      BY <3>2, <3>3, <3>4, CallsAre
  <2>4. QED
    BY <2>1, <2>2, <2>3, <1>6 DEF IsGood
<1>7. lease'.expires <= lease'.expires
  BY <1>5 DEF Leases
<1>8. IsGood(lease)'
  BY <1>7 DEF IsGood
<1>9. QED
  BY <1>6, <1>8 DEF IsGood

LEMMA CommitKeepsTold ==
  ASSUME TypeOK, ToldOK, NEW w \in Workers, NEW id \in OperationIds,
         NEW req \in CallsOf(w), NEW e, NEW r, Changes(w, id, req, e, r)
  PROVE  ToldOK'
<1>1. /\ \A l \in Leases : IsGood(l) => IsGood(l)'
      /\ IsGood(lease)'
  BY CommitKeepsGood
<1>2. r.lease = lease'
  BY DEF Changes
<1>3. /\ known \in [Workers -> Responses] /\ delayed \in Seq(Responses)
      /\ operations \in [OperationIds -> [request : Requests, response : Responses]]
  BY DEF TypeOK
<1>4. \A x \in Responses : x.lease \in Leases
  BY DEF Responses
<1>5. \A v \in Workers : known'[v] \in {known[v], r}
  <2>1. known' \in {known, [known EXCEPT ![w] = r]}
    BY DEF Changes
  <2>2. QED
    BY <2>1, <1>3
<1>6. \A i \in 1..Len(delayed') : delayed'[i] = r \/ (i \in 1..Len(delayed) /\ delayed'[i] = delayed[i])
  <2>1. delayed' \in {delayed, Append(delayed, r)} /\ r \in Responses
    BY DEF Changes
  <2>2. QED
    BY <2>1, <1>3
<1>7. \A o \in OperationIds : operations'[o].response \in {operations[o].response, r}
  BY DEF Changes
<1>8. IsGood(r.lease)'
  BY <1>1, <1>2 DEF IsGood
<1>9. /\ \A v \in Workers : IsGood(known[v].lease)
      /\ \A i \in 1..Len(delayed) : IsGood(delayed[i].lease)
      /\ \A o \in OperationIds : IsGood(operations[o].response.lease)
  BY DEF ToldOK
<1>10. \A v \in Workers : known[v].lease \in Leases
  BY <1>3, <1>4
<1>11. \A i \in 1..Len(delayed) : delayed[i].lease \in Leases
  BY <1>3, <1>4
<1>12. \A o \in OperationIds : operations[o].response.lease \in Leases
  BY <1>3, <1>4
<1>13. QED
  BY <1>1, <1>2, <1>5, <1>6, <1>7, <1>8, <1>9, <1>10, <1>11, <1>12 DEF ToldOK
---------------------------------------------------------------------------
(* The steps that change nothing but what somebody was told.               *)
LEMMA TellingKeeps ==
  ASSUME LeaseInv, NEW w \in Workers, NEW r \in Responses, IsGood(r.lease),
         known' = [known EXCEPT ![w] = r],
         \/ delayed' = delayed
         \/ delayed # <<>> /\ delayed' = Tail(delayed),
         UNCHANGED <<revision, lease, clock, operations, journal, faults>>
  PROVE  LeaseInv'
<1>1. known \in [Workers -> Responses] /\ delayed \in Seq(Responses)
  BY DEF LeaseInv, TypeOK
<1>2. known' \in [Workers -> Responses] /\ \A v \in Workers : known'[v] \in {known[v], r}
  BY <1>1
<1>3. /\ delayed' \in Seq(Responses)
      /\ \A i \in 1..Len(delayed') : \E j \in 1..Len(delayed) : delayed'[i] = delayed[j]
  <2>1. CASE delayed' = delayed
    BY <2>1, <1>1
  <2>2. CASE delayed # <<>> /\ delayed' = Tail(delayed)
    <3>1. /\ delayed' \in Seq(Responses) /\ Len(delayed) \in Nat /\ Len(delayed') = Len(delayed) - 1
          /\ \A i \in 1..Len(delayed') : delayed'[i] = delayed[i + 1]
      BY <2>2, <1>1
    <3>2. \A i \in 1..Len(delayed') : i + 1 \in 1..Len(delayed)
      BY <3>1
    <3>3. QED
      BY <3>1, <3>2
  <2>3. QED
    BY <2>1, <2>2
<1>4. \A l : IsGood(l)' = IsGood(l)
  BY DEF IsGood, EndedItself
<1>5. TypeOK'
  BY <1>2, <1>3 DEF LeaseInv, TypeOK
<1>6. AppliedOnce' /\ JournalOK' /\ TermsEndByHolderOrClock'
  BY DEF LeaseInv, AppliedOnce, JournalOK, LeaseAfter, IsNew, TermsEndByHolderOrClock
<1>7. ToldOK'
  <2>1. \A v \in Workers : IsGood(known'[v].lease)
    BY <1>2 DEF LeaseInv, ToldOK
  <2>2. \A i \in 1..Len(delayed') : IsGood(delayed'[i].lease)
    BY <1>3 DEF LeaseInv, ToldOK
  <2>3. \A o \in OperationIds : IsGood(operations[o].response.lease)
    BY DEF LeaseInv, ToldOK
  <2>4. QED
    BY <2>1, <2>2, <2>3, <1>4 DEF ToldOK
<1>8. QED
  BY <1>5, <1>6, <1>7 DEF LeaseInv

LEMMA ReplayKeeps ==
  ASSUME LeaseInv, NEW w \in Workers, NEW id \in OperationIds, Replay(w, id)
  PROVE  LeaseInv'
<1>1. operations[id].response \in Responses /\ IsGood(operations[id].response.lease)
  BY DEF LeaseInv, TypeOK, ToldOK
<1>2. /\ known' = [known EXCEPT ![w] = operations[id].response]
      /\ UNCHANGED <<revision, lease, clock, operations, journal, delayed, faults>>
  BY DEF Replay
<1>3. QED
  BY <1>1, <1>2, TellingKeeps

LEMMA DeliverKeeps ==
  ASSUME LeaseInv, NEW w \in Workers, DeliverDelayed(w)
  PROVE  LeaseInv'
<1>1. /\ delayed # <<>> /\ known' = [known EXCEPT ![w] = Head(delayed)] /\ delayed' = Tail(delayed)
      /\ UNCHANGED <<revision, lease, clock, operations, journal, faults>>
  BY DEF DeliverDelayed
<1>2. delayed \in Seq(Responses)
  BY DEF LeaseInv, TypeOK
<1>3. Head(delayed) = delayed[1] /\ 1 \in 1..Len(delayed) /\ Head(delayed) \in Responses
  BY <1>1, <1>2
<1>4. IsGood(Head(delayed).lease)
  BY <1>3 DEF LeaseInv, ToldOK
<1>5. QED
  BY <1>1, <1>3, <1>4, TellingKeeps

LEMMA SnapshotKeeps ==
  ASSUME LeaseInv, NEW w \in Workers, ReadSnapshot(w)
  PROVE  LeaseInv'
<1>1. /\ revision \in Nat /\ lease \in Leases /\ known \in [Workers -> Responses]
      /\ known[w] \in Responses /\ IsGood(known[w].lease)
  BY DEF LeaseInv, TypeOK, ToldOK
<1>2. Snapshot \in Responses /\ Snapshot.lease = lease
  BY <1>1 DEF Snapshot, Responses
<1>3. IsGood(Snapshot.lease)
  BY <1>1, <1>2 DEF IsGood, Leases
<1>4. PICK r : r = [known[w] EXCEPT !.revision = revision]
  OBVIOUS
<1>5. r \in Responses /\ r.lease = known[w].lease
  BY <1>1, <1>4 DEF Responses
<1>6. /\ \/ known' = [known EXCEPT ![w] = Snapshot]
         \/ known' = [known EXCEPT ![w] = r]
      /\ UNCHANGED <<revision, lease, clock, operations, journal, delayed, faults>>
  BY <1>4 DEF ReadSnapshot
<1>7. IsGood(r.lease)
  BY <1>1, <1>5
<1>8. QED
  BY <1>2, <1>3, <1>5, <1>6, <1>7, TellingKeeps
---------------------------------------------------------------------------
LEMMA LeaseInitHolds == Init => LeaseInv
<1> SUFFICES ASSUME Init PROVE LeaseInv
  OBVIOUS
<1>1. /\ revision = 1 /\ lease = Free /\ clock = 0 /\ operations = [id \in OperationIds |-> Unused]
      /\ journal = <<>> /\ delayed = <<>> /\ faults = 0 /\ known = [w \in Workers |-> Snapshot]
  BY DEF Init
<1>2. Snapshot \in Responses /\ Snapshot.lease = Free
  BY <1>1, FreeIs DEF Snapshot, Responses
<1>3. Unused.request \in Requests /\ Unused.response \in Responses /\ Unused.response.lease = Free
  BY FreeIs DEF Unused, Request, Requests, Responses, Kinds
<1>4. Unused \in [request : Requests, response : Responses]
  BY <1>3 DEF Unused
<1>5. 0 \in Times /\ 0 \in 0..MaxFaults
  BY BoundAssumption DEF Times
<1>6. TypeOK
  BY <1>1, <1>2, <1>4, <1>5, FreeIs DEF TypeOK
<1>7. AppliedOnce /\ JournalOK /\ TermsEndByHolderOrClock
  BY <1>1 DEF AppliedOnce, JournalOK, LeaseAfter, TermsEndByHolderOrClock
<1>8. ToldOK
  BY <1>1, <1>2, <1>3, FreeIs DEF ToldOK, IsGood
<1>9. QED
  BY <1>6, <1>7, <1>8 DEF LeaseInv

LEMMA CommitKeeps ==
  ASSUME LeaseInv, NEW w \in Workers, NEW id \in OperationIds, NEW req \in CallsOf(w), Commit(w, id, req)
  PROVE  LeaseInv'
<1>1. TypeOK /\ AppliedOnce /\ JournalOK /\ TermsEndByHolderOrClock /\ ToldOK /\ IsNew(id)
  BY DEF LeaseInv, Commit
<1>2. PICK e, r : Changes(w, id, req, e, r)
  BY <1>1, CommitIs
<1>3. TypeOK'
  BY <1>1, <1>2, CommitKeepsTypes
<1>4. AppliedOnce' /\ JournalOK'
  BY <1>1, <1>2, CommitKeepsJournal
<1>5. TermsEndByHolderOrClock'
  BY <1>1, <1>2, CommitKeepsTerms
<1>6. ToldOK'
  BY <1>1, <1>2, CommitKeepsTold
<1>7. QED
  BY <1>3, <1>4, <1>5, <1>6 DEF LeaseInv

LEMMA LeaseStepHolds == LeaseInv /\ [Next]_vars => LeaseInv'
<1> SUFFICES ASSUME LeaseInv, [Next]_vars PROVE LeaseInv'
  OBVIOUS
<1>1. ASSUME NEW w \in Workers, Call(w) PROVE LeaseInv'
  BY <1>1, CommitKeeps DEF Call
<1>2. ASSUME NEW w \in Workers, NEW id \in OperationIds, Replay(w, id) PROVE LeaseInv'
  BY <1>2, ReplayKeeps
<1>3. ASSUME NEW w \in Workers, DeliverDelayed(w) PROVE LeaseInv'
  BY <1>3, DeliverKeeps
<1>4. ASSUME NEW w \in Workers, ReadSnapshot(w) PROVE LeaseInv'
  BY <1>4, SnapshotKeeps
<1>5. CASE UNCHANGED vars
  BY <1>5 DEF vars, LeaseInv, TypeOK, AppliedOnce, JournalOK, LeaseAfter, IsNew,
              TermsEndByHolderOrClock, ToldOK, IsGood, EndedItself
<1>6. QED
  BY <1>1, <1>2, <1>3, <1>4, <1>5 DEF Next

(* What a worker was told is one of the good leases.                       *)
LEMMA HoldersAreNotDisplaced == LeaseInv => HolderIsNotDisplaced
BY NoneAssumption DEF LeaseInv, ToldOK, IsGood, HolderIsNotDisplaced

(* The lease service: a term ends by its holder or by the clock, nobody    *)
(* whose last word is that it holds the lease was displaced, and repeated  *)
(* operations are applied once, for any workers, terms and bounds.         *)
THEOREM HoldersKeepTheirLeases == Spec => []HoldersKeepTheirTerms
<1>1. LeaseInv => HoldersKeepTheirTerms
  BY HoldersAreNotDisplaced DEF LeaseInv, HoldersKeepTheirTerms
<1>2. QED
  BY <1>1, LeaseInitHolds, LeaseStepHolds, PTL DEF Spec

---------------------------------------------------------------------------
(* The Coordinator client.                                                 *)

CallRecords == [request  : Coordinator!Requests \cup {Coordinator!Nothing}, attempt : 0..MaxAttempts,
                verdict  : Coordinator!Verdicts, response : Coordinator!Responses]

(* A request that was answered is answered so again, and a write of it is  *)
(* the event at the revision it was told; every event was answered for.    *)
IsAnswered(o) ==
  /\ o.response.count <= Len(events) /\ o.response.revision = o.response.count + 1
  /\ o.request.operation = "write_event" =>
       o.response.count \in 1..Len(events) /\ events[o.response.count] = o.request

LogOK ==
  /\ task = Len(events) + 1
  /\ \A o \in answers : IsAnswered(o)
  /\ \A o, p \in answers : o.request.id = p.request.id => o = p
  /\ \A i \in 1..Len(events) : \E o \in answers : o.request = events[i]
  /\ \A i, k \in 1..Len(events) : events[i].id = events[k].id => i = k

(* What a call says of the log, and that it is its client's.               *)
IsTold(call, log) ==
  /\ call.verdict = "success" =>
       /\ call.response.count <= Len(log)
       /\ call.response.revision = call.response.count + 1
       /\ call.request.operation = "write_event" =>
            call.response.count \in 1..Len(log) /\ log[call.response.count] = call.request
  /\ call.verdict = "failed" => \A i \in 1..Len(log) : log[i] # call.request

CallsOK ==
  \A c \in Clients :
    /\ calls[c].verdict # "none" => calls[c].request \in Coordinator!Requests /\ calls[c].request.client = c
    /\ IsTold(calls[c], events)

TaskInv == Coordinator!TypeOK /\ LogOK /\ CallsOK

Outcome(c, answer) ==
  /\ calls' \in [Clients -> CallRecords]
  /\ \A d \in Clients \ {c} : calls'[d] = calls[d]
  /\ calls'[c].request = calls[c].request
  /\ calls'[c].verdict # "none"
  /\ calls'[c].verdict = "success" => answer.code = "accepted" /\ calls'[c].response = answer.response
  /\ calls'[c].verdict = "failed" => answer.code \notin {"accepted", "ambiguous_outcome"}
  /\ learnt' \in [Clients -> SUBSET Nat]
  /\ doubt' \in [Clients -> Coordinator!Requests \cup {Coordinator!Nothing}]

LEMMA SetAttempt ==
  ASSUME NEW f \in [Clients -> CallRecords], NEW c \in Clients, NEW n \in 0..MaxAttempts
  PROVE  /\ [f EXCEPT ![c].attempt = n] \in [Clients -> CallRecords]
         /\ \A d \in Clients \ {c} : [f EXCEPT ![c].attempt = n][d] = f[d]
         /\ [f EXCEPT ![c].attempt = n][c].request = f[c].request
         /\ [f EXCEPT ![c].attempt = n][c].verdict = f[c].verdict
BY DEF CallRecords

LEMMA SetVerdict ==
  ASSUME NEW f \in [Clients -> CallRecords], NEW c \in Clients,
         NEW v \in Coordinator!Verdicts
  PROVE  /\ [f EXCEPT ![c].verdict = v] \in [Clients -> CallRecords]
         /\ \A d \in Clients \ {c} : [f EXCEPT ![c].verdict = v][d] = f[d]
         /\ [f EXCEPT ![c].verdict = v][c].request = f[c].request
         /\ [f EXCEPT ![c].verdict = v][c].verdict = v
BY DEF CallRecords

LEMMA SetResponse ==
  ASSUME NEW f \in [Clients -> CallRecords], NEW c \in Clients,
         NEW r \in Coordinator!Responses
  PROVE  /\ [f EXCEPT ![c].response = r] \in [Clients -> CallRecords]
         /\ \A d \in Clients \ {c} : [f EXCEPT ![c].response = r][d] = f[d]
         /\ [f EXCEPT ![c].response = r][c].request = f[c].request
         /\ [f EXCEPT ![c].response = r][c].verdict = f[c].verdict
         /\ [f EXCEPT ![c].response = r][c].response = r
BY DEF CallRecords

LEMMA HandleIs ==
  ASSUME Coordinator!TypeOK, NEW c \in Clients, Coordinator!Pending(c),
         calls[c].request \in Coordinator!Requests,
         NEW code, NEW r \in Coordinator!Responses,
         Coordinator!Handle(c, Coordinator!Answer(code, r))
  PROVE  Outcome(c, Coordinator!Answer(code, r))
<1> DEFINE call == calls[c]
           v    == Coordinator!Verdict(code)
<1>1. /\ calls \in [Clients -> CallRecords] /\ call.verdict = "pending" /\ call.attempt \in 0..MaxAttempts
      /\ learnt \in [Clients -> SUBSET Nat]
      /\ doubt \in [Clients -> Coordinator!Requests \cup {Coordinator!Nothing}]
      /\ MaxAttempts \in 1..3
  BY CallAssumption DEF Coordinator!TypeOK, CallRecords, Coordinator!Pending, Coordinator!BoundAssumption
<1>2. Coordinator!Answer(code, r).code = code /\ Coordinator!Answer(code, r).response = r /\ r.revision \in Nat
  BY DEF Coordinator!Answer, Coordinator!Responses
<1>3. CASE Coordinator!MayRepeat(call, code)
  <2>1. calls' = [calls EXCEPT ![c].attempt = call.attempt + 1] /\ UNCHANGED <<learnt, doubt>>
    BY <1>2, <1>3, <1>1 DEF Coordinator!Handle
  <2>2. call.attempt + 1 \in 0..MaxAttempts
    BY <1>1, <1>3 DEF Coordinator!MayRepeat
  <2>3. QED
    BY <1>1, <2>1, <2>2, SetAttempt DEF Outcome
<1>4. CASE ~Coordinator!MayRepeat(call, code)
  <2>1. /\ calls' = [calls EXCEPT ![c].verdict = v, ![c].response = r]
        /\ learnt' = IF v = "success" THEN [learnt EXCEPT ![c] = learnt[c] \cup {r.revision}] ELSE learnt
        /\ doubt' = IF v = "unknown" /\ call.request.operation = "write_event"
                    THEN [doubt EXCEPT ![c] = call.request] ELSE doubt
    BY <1>2, <1>4, <1>1 DEF Coordinator!Handle
  <2>2. v \in {"success", "unknown", "failed"} /\ (v = "success" => code = "accepted")
        /\ (v = "failed" => code \notin {"accepted", "ambiguous_outcome"})
    BY DEF Coordinator!Verdict
  <2>3. PICK g : g = [calls EXCEPT ![c].verdict = v]
    OBVIOUS
  <2>4. calls' = [g EXCEPT ![c].response = r]
    BY <2>1, <2>3
  <2>5. v \in Coordinator!Verdicts
    BY <2>2 DEF Coordinator!Verdicts
  <2>6. /\ g \in [Clients -> CallRecords] /\ \A d \in Clients \ {c} : g[d] = calls[d]
        /\ g[c].request = call.request /\ g[c].verdict = v
    BY <1>1, <2>3, <2>5, SetVerdict
  <2>7. /\ calls' \in [Clients -> CallRecords] /\ \A d \in Clients \ {c} : calls'[d] = g[d]
        /\ calls'[c].request = g[c].request /\ calls'[c].verdict = v /\ calls'[c].response = r
    BY <2>4, <2>6, SetResponse
  <2>8. learnt' \in [Clients -> SUBSET Nat]
    BY <1>1, <1>2, <2>1
  <2>9. doubt' \in [Clients -> Coordinator!Requests \cup {Coordinator!Nothing}]
    BY <1>1, <2>1
  <2>10. QED
    BY <1>2, <2>2, <2>6, <2>7, <2>8, <2>9 DEF Outcome
<1>5. QED
  BY <1>3, <1>4
---------------------------------------------------------------------------
(* The types of the log alone.                                             *)
LogType ==
  /\ task \in Nat /\ events \in Seq(Coordinator!Requests)
  /\ answers \subseteq [request : Coordinator!Requests, response : Coordinator!Responses]

LEMMA MoreEvents ==
  ASSUME LogType, NEW req \in Coordinator!Requests, events' = Append(events, req)
  PROVE  /\ events' \in Seq(Coordinator!Requests) /\ Len(events) \in Nat
         /\ Len(events') = Len(events) + 1 /\ events'[Len(events) + 1] = req
         /\ \A i \in 1..Len(events) : events'[i] = events[i]
BY DEF LogType

(* What was told of the log stays true of a longer one.                    *)
LEMMA ToldStays ==
  ASSUME LogType, NEW req \in Coordinator!Requests, events' = Append(events, req),
         NEW call \in CallRecords, IsTold(call, events), call.request # req
  PROVE  IsTold(call, events')
<1>1. call.response.count \in Nat
  BY DEF CallRecords, Coordinator!Responses
<1>2. QED
  BY <1>1, MoreEvents DEF IsTold

(* What the Coordinator does to its log: nothing, an answer to a read, or  *)
(* a commit.                                                               *)
LEMMA ReadKeepsLog ==
  ASSUME LogType, LogOK, NEW req \in Coordinator!Requests, ~Coordinator!IsKnown(req.id),
         req.operation = "read_revision",
         Coordinator!Remember(req, Coordinator!Current), UNCHANGED <<task, events>>
  PROVE  /\ LogType' /\ LogOK'
         /\ Coordinator!Current \in Coordinator!Responses
         /\ Coordinator!Current.count = Len(events) /\ Coordinator!Current.revision = Len(events) + 1
<1>1. PICK o : o = [request |-> req, response |-> Coordinator!Current]
  OBVIOUS
<1>2. Len(events) \in Nat /\ task = Len(events) + 1
  BY DEF LogType, LogOK
<1>3. /\ Coordinator!Current \in Coordinator!Responses
      /\ Coordinator!Current.count = Len(events) /\ Coordinator!Current.revision = Len(events) + 1
  BY <1>2 DEF Coordinator!Current, Coordinator!Responses
<1>4. answers' = answers \cup {o} /\ events' = events /\ task' = task
  BY <1>1 DEF Coordinator!Remember
<1>5. LogType'
  BY <1>1, <1>3, <1>4 DEF LogType
<1>6. IsAnswered(o)
  BY <1>1, <1>2, <1>3 DEF IsAnswered
<1>7. \A p \in answers : p.request.id # o.request.id
  BY <1>1 DEF Coordinator!IsKnown
<1>8. LogOK'
  BY <1>4, <1>6, <1>7 DEF LogOK, IsAnswered
<1>9. QED
  BY <1>3, <1>5, <1>8

LEMMA CommitKeepsLog ==
  ASSUME LogType, LogOK, NEW req \in Coordinator!Requests, ~Coordinator!IsKnown(req.id),
         Coordinator!Commit(req)
  PROVE  /\ LogType' /\ LogOK' /\ events' = Append(events, req)
         /\ Coordinator!Advanced \in Coordinator!Responses
         /\ Coordinator!Advanced.count = Len(events) + 1 /\ Coordinator!Advanced.revision = Len(events) + 2
<1>1. PICK o : o = [request |-> req, response |-> Coordinator!Advanced]
  OBVIOUS
<1>2. Len(events) \in Nat /\ task = Len(events) + 1 /\ task \in Nat
  BY DEF LogType, LogOK
<1>3. /\ Coordinator!Advanced \in Coordinator!Responses
      /\ Coordinator!Advanced.count = Len(events) + 1 /\ Coordinator!Advanced.revision = Len(events) + 2
  BY <1>2 DEF Coordinator!Advanced, Coordinator!Responses
<1>4. answers' = answers \cup {o} /\ events' = Append(events, req) /\ task' = task + 1
  BY <1>1 DEF Coordinator!Remember, Coordinator!Commit
<1>5. /\ events' \in Seq(Coordinator!Requests)
      /\ Len(events') = Len(events) + 1 /\ events'[Len(events) + 1] = req
      /\ \A i \in 1..Len(events) : events'[i] = events[i]
  BY <1>4, MoreEvents
<1>6. LogType'
  BY <1>1, <1>2, <1>3, <1>4, <1>5 DEF LogType
<1>7. IsAnswered(o)'
  BY <1>1, <1>2, <1>3, <1>5 DEF IsAnswered
<1>8. \A p \in answers : IsAnswered(p)'
  <2>1. \A p \in answers : IsAnswered(p) /\ p.response.count \in Nat
    BY DEF LogOK, LogType, Coordinator!Responses
  <2>2. QED
    BY <2>1, <1>2, <1>5 DEF IsAnswered
<1>9. \A p \in answers : p.request.id # o.request.id
  BY <1>1 DEF Coordinator!IsKnown
<1>10. \A i \in 1..Len(events') : \E p \in answers' : p.request = events'[i]
  <2>1. \A i \in 1..Len(events') : i = Len(events) + 1 \/ i \in 1..Len(events)
    BY <1>2, <1>5
  <2>2. o.request = req /\ o \in answers' /\ answers \subseteq answers'
    BY <1>1, <1>4
  <2>3. QED
    BY <2>1, <2>2, <1>5 DEF LogOK
<1>11. \A i, k \in 1..Len(events') : events'[i].id = events'[k].id => i = k
  <2>1. \A i \in 1..Len(events') : i = Len(events) + 1 \/ i \in 1..Len(events)
    BY <1>2, <1>5
  <2>2. \A i \in 1..Len(events) : events[i].id # req.id
    BY DEF LogOK, Coordinator!IsKnown
  <2>3. QED
    BY <2>1, <2>2, <1>5 DEF LogOK
<1>12. LogOK'
  BY <1>2, <1>4, <1>5, <1>7, <1>8, <1>9, <1>10, <1>11 DEF LogOK
<1>13. QED
  BY <1>3, <1>4, <1>6, <1>12

(* A request whose identifier is not known is in the log nowhere, nor is   *)
(* another request under the identifier of an answered one.                *)
LEMMA UnknownIsNotLogged ==
  ASSUME LogOK, NEW req, ~Coordinator!IsKnown(req.id)
  PROVE  \A i \in 1..Len(events) : events[i] # req
BY DEF LogOK, Coordinator!IsKnown

LEMMA OnlyTheAnsweredIsLogged ==
  ASSUME LogOK, NEW o \in answers, NEW req, o.request.id = req.id, o.request # req
  PROVE  \A i \in 1..Len(events) : events[i] # req
BY DEF LogOK
---------------------------------------------------------------------------
(* A call that is handled, whatever the Coordinator did with its request:  *)
(* what it is told has to be so.                                           *)
LEMMA HandledKeeps ==
  ASSUME TaskInv, NEW c \in Clients, Coordinator!Pending(c),
         NEW code, NEW r \in Coordinator!Responses, Coordinator!Handle(c, Coordinator!Answer(code, r)),
         LogType', LogOK', events' \in {events, Append(events, calls[c].request)},
         made' = made, lost' \in 0..MaxLost,
         code = "accepted" =>
           /\ r.count <= Len(events') /\ r.revision = r.count + 1
           /\ calls[c].request.operation = "write_event" =>
                r.count \in 1..Len(events') /\ events'[r.count] = calls[c].request,
         code \notin {"accepted", "ambiguous_outcome"} =>
           \A i \in 1..Len(events') : events'[i] # calls[c].request
  PROVE  TaskInv'
<1> DEFINE call == calls[c]
<1>1. call.request \in Coordinator!Requests /\ call.request.client = c
  BY DEF TaskInv, CallsOK, Coordinator!Pending
<1>2. Outcome(c, Coordinator!Answer(code, r))
  BY <1>1, HandleIs DEF TaskInv
<1>3. /\ calls' \in [Clients -> CallRecords] /\ \A d \in Clients \ {c} : calls'[d] = calls[d]
      /\ calls'[c].request = call.request
      /\ calls'[c].verdict = "success" => code = "accepted" /\ calls'[c].response = r
      /\ calls'[c].verdict = "failed" => code \notin {"accepted", "ambiguous_outcome"}
  BY <1>2 DEF Outcome, Coordinator!Answer
<1>4. Coordinator!TypeOK'
  BY <1>2 DEF TaskInv, Outcome, LogType, CallRecords, Coordinator!TypeOK
<1>5. IsTold(calls'[c], events')
  BY <1>3 DEF IsTold
<1>6. LogType /\ calls \in [Clients -> CallRecords]
  BY DEF TaskInv, LogType, CallRecords, Coordinator!TypeOK
<1>7. ASSUME NEW d \in Clients \ {c}
      PROVE  IsTold(calls'[d], events')
  <2>1. calls'[d] = calls[d] /\ IsTold(calls[d], events) /\ calls[d] \in CallRecords
    BY <1>3, <1>6 DEF TaskInv, CallsOK
  <2>2. CASE events' = events
    BY <2>1, <2>2
  <2>3. CASE calls[d].verdict = "none"
    BY <2>1, <2>3 DEF IsTold
  <2>4. CASE events' = Append(events, call.request) /\ calls[d].verdict # "none"
    <3>1. calls[d].request.client = d
      BY <2>4 DEF TaskInv, CallsOK
    <3>2. calls[d].request # call.request
      BY <3>1, <1>1
    <3>3. QED
      BY <3>2, <2>1, <2>4, <1>1, <1>6, ToldStays
  <2>5. QED
    BY <2>2, <2>3, <2>4
<1>8. CallsOK'
  BY <1>1, <1>3, <1>5, <1>7 DEF TaskInv, CallsOK
<1>9. QED
  BY <1>4, <1>8 DEF TaskInv

LEMMA PendingIs ==
  ASSUME TaskInv, NEW c \in Clients, Coordinator!Pending(c)
  PROVE  /\ calls[c].request \in Coordinator!Requests
         /\ LogType /\ LogOK /\ lost \in 0..MaxLost /\ MaxLost \in Nat
         /\ Coordinator!NoResponse \in Coordinator!Responses
<1>1. calls[c].request \in Coordinator!Requests
  BY DEF TaskInv, CallsOK, Coordinator!Pending
<1>2. Coordinator!NoResponse \in Coordinator!Responses
  BY DEF Coordinator!NoResponse, Coordinator!Responses
<1>3. QED
  BY <1>1, <1>2, CallAssumption DEF TaskInv, LogType, Coordinator!TypeOK, Coordinator!BoundAssumption

LEMMA BeginKeeps ==
  ASSUME TaskInv, NEW c \in Clients, NEW req \in Coordinator!Requests, Coordinator!Begin(c, req)
  PROVE  TaskInv'
<1>1. PICK call : call = [Coordinator!Idle EXCEPT !.request = req, !.attempt = 1, !.verdict = "pending"]
  OBVIOUS
<1>2. /\ calls' = [calls EXCEPT ![c] = call] /\ req.client = c /\ made < MaxCalls /\ made' = made + 1
      /\ UNCHANGED <<task, events, answers, learnt, doubt, lost>>
  BY <1>1 DEF Coordinator!Begin
<1>3. calls \in [Clients -> CallRecords] /\ made \in 0..MaxCalls /\ MaxCalls \in Nat /\ MaxAttempts \in 1..3
  BY CallAssumption DEF TaskInv, CallRecords, Coordinator!TypeOK, Coordinator!BoundAssumption
<1>4. call = [request |-> req, attempt |-> 1, verdict |-> "pending", response |-> Coordinator!NoResponse]
  BY <1>1 DEF Coordinator!Idle
<1>5. Coordinator!NoResponse \in Coordinator!Responses
  BY DEF Coordinator!NoResponse, Coordinator!Responses
<1>6. call \in CallRecords /\ call.request = req /\ call.verdict = "pending"
  BY <1>3, <1>4, <1>5 DEF CallRecords, Coordinator!Verdicts
<1>7. calls' \in [Clients -> CallRecords] /\ \A d \in Clients : calls'[d] = IF d = c THEN call ELSE calls[d]
  BY <1>2, <1>3, <1>6
<1>8. made' \in 0..MaxCalls
  BY <1>2, <1>3
<1>9. Coordinator!TypeOK'
  BY <1>2, <1>7, <1>8 DEF TaskInv, CallRecords, Coordinator!TypeOK
<1>10. LogOK'
  BY <1>2 DEF TaskInv, LogOK, IsAnswered
<1>11. CallsOK'
  BY <1>2, <1>6, <1>7 DEF TaskInv, CallsOK, IsTold
<1>12. QED
  BY <1>9, <1>10, <1>11 DEF TaskInv

LEMMA LogUnchanged ==
  ASSUME LogType, LogOK, UNCHANGED <<task, events, answers>>
  PROVE  LogType' /\ LogOK'
BY DEF LogType, LogOK, IsAnswered

LEMMA ReplayedKeeps ==
  ASSUME TaskInv, NEW c \in Clients, Coordinator!Replay(c)
  PROVE  TaskInv'
<1>1. Coordinator!Pending(c) /\ UNCHANGED <<task, events, answers, made, lost>>
  BY DEF Coordinator!Replay
<1>2. PICK o \in answers :
        /\ o.request.id = calls[c].request.id
        /\ Coordinator!Handle(c, IF o.request = calls[c].request THEN Coordinator!Answer("accepted", o.response)
                                 ELSE Coordinator!Rejected("changed_replay"))
  BY DEF Coordinator!Replay
<1>3. LogType' /\ LogOK'
  BY <1>1, PendingIs, LogUnchanged
<1>4. o.response \in Coordinator!Responses /\ IsAnswered(o)
  BY <1>1, PendingIs DEF LogType, LogOK
<1>5. CASE o.request = calls[c].request
  <2>1. Coordinator!Handle(c, Coordinator!Answer("accepted", o.response))
    BY <1>2, <1>5
  <2>2. /\ o.response.count <= Len(events') /\ o.response.revision = o.response.count + 1
        /\ calls[c].request.operation = "write_event" =>
             o.response.count \in 1..Len(events') /\ events'[o.response.count] = calls[c].request
    BY <1>1, <1>4, <1>5 DEF IsAnswered
  <2>3. QED
    BY <1>1, <1>3, <1>4, <2>1, <2>2, PendingIs, HandledKeeps
<1>6. CASE o.request # calls[c].request
  <2>1. Coordinator!Handle(c, Coordinator!Answer("changed_replay", Coordinator!NoResponse))
    BY <1>2, <1>6 DEF Coordinator!Rejected
  <2>2. \A i \in 1..Len(events') : events'[i] # calls[c].request
    BY <1>1, <1>2, <1>6, PendingIs, OnlyTheAnsweredIsLogged
  <2>3. QED
    BY <1>1, <1>3, <2>1, <2>2, PendingIs, HandledKeeps
<1>7. QED
  BY <1>5, <1>6

(* An answer that rules the request out, while it is unknown.              *)
LEMMA RejectedKeeps ==
  ASSUME TaskInv, NEW c \in Clients, Coordinator!IsNew(c), NEW code, code # "accepted",
         Coordinator!Handle(c, Coordinator!Rejected(code)),
         UNCHANGED <<task, events, answers, made>>, lost' \in 0..MaxLost
  PROVE  TaskInv'
<1>1. Coordinator!Pending(c) /\ ~Coordinator!IsKnown(calls[c].request.id)
  BY DEF Coordinator!IsNew
<1>2. Coordinator!Handle(c, Coordinator!Answer(code, Coordinator!NoResponse))
  BY DEF Coordinator!Rejected
<1>3. \A i \in 1..Len(events') : events'[i] # calls[c].request
  BY <1>1, PendingIs, UnknownIsNotLogged
<1>4. LogType' /\ LogOK'
  BY <1>1, PendingIs, LogUnchanged
<1>5. QED
  BY <1>1, <1>2, <1>3, <1>4, PendingIs, HandledKeeps

LEMMA RefuseKeeps ==
  ASSUME TaskInv, NEW c \in Clients, Coordinator!Refuse(c)
  PROVE  TaskInv'
<1>1. /\ Coordinator!IsNew(c) /\ Coordinator!Handle(c, Coordinator!Rejected("stale_revision"))
      /\ UNCHANGED <<task, events, answers, made, lost>> /\ Coordinator!Pending(c)
  BY DEF Coordinator!Refuse, Coordinator!IsNew
<1>2. lost' \in 0..MaxLost
  BY <1>1, PendingIs
<1>3. QED
  BY <1>1, <1>2, RejectedKeeps

LEMMA FaultKeeps ==
  ASSUME TaskInv, NEW c \in Clients, Coordinator!Fault(c)
  PROVE  TaskInv'
<1> DEFINE req == calls[c].request
<1>1. /\ Coordinator!IsNew(c) /\ lost < MaxLost /\ lost' = lost + 1 /\ made' = made
      /\ Coordinator!Pending(c) /\ ~Coordinator!IsKnown(req.id)
  BY DEF Coordinator!Fault, Coordinator!IsNew
<1>2. lost' \in 0..MaxLost
  BY <1>1, PendingIs
<1>3. ASSUME NEW code \in Coordinator!Retryable \cup {"malformed_response"},
             Coordinator!Handle(c, Coordinator!Rejected(code)), UNCHANGED <<task, events, answers>>
      PROVE  TaskInv'
  <2>1. code # "accepted"
    BY DEF Coordinator!Retryable
  <2>2. QED
    BY <1>1, <1>2, <1>3, <2>1, RejectedKeeps
<1>4. CASE /\ Coordinator!Handle(c, Coordinator!Rejected("ambiguous_outcome"))
           /\ UNCHANGED <<task, events, answers>>
  BY <1>1, <1>2, <1>4, RejectedKeeps
<1>5. CASE /\ Coordinator!Handle(c, Coordinator!Rejected("ambiguous_outcome"))
           /\ Coordinator!Commit(req)
  <2>1. Coordinator!Handle(c, Coordinator!Answer("ambiguous_outcome", Coordinator!NoResponse))
    BY <1>5 DEF Coordinator!Rejected
  <2>2. LogType' /\ LogOK' /\ events' = Append(events, req)
    BY <1>1, <1>5, PendingIs, CommitKeepsLog
  <2>3. QED
    BY <1>1, <1>2, <2>1, <2>2, PendingIs, HandledKeeps
<1>6. QED
  BY <1>3, <1>4, <1>5 DEF Coordinator!Fault

LEMMA ReadTaskKeeps ==
  ASSUME TaskInv, NEW c \in Clients, Coordinator!Read(c)
  PROVE  TaskInv'
<1> DEFINE req == calls[c].request
<1>1. /\ Coordinator!Pending(c) /\ ~Coordinator!IsKnown(req.id) /\ req.operation = "read_revision"
      /\ Coordinator!Remember(req, Coordinator!Current)
      /\ Coordinator!Handle(c, Coordinator!Answer("accepted", Coordinator!Current))
      /\ UNCHANGED <<task, events, made, lost>>
  BY DEF Coordinator!Read, Coordinator!IsNew
<1>2. /\ LogType' /\ LogOK' /\ Coordinator!Current \in Coordinator!Responses
      /\ Coordinator!Current.count = Len(events) /\ Coordinator!Current.revision = Len(events) + 1
      /\ Len(events) \in Nat
  BY <1>1, PendingIs, ReadKeepsLog DEF LogType
<1>3. QED
  BY <1>1, <1>2, PendingIs, HandledKeeps

LEMMA WriteKeeps ==
  ASSUME TaskInv, NEW c \in Clients, Coordinator!Write(c)
  PROVE  TaskInv'
<1> DEFINE req == calls[c].request
<1>1. /\ Coordinator!Pending(c) /\ ~Coordinator!IsKnown(req.id) /\ Coordinator!Commit(req)
      /\ Coordinator!Handle(c, Coordinator!Answer("accepted", Coordinator!Advanced))
      /\ UNCHANGED <<made, lost>>
  BY DEF Coordinator!Write, Coordinator!IsNew
<1>2. /\ LogType' /\ LogOK' /\ events' = Append(events, req) /\ Coordinator!Advanced \in Coordinator!Responses
      /\ Coordinator!Advanced.count = Len(events) + 1 /\ Coordinator!Advanced.revision = Len(events) + 2
  BY <1>1, PendingIs, CommitKeepsLog
<1>3. Len(events) \in Nat /\ Len(events') = Len(events) + 1 /\ events'[Len(events) + 1] = req
  BY <1>1, <1>2, PendingIs, MoreEvents
<1>4. QED
  BY <1>1, <1>2, <1>3, PendingIs, HandledKeeps
---------------------------------------------------------------------------
LEMMA TaskInitHolds == Coordinator!Init => TaskInv
<1> SUFFICES ASSUME Coordinator!Init PROVE TaskInv
  OBVIOUS
<1>1. /\ task = 1 /\ events = <<>> /\ answers = {} /\ calls = [c \in Clients |-> Coordinator!Idle]
      /\ learnt = [c \in Clients |-> {1}] /\ doubt = [c \in Clients |-> Coordinator!Nothing]
      /\ made = 0 /\ lost = 0
  BY DEF Coordinator!Init
<1>2. Coordinator!Idle \in CallRecords /\ Coordinator!Idle.verdict = "none"
  BY CallAssumption DEF Coordinator!Idle, CallRecords, Coordinator!Verdicts, Coordinator!NoResponse,
     Coordinator!Responses, Coordinator!BoundAssumption
<1>3. Coordinator!TypeOK
  BY <1>1, <1>2, CallAssumption DEF Coordinator!TypeOK, CallRecords, Coordinator!BoundAssumption
<1>4. LogOK
  BY <1>1 DEF LogOK
<1>5. CallsOK
  BY <1>1, <1>2 DEF CallsOK, IsTold
<1>6. QED
  BY <1>3, <1>4, <1>5 DEF TaskInv

LEMMA TaskStepHolds == TaskInv /\ [Coordinator!Next]_(Coordinator!vars) => TaskInv'
<1> SUFFICES ASSUME TaskInv, [Coordinator!Next]_(Coordinator!vars) PROVE TaskInv'
  OBVIOUS
<1>1. CASE UNCHANGED Coordinator!vars
  BY <1>1 DEF Coordinator!vars, TaskInv, Coordinator!TypeOK, LogOK, IsAnswered, CallsOK, IsTold
<1>2. ASSUME NEW c \in Clients,
             \/ \E req \in Coordinator!Requests : Coordinator!Begin(c, req)
             \/ Coordinator!Replay(c) \/ Coordinator!Fault(c) \/ Coordinator!Refuse(c)
             \/ Coordinator!Read(c) \/ Coordinator!Write(c)
      PROVE  TaskInv'
  BY <1>2, BeginKeeps, ReplayedKeeps, FaultKeeps, RefuseKeeps, ReadTaskKeeps, WriteKeeps
<1>3. QED
  BY <1>1, <1>2 DEF Coordinator!Next

LEMMA TaskInvSuffices == TaskInv => ClientsAreToldTheTruth
<1> SUFFICES ASSUME TaskInv PROVE ClientsAreToldTheTruth
  OBVIOUS
<1>1. DOMAIN events = 1..Len(events)
  BY DEF TaskInv, Coordinator!TypeOK
<1>2. Coordinator!AppliedOnce
  BY <1>1 DEF TaskInv, LogOK, Coordinator!AppliedOnce
<1>3. Coordinator!VerdictsAreTrue
  BY <1>1 DEF TaskInv, CallsOK, IsTold, Coordinator!VerdictsAreTrue, Coordinator!IsLogged
<1>4. QED
  BY <1>2, <1>3 DEF TaskInv, ClientsAreToldTheTruth

---------------------------------------------------------------------------
(* No revision comes from the future: not one that a client was told, nor  *)
(* one that a write quotes, under way or in the log.                       *)
PastOK ==
  /\ \A i \in 1..Len(events) : events[i].expected <= i
  /\ \A c \in Clients : \A rev \in learnt[c] : rev <= task
  /\ \A c \in Clients :
       calls[c].verdict = "pending" /\ calls[c].request.operation = "write_event" =>
         calls[c].request.expected <= task

(* One exchange, as far as revisions go.                                   *)
Exchange(c, code, r) ==
  /\ Coordinator!Pending(c) /\ r \in Coordinator!Responses
  /\ Coordinator!Handle(c, Coordinator!Answer(code, r))
  /\ \/ events' = events /\ task' = task
     \/ /\ events' = Append(events, calls[c].request) /\ task' = task + 1
        /\ calls[c].request.operation = "write_event"
  /\ code = "accepted" => r.revision <= task'

LEMMA ExchangeKeepsPast ==
  ASSUME TaskInv, PastOK, NEW c \in Clients, NEW code, NEW r, Exchange(c, code, r)
  PROVE  PastOK'
<1> DEFINE call == calls[c]
<1>1. /\ call.request \in Coordinator!Requests /\ LogType /\ LogOK /\ task \in Nat
      /\ task = Len(events) + 1
  BY PendingIs DEF Exchange, LogType, LogOK
<1>2. Outcome(c, Coordinator!Answer(code, r))
  BY <1>1, HandleIs DEF TaskInv, Exchange
<1>3. /\ calls' \in [Clients -> CallRecords] /\ \A d \in Clients \ {c} : calls'[d] = calls[d]
      /\ calls'[c].request = call.request /\ call.verdict = "pending"
  BY <1>2 DEF Outcome, Exchange, Coordinator!Pending
<1>4. task' \in Nat /\ task <= task'
  BY <1>1 DEF Exchange
<1>5. \A d \in Clients : learnt'[d] = learnt[d] \/ (code = "accepted" /\ learnt'[d] = learnt[d] \cup {r.revision})
  <2>1. learnt \in [Clients -> SUBSET Nat]
    BY DEF TaskInv, Coordinator!TypeOK
  <2>2. Coordinator!Answer(code, r).code = code /\ Coordinator!Answer(code, r).response = r
    BY DEF Coordinator!Answer
  <2>3. \/ learnt' = learnt
        \/ /\ Coordinator!Verdict(code) = "success"
           /\ learnt' = [learnt EXCEPT ![c] = learnt[c] \cup {r.revision}]
    BY <2>2 DEF Exchange, Coordinator!Handle
  <2>4. Coordinator!Verdict(code) = "success" => code = "accepted"
    BY DEF Coordinator!Verdict
  <2>5. QED
    BY <2>1, <2>3, <2>4
<1>6. \A d \in Clients : \A rev \in learnt'[d] : rev <= task'
  <2>1. \A d \in Clients : \A rev \in learnt[d] : rev \in Nat /\ rev <= task
    BY DEF TaskInv, Coordinator!TypeOK, PastOK
  <2>2. QED
    BY <1>1, <1>4, <1>5, <2>1 DEF Exchange
<1>7. \A d \in Clients : calls'[d].verdict = "pending" /\ calls'[d].request.operation = "write_event" =>
        calls'[d].request.expected <= task'
  <2>1. \A d \in Clients : calls[d].verdict = "pending" => calls[d].request.expected \in Nat
    BY DEF TaskInv, CallsOK, Coordinator!Requests, Coordinator!Revisions
  <2>2. QED
    BY <1>1, <1>3, <1>4, <2>1 DEF PastOK
<1>8. \A i \in 1..Len(events') : events'[i].expected <= i
  <2>1. CASE events' = events
    BY <2>1 DEF PastOK
  <2>2. CASE events' = Append(events, call.request) /\ call.request.operation = "write_event"
    <3>1. /\ Len(events) \in Nat /\ Len(events') = Len(events) + 1
          /\ events'[Len(events) + 1] = call.request
          /\ \A i \in 1..Len(events) : events'[i] = events[i]
      BY <1>1, <2>2, MoreEvents
    <3>2. call.request.expected <= Len(events) + 1
      BY <1>1, <1>3, <2>2 DEF PastOK
    <3>3. QED
      BY <3>1, <3>2 DEF PastOK
  <2>3. QED
    BY <2>1, <2>2 DEF Exchange
<1>9. QED
  BY <1>6, <1>7, <1>8 DEF PastOK

LEMMA StepKeepsPast ==
  ASSUME TaskInv, PastOK, [Coordinator!Next]_(Coordinator!vars)
  PROVE  PastOK'
<1>1. CASE UNCHANGED Coordinator!vars
  BY <1>1 DEF Coordinator!vars, PastOK
<1>2. ASSUME NEW c \in Clients, NEW req \in Coordinator!Requests, Coordinator!Begin(c, req)
      PROVE  PastOK'
  <2>1. /\ UNCHANGED <<task, events, learnt>> /\ calls \in [Clients -> CallRecords]
        /\ req.operation = "write_event" => req.expected \in learnt[c]
    BY <1>2 DEF Coordinator!Begin, TaskInv, Coordinator!TypeOK, CallRecords
  <2>2. PICK call : call = [Coordinator!Idle EXCEPT !.request = req, !.attempt = 1, !.verdict = "pending"]
    OBVIOUS
  <2>3. calls' = [calls EXCEPT ![c] = call] /\ call.request = req
    BY <1>2, <2>2 DEF Coordinator!Begin, Coordinator!Idle
  <2>4. \A d \in Clients : calls'[d] = IF d = c THEN call ELSE calls[d]
    BY <2>1, <2>3
  <2>5. QED
    BY <2>1, <2>3, <2>4 DEF PastOK
<1>3. ASSUME NEW c \in Clients, Coordinator!Replay(c) PROVE PastOK'
  <2>1. PICK o \in answers :
          Coordinator!Handle(c, IF o.request = calls[c].request THEN Coordinator!Answer("accepted", o.response)
                                ELSE Coordinator!Rejected("changed_replay"))
    BY <1>3 DEF Coordinator!Replay
  <2>2. Coordinator!Pending(c) /\ UNCHANGED <<task, events>>
    BY <1>3 DEF Coordinator!Replay
  <2>3. o.response \in Coordinator!Responses /\ o.response.revision <= task
    <3>1. o.response \in Coordinator!Responses /\ IsAnswered(o) /\ task = Len(events) + 1 /\ Len(events) \in Nat
      BY <2>2, PendingIs DEF LogType, LogOK
    <3>2. QED
      BY <3>1 DEF IsAnswered, Coordinator!Responses
  <2>4. \/ Exchange(c, "accepted", o.response)
        \/ Exchange(c, "changed_replay", Coordinator!NoResponse)
    BY <2>1, <2>2, <2>3, PendingIs DEF Exchange, Coordinator!Rejected
  <2>5. QED
    BY <2>4, ExchangeKeepsPast
<1>4. ASSUME NEW c \in Clients, Coordinator!Fault(c) PROVE PastOK'
  <2>1. Coordinator!Pending(c) /\ Coordinator!NoResponse \in Coordinator!Responses
    BY <1>4, PendingIs DEF Coordinator!Fault, Coordinator!IsNew
  <2>2. \E code \in Coordinator!Retryable \cup {"malformed_response", "ambiguous_outcome"} :
          Exchange(c, code, Coordinator!NoResponse)
    BY <1>4, <2>1 DEF Coordinator!Fault, Coordinator!Rejected, Coordinator!Commit, Coordinator!Retryable, Exchange
  <2>3. QED
    BY <2>2, ExchangeKeepsPast
<1>5. ASSUME NEW c \in Clients, Coordinator!Refuse(c) PROVE PastOK'
  <2>1. Coordinator!Pending(c) /\ Coordinator!NoResponse \in Coordinator!Responses
    BY <1>5, PendingIs DEF Coordinator!Refuse, Coordinator!IsNew
  <2>2. Exchange(c, "stale_revision", Coordinator!NoResponse)
    BY <1>5, <2>1 DEF Coordinator!Refuse, Coordinator!Rejected, Exchange
  <2>3. QED
    BY <2>2, ExchangeKeepsPast
<1>6. ASSUME NEW c \in Clients, Coordinator!Read(c) PROVE PastOK'
  <2>1. Coordinator!Pending(c) /\ LogType /\ task \in Nat /\ Len(events) \in Nat
    BY <1>6, PendingIs DEF Coordinator!Read, Coordinator!IsNew, LogType
  <2>2. Coordinator!Current \in Coordinator!Responses /\ Coordinator!Current.revision = task
    BY <2>1 DEF Coordinator!Current, Coordinator!Responses
  <2>3. Exchange(c, "accepted", Coordinator!Current)
    BY <1>6, <2>1, <2>2 DEF Coordinator!Read, Exchange
  <2>4. QED
    BY <2>3, ExchangeKeepsPast
<1>7. ASSUME NEW c \in Clients, Coordinator!Write(c) PROVE PastOK'
  <2>1. Coordinator!Pending(c) /\ LogType /\ task \in Nat /\ Len(events) \in Nat
    BY <1>7, PendingIs DEF Coordinator!Write, Coordinator!IsNew, LogType
  <2>2. Coordinator!Advanced \in Coordinator!Responses /\ Coordinator!Advanced.revision = task + 1
    BY <2>1 DEF Coordinator!Advanced, Coordinator!Responses
  <2>3. Exchange(c, "accepted", Coordinator!Advanced)
    BY <1>7, <2>1, <2>2 DEF Coordinator!Write, Coordinator!Commit, Exchange
  <2>4. QED
    BY <2>3, ExchangeKeepsPast
<1>8. QED
  BY <1>1, <1>2, <1>3, <1>4, <1>5, <1>6, <1>7 DEF Coordinator!Next

(* The client that reads is told the revision of the task as it is, and a  *)
(* write that is in the log quoted an earlier one.                         *)
LEMMA ReadingSettles ==
  ASSUME TaskInv, PastOK, [Coordinator!Next]_(Coordinator!vars), NEW c \in Clients,
         Coordinator!IsNew(c), calls'[c].verdict = "success", calls[c].request.operation = "read_revision",
         calls'[c].response.revision = doubt[c].expected
  PROVE  ~Coordinator!IsLogged(doubt[c])
<1>1. /\ Coordinator!Pending(c) /\ ~Coordinator!IsKnown(calls[c].request.id) /\ calls[c].verdict = "pending"
      /\ LogType /\ LogOK /\ task = Len(events) + 1 /\ Len(events) \in Nat
      /\ DOMAIN events = 1..Len(events) /\ calls[c].request \in Coordinator!Requests
      /\ Coordinator!NoResponse \in Coordinator!Responses
  BY PendingIs DEF Coordinator!IsNew, Coordinator!Pending, LogType, LogOK
<1>2. calls'[c].verdict # calls[c].verdict
  BY <1>1
<1>3. \E d \in Clients :
        \/ \E req \in Coordinator!Requests : Coordinator!Begin(d, req)
        \/ Coordinator!Replay(d) \/ Coordinator!Fault(d) \/ Coordinator!Refuse(d)
        \/ Coordinator!Read(d) \/ Coordinator!Write(d)
  BY <1>2 DEF Coordinator!Next, Coordinator!vars
<1>4. \A code, r : \A d \in Clients :
        Coordinator!Pending(d) /\ r \in Coordinator!Responses /\ Coordinator!Handle(d, Coordinator!Answer(code, r)) =>
          d = c /\ code = "accepted" /\ calls'[c].response = r
  <2>1. SUFFICES ASSUME NEW code, NEW r, NEW d \in Clients, Coordinator!Pending(d), r \in Coordinator!Responses,
                        Coordinator!Handle(d, Coordinator!Answer(code, r))
                 PROVE  d = c /\ code = "accepted" /\ calls'[c].response = r
    OBVIOUS
  <2>2. Outcome(d, Coordinator!Answer(code, r))
    BY <2>1, PendingIs, HandleIs DEF TaskInv
  <2>3. QED
    BY <2>2, <1>2 DEF Outcome, Coordinator!Answer
<1>5. Coordinator!Read(c)
  <2>1. ASSUME NEW d \in Clients, NEW req \in Coordinator!Requests, Coordinator!Begin(d, req) PROVE FALSE
    <3>1. calls \in [Clients -> CallRecords]
      BY DEF TaskInv, Coordinator!TypeOK, CallRecords
    <3>2. PICK call : call = [Coordinator!Idle EXCEPT !.request = req, !.attempt = 1, !.verdict = "pending"]
      OBVIOUS
    <3>3. calls' = [calls EXCEPT ![d] = call] /\ calls[d].verdict # "pending"
      BY <2>1, <3>2 DEF Coordinator!Begin
    <3>4. QED
      BY <3>1, <3>3, <1>1, <1>2
  <2>2. ASSUME NEW d \in Clients, Coordinator!Replay(d) PROVE FALSE
    <3>1. PICK o \in answers :
            /\ o.request.id = calls[d].request.id
            /\ Coordinator!Handle(d, IF o.request = calls[d].request THEN Coordinator!Answer("accepted", o.response)
                                     ELSE Coordinator!Rejected("changed_replay"))
      BY <2>2 DEF Coordinator!Replay
    <3>2. Coordinator!Pending(d) /\ o.response \in Coordinator!Responses
      BY <1>1, <2>2 DEF Coordinator!Replay, LogType
    <3>3. d = c
      BY <1>1, <1>4, <3>1, <3>2 DEF Coordinator!Rejected
    <3>4. QED
      BY <1>1, <3>1, <3>3 DEF Coordinator!IsKnown
  <2>3. ASSUME NEW d \in Clients, Coordinator!Fault(d) PROVE FALSE
    <3>1. Coordinator!Pending(d)
      BY <2>3 DEF Coordinator!Fault, Coordinator!IsNew
    <3>2. PICK code \in Coordinator!Retryable \cup {"malformed_response", "ambiguous_outcome"} :
            Coordinator!Handle(d, Coordinator!Answer(code, Coordinator!NoResponse))
      BY <2>3 DEF Coordinator!Fault, Coordinator!Rejected
    <3>3. code # "accepted"
      BY DEF Coordinator!Retryable
    <3>4. QED
      BY <1>1, <1>4, <3>1, <3>2, <3>3
  <2>4. ASSUME NEW d \in Clients, Coordinator!Refuse(d) PROVE FALSE
    <3>1. Coordinator!Pending(d) /\ Coordinator!Handle(d, Coordinator!Answer("stale_revision", Coordinator!NoResponse))
      BY <2>4 DEF Coordinator!Refuse, Coordinator!IsNew, Coordinator!Rejected
    <3>2. QED
      BY <1>1, <1>4, <3>1
  <2>5. ASSUME NEW d \in Clients, Coordinator!Write(d) PROVE FALSE
    <3>1. /\ Coordinator!Pending(d) /\ calls[d].request.operation = "write_event"
          /\ Coordinator!Handle(d, Coordinator!Answer("accepted", Coordinator!Advanced))
      BY <2>5 DEF Coordinator!Write, Coordinator!IsNew
    <3>2. Coordinator!Advanced \in Coordinator!Responses
      BY <1>1 DEF Coordinator!Advanced, Coordinator!Responses
    <3>3. d = c
      BY <1>4, <3>1, <3>2
    <3>4. QED
      BY <3>1, <3>3
  <2>6. ASSUME NEW d \in Clients, Coordinator!Read(d) PROVE d = c
    <3>1. Coordinator!Pending(d) /\ Coordinator!Handle(d, Coordinator!Answer("accepted", Coordinator!Current))
      BY <2>6 DEF Coordinator!Read, Coordinator!IsNew
    <3>2. Coordinator!Current \in Coordinator!Responses
      BY <1>1 DEF Coordinator!Current, Coordinator!Responses
    <3>3. QED
      BY <1>4, <3>1, <3>2
  <2>7. QED
    BY <1>3, <2>1, <2>2, <2>3, <2>4, <2>5, <2>6
<1>6. calls'[c].response.revision = Len(events) + 1
  <2>1. Coordinator!Handle(c, Coordinator!Answer("accepted", Coordinator!Current))
    BY <1>5 DEF Coordinator!Read
  <2>2. Coordinator!Current \in Coordinator!Responses /\ Coordinator!Current.revision = Len(events) + 1
    BY <1>1 DEF Coordinator!Current, Coordinator!Responses
  <2>3. QED
    BY <1>1, <1>4, <2>1, <2>2
<1>7. \A i \in 1..Len(events) : events[i].expected # Len(events) + 1
  BY <1>1 DEF PastOK
<1>8. QED
  BY <1>1, <1>6, <1>7 DEF Coordinator!IsLogged
---------------------------------------------------------------------------
(* The Coordinator client: a write is in the log once, and the verdict of  *)
(* every call is true of the log, for any clients, identifiers, payloads,  *)
(* attempts and faults.                                                    *)
THEOREM ClientsAreTold == Coordinator!Spec => []ClientsAreToldTheTruth
<1>1. Coordinator!Init => TaskInv
  BY TaskInitHolds
<1>2. QED
  BY <1>1, TaskStepHolds, TaskInvSuffices, PTL DEF Coordinator!Spec

(* A client that reads the revision its doubtful write had expected knows  *)
(* that the write was not carried out.                                     *)
THEOREM ReadingSettlesDoubt == Coordinator!Spec => ReadsSettleDoubt
<1> DEFINE Inv == TaskInv /\ PastOK
           Settled == \A c \in Clients :
             (/\ Coordinator!IsNew(c) /\ calls'[c].verdict = "success"
              /\ calls[c].request.operation = "read_revision"
              /\ calls'[c].response.revision = doubt[c].expected)
             => ~Coordinator!IsLogged(doubt[c])
<1>1. Coordinator!Init => Inv
  <2> SUFFICES ASSUME Coordinator!Init PROVE PastOK
    BY TaskInitHolds
  <2>1. /\ task = 1 /\ events = <<>> /\ calls = [c \in Clients |-> Coordinator!Idle]
        /\ learnt = [c \in Clients |-> {1}]
    BY DEF Coordinator!Init
  <2>2. QED
    BY <2>1 DEF PastOK, Coordinator!Idle
<1>2. Inv /\ [Coordinator!Next]_(Coordinator!vars) => Inv'
  BY TaskStepHolds, StepKeepsPast
<1>3. Inv /\ [Coordinator!Next]_(Coordinator!vars) => Settled
  BY ReadingSettles
<1>4. Inv /\ [Coordinator!Next]_(Coordinator!vars) => [Settled]_(Coordinator!vars)
  BY <1>3
<1> HIDE DEF Inv
<1>5. QED
  BY <1>1, <1>2, <1>4, PTL DEF Coordinator!Spec, ReadsSettleDoubt, Coordinator!ReadsSettleDoubt
==============================================================================
