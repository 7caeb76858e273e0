--------------------------- MODULE TrustPolicyProofs ---------------------------
(***************************************************************************)
(* Theorems about the trust policy of the API process, for any identities, *)
(* documents, evidence, requests and bounds.  GenInv joins the types to    *)
(* what the table of generations knows, UnderWay says what cosign is at    *)
(* work on, Dated what is known of revocations that were answered.         *)
(* Ordered and Known hold as long as reloads and revocations come one      *)
(* after the other: how old the policies in use may be, and that the one   *)
(* in force, and every answer on its way to it, holds what was answered.   *)
(***************************************************************************)
EXTENDS TrustPolicy, FiniteSetTheorems, TLAPS

\* Only documents that were accepted are on their way into the table or in it.
AcceptableOnly ==
  /\ \A a \in Admin : admin[a].step \in {"latest", "insert"} => Acceptable(Document[admin[a].content])
  /\ \A g \in 1..Len(generations) : Acceptable(Document[generations[g]])

\* GenerationNamesContent, with the number of row g of the table s written out.
NumberIn(s, g) == Cardinality({h \in 1..g : Document[s[h]].policyId = Document[s[g]].policyId})

NamesContent ==
  \A a \in Admin : admin[a].step \in {"revocations", "install"} =>
    /\ admin[a].next \in 1..Len(generations)
    /\ generations[admin[a].next] = admin[a].content
    /\ NumberIn(generations, admin[a].next) = admin[a].number

GenInv == TypeOK /\ NamesContent /\ AcceptableOnly

\* What cosign is at work on; a signature remembers the generation its call began with.
UnderWay ==
  \A c \in Client : client[c].step = "cosign" =>
    \/ /\ client[c].kind = "signature" /\ client[c].item \in Signature
       /\ client[c].generation \in 1..Len(generations)
    \/ client[c].kind = "provenance" /\ client[c].item \in Attestation
-----------------------------------------------------------------------------
LEMMA RestingTyped == ASSUME file \in Content PROVE Resting \in AdminRecord /\ Resting.step = "idle"
  BY PolicyAssumption DEF PolicyAssumption, Resting, AdminRecord

LEMMA IdleTyped == Idle \in ClientRecord /\ Idle.step = "idle"
  BY PolicyAssumption DEF PolicyAssumption, Idle, ClientRecord

\* A request that moves leaves the others where they are.
LEMMA Moved ==
  ASSUME TypeOK, NEW a \in Admin, NEW r \in AdminRecord, Moves(a, r)
  PROVE  /\ admin' \in [Admin -> AdminRecord] /\ overlapped' \in BOOLEAN
         /\ admin'[a] = r /\ \A b \in Admin \ {a} : admin'[b] = admin[b]
         /\ ~overlapped' => ~overlapped /\ \A b \in Admin \ {a} : admin[b].step = "idle"
  BY DEF TypeOK, Moves

\* A new generation has the next number and leaves the others what they were.
LEMMA Generated ==
  ASSUME NEW s \in Seq(Content), NEW c \in Content
  PROVE  /\ Append(s, c) \in Seq(Content) /\ Len(Append(s, c)) = Len(s) + 1 /\ Len(s) \in Nat
         /\ Append(s, c)[Len(s) + 1] = c
         /\ \A g \in 1..Len(s) : Append(s, c)[g] = s[g]
  OBVIOUS

\* The rows of a policyId among the first n are finitely many, and at most n.
LEMMA RowsCounted ==
  ASSUME NEW id, NEW n \in Nat
  PROVE  IsFiniteSet(RowsOf(id, n)) /\ Cardinality(RowsOf(id, n)) \in 0..n
  <1>1. IsFiniteSet(1..n) /\ Cardinality(1..n) = n
    BY FS_Interval
  <1>2. RowsOf(id, n) \subseteq 1..n
    BY DEF RowsOf
  <1>3. /\ IsFiniteSet(RowsOf(id, n)) /\ Cardinality(RowsOf(id, n)) <= Cardinality(1..n)
        /\ Cardinality(RowsOf(id, n)) \in Nat
    BY <1>1, <1>2, FS_Subset, FS_CardinalityType
  <1> QED
    BY <1>1, <1>3

\* Within one policyId the later row has no lower number.
LEMMA NumbersRise ==
  ASSUME NEW g \in Nat, NEW h \in Nat, g <= h, PolicyId(g) = PolicyId(h)
  PROVE  Number(g) <= Number(h)
  <1>1. RowsOf(PolicyId(g), g) \subseteq RowsOf(PolicyId(h), h)
    BY DEF RowsOf
  <1> QED
    BY <1>1, RowsCounted, FS_Subset DEF Number

\* A row that is added gets the next number of its policyId; the others keep theirs.
LEMMA NumbersKept ==
  ASSUME generations \in Seq(Content), NEW c \in Content, generations' = Append(generations, c)
  PROVE  /\ \A g \in 1..Len(generations) : NumberIn(generations', g) = NumberIn(generations, g)
         /\ NumberIn(generations', Len(generations) + 1) = Latest(Document[c].policyId) + 1
  <1> DEFINE n == Len(generations)
             id == Document[c].policyId
  <1>0. /\ n \in Nat /\ generations'[n + 1] = c
        /\ \A g \in 1..n : generations'[g] = generations[g]
    BY Generated
  <1>1. ASSUME NEW g \in 1..n PROVE NumberIn(generations', g) = NumberIn(generations, g)
    <2>1. {h \in 1..g : Document[generations'[h]].policyId = Document[generations'[g]].policyId}
            = {h \in 1..g : Document[generations[h]].policyId = Document[generations[g]].policyId}
      BY <1>0
    <2> QED
      BY <2>1 DEF NumberIn
  <1>2. NumberIn(generations', n + 1) = Latest(id) + 1
    <2>1. {h \in 1..(n + 1) : Document[generations'[h]].policyId = Document[generations'[n + 1]].policyId}
            = RowsOf(id, n) \cup {n + 1}
      BY <1>0 DEF RowsOf, PolicyId
    <2>2. n + 1 \notin RowsOf(id, n)
      BY <1>0 DEF RowsOf
    <2>3. Cardinality(RowsOf(id, n) \cup {n + 1}) = Cardinality(RowsOf(id, n)) + 1
      BY <1>0, <2>2, RowsCounted, FS_AddElement
    <2> QED
      BY <2>1, <2>3 DEF NumberIn, Latest
  <1> QED
    BY <1>1, <1>2

LEMMA InitGenInv == ASSUME Init PROVE GenInv
  <1>1. file \in Content /\ Resting \in AdminRecord /\ Resting.step = "idle"
    BY RestingTyped DEF Init
  <1>2. generations = <<>> /\ generations \in Seq(Content) /\ Len(generations) = 0
    BY DEF Init
  <1>3. loaded \in [1..MaxGeneration -> [revocations : SUBSET Identity, at : 0..Horizon]]
    BY PolicyAssumption DEF PolicyAssumption, Init, NoPolicy
  <1>4. revoked \in [Identity -> 0..Horizon] /\ decision \in [judged : 0..MaxGeneration, snapshot : 0..MaxGeneration]
    BY PolicyAssumption DEF PolicyAssumption, Init
  <1>5. admin = [a \in Admin |-> Resting] /\ admin \in [Admin -> AdminRecord]
    BY <1>1 DEF Init
  <1>6. client \in [Client -> ClientRecord]
    BY IdleTyped DEF Init
  <1>7. cached \in 0..Len(generations) /\ Len(generations) <= MaxGeneration /\ now \in 1..Horizon
    BY <1>2, PolicyAssumption DEF PolicyAssumption, Init
  <1>8. evidence = {} /\ answered = {} /\ overlapped = FALSE
    BY DEF Init
  <1>9. TypeOK
    BY <1>1, <1>2, <1>3, <1>4, <1>5, <1>6, <1>7, <1>8 DEF TypeOK
  <1> QED
    BY <1>1, <1>2, <1>5, <1>9 DEF GenInv, NamesContent, AcceptableOnly

\* A request that moves without a new generation keeps what is known about generations.
LEMMA MoveKeeps ==
  ASSUME GenInv, NEW a \in Admin, NEW r \in AdminRecord, Moves(a, r), generations' = generations,
         r.step \in {"revocations", "install"} =>
           /\ admin[a].step \in {"revocations", "install"}
             /\ r.next = admin[a].next /\ r.content = admin[a].content /\ r.number = admin[a].number,
         r.step \in {"latest", "insert"} => Acceptable(Document[r.content])
  PROVE  NamesContent' /\ AcceptableOnly'
  <1>1. admin'[a] = r /\ \A b \in Admin \ {a} : admin'[b] = admin[b]
    BY Moved DEF GenInv
  <1> QED
    BY <1>1 DEF GenInv, NamesContent, AcceptableOnly

\* A step of an administration request keeps the invariant.
LEMMA AdministersGenInv ==
  ASSUME GenInv, NEW a \in Admin, Administers(a)
  PROVE  GenInv'
  <1>0. /\ Resting \in AdminRecord /\ Resting.step = "idle" /\ admin[a] \in AdminRecord
        /\ generations \in Seq(Content) /\ Len(generations) \in Nat
        /\ MaxGeneration \in Nat /\ Horizon \in Nat /\ TypeOK
    BY RestingTyped, PolicyAssumption DEF GenInv, TypeOK, PolicyAssumption
  <1>1. CASE BeginReload(a)
    <2> DEFINE r == [Resting EXCEPT !.step = "latest", !.content = file]
    <2>1. r \in AdminRecord /\ r.step = "latest" /\ r.content = file
      BY <1>0 DEF AdminRecord, TypeOK
    <2>2. Moves(a, r) /\ Acceptable(Document[file]) /\ UNCHANGED <<file, tables, memory, judged, now, answered>>
      BY <1>1 DEF BeginReload
    <2> HIDE DEF r
    <2>3. TypeOK'
      BY <1>0, <2>1, <2>2, Moved DEF TypeOK, tables, memory, judged
    <2> QED
      BY <2>1, <2>2, <2>3, MoveKeeps DEF GenInv, tables
  <1>2. CASE ReadLatest(a)
    <2> DEFINE number == Latest(Document[admin[a].content].policyId) + 1
               r == [admin[a] EXCEPT !.step = "insert", !.number = number]
    <2>0. number \in 0..MaxGeneration
      BY <1>0, <1>2, RowsCounted DEF Latest, ReadLatest
    <2>1. /\ admin[a].step = "latest"
          /\ Moves(a, r) /\ UNCHANGED <<file, tables, memory, judged, now, answered>>
      BY <1>2 DEF ReadLatest
    <2> HIDE DEF number
    <2>2. r \in AdminRecord /\ r.step = "insert" /\ r.content = admin[a].content
      BY <1>0, <2>0 DEF AdminRecord
    <2>3. Acceptable(Document[r.content])
      BY <2>1, <2>2 DEF GenInv, AcceptableOnly
    <2> HIDE DEF r
    <2>4. TypeOK'
      BY <1>0, <2>1, <2>2, Moved DEF TypeOK, tables, memory, judged
    <2> QED
      BY <2>1, <2>2, <2>3, <2>4, MoveKeeps DEF GenInv, tables
  <1>3. CASE InsertGeneration(a)
    <2>0. UNCHANGED <<file, revoked, memory, judged, now, answered>> /\ admin[a].step = "insert"
      BY <1>3 DEF InsertGeneration
    <2>1. CASE Inserts(a)
      <3> DEFINE r == [admin[a] EXCEPT !.step = "revocations", !.next = Len(generations) + 1]
      <3>0. /\ Moves(a, r) /\ generations' = Append(generations, admin[a].content)
            /\ Len(generations) + 1 \in 0..MaxGeneration
            /\ admin[a].number = Latest(Document[admin[a].content].policyId) + 1
        BY <1>0, <2>1 DEF Inserts
      <3>1. /\ r \in AdminRecord /\ r.step = "revocations" /\ r.next = Len(generations) + 1
            /\ r.number = admin[a].number
            /\ r.content = admin[a].content /\ r.content \in Content /\ r.next \in 0..MaxGeneration
        BY <1>0, <3>0 DEF AdminRecord
      <3>2. Moves(a, r)
        BY <3>0
      <3>3. Acceptable(Document[admin[a].content])
        BY <2>0 DEF GenInv, AcceptableOnly
      <3> HIDE DEF r
      <3>4. /\ generations' \in Seq(Content) /\ Len(generations') = Len(generations) + 1
            /\ generations'[Len(generations) + 1] = admin[a].content
            /\ \A g \in 1..Len(generations) : generations'[g] = generations[g]
        BY <1>0, <3>0, <3>1, Generated
      <3>5. TypeOK'
        BY <1>0, <2>0, <3>1, <3>2, <3>4, Moved DEF TypeOK, memory, judged
      <3>6. admin'[a] = r /\ \A b \in Admin \ {a} : admin'[b] = admin[b]
        BY <1>0, <3>1, <3>2, Moved
      <3>7. NamesContent'
        <4>1. /\ \A g \in 1..Len(generations) : NumberIn(generations', g) = NumberIn(generations, g)
              /\ NumberIn(generations', Len(generations) + 1) = admin[a].number
          BY <1>0, <3>0, <3>1, NumbersKept
        <4> QED
          BY <1>0, <3>1, <3>4, <3>6, <4>1 DEF GenInv, NamesContent
      <3>8. AcceptableOnly'
        BY <1>0, <3>1, <3>3, <3>4, <3>6 DEF GenInv, AcceptableOnly
      <3> QED
        BY <3>5, <3>7, <3>8 DEF GenInv
    <2>2. CASE Moves(a, Resting) /\ UNCHANGED generations
      <3>1. TypeOK'
        BY <1>0, <2>0, <2>2, Moved DEF TypeOK, memory, judged
      <3> QED
        BY <1>0, <2>2, <3>1, MoveKeeps DEF GenInv
    <2> QED
      BY <1>3, <2>1, <2>2 DEF InsertGeneration
  <1>4. CASE ReadRevocations(a)
    <2> DEFINE r == [admin[a] EXCEPT !.step = IF @ = "read" THEN "assign" ELSE "install", !.found = Due]
    <2>1. /\ admin[a].step \in {"revocations", "read"} /\ Moves(a, r)
          /\ UNCHANGED <<file, tables, memory, judged, now, answered>>
      BY <1>4 DEF ReadRevocations
    <2>2. /\ r \in AdminRecord /\ r.step \in {"assign", "install"} /\ r.next = admin[a].next
          /\ r.content = admin[a].content /\ r.number = admin[a].number
          /\ (r.step = "install" => admin[a].step = "revocations")
      BY <1>0, <2>1 DEF AdminRecord, Due
    <2> HIDE DEF r
    <2>3. TypeOK'
      BY <1>0, <2>1, <2>2, Moved DEF TypeOK, tables, memory, judged
    <2> QED
      BY <2>1, <2>2, <2>3, MoveKeeps DEF GenInv, tables
  <1>5. CASE Install(a)
    <2>1. admin[a].next \in 1..Len(generations) /\ admin[a].found \in SUBSET Identity
      BY <1>0, <1>5 DEF Install, AdminRecord, GenInv, NamesContent
    <2>2. /\ loaded' \in [1..MaxGeneration -> [revocations : SUBSET Identity, at : 0..Horizon]]
          /\ cached' \in 0..Len(generations)
      <3> DEFINE entry == [revocations |-> admin[a].found, at |-> now]
      <3>1. entry \in [revocations : SUBSET Identity, at : 0..Horizon]
        <4>1. now \in 0..Horizon
          BY <1>0 DEF TypeOK
        <4> QED
          BY <2>1, <4>1
      <3>2. loaded' = [loaded EXCEPT ![admin[a].next] = entry] /\ cached' = admin[a].next /\ UNCHANGED generations
        BY <1>5 DEF Install, tables
      <3> HIDE DEF entry
      <3> QED
        BY <1>0, <2>1, <3>1, <3>2 DEF TypeOK
    <2>3. Moves(a, Resting) /\ UNCHANGED <<file, tables, judged, now, answered>>
      BY <1>5 DEF Install
    <2>4. TypeOK'
      BY <1>0, <2>2, <2>3, Moved DEF TypeOK, tables, judged
    <2> QED
      BY <1>0, <2>3, <2>4, MoveKeeps DEF GenInv, tables
  <1>6. CASE DatabaseFails(a)
    <2>1. Moves(a, Resting) /\ UNCHANGED <<file, tables, memory, judged, now, answered>>
      BY <1>6 DEF DatabaseFails
    <2>2. TypeOK'
      BY <1>0, <2>1, Moved DEF TypeOK, tables, memory, judged
    <2> QED
      BY <1>0, <2>1, <2>2, MoveKeeps DEF GenInv, tables
  <1>7. ASSUME NEW who \in Identity, NEW at \in 1..Horizon, InsertRevocation(a, who, at)
        PROVE  GenInv'
    <2> DEFINE r == [Resting EXCEPT !.step = "capture", !.who = {who}]
    <2>1. r \in AdminRecord /\ r.step = "capture"
      BY <1>0 DEF AdminRecord
    <2>2. Moves(a, r) /\ revoked' = [revoked EXCEPT ![who] = at]
            /\ UNCHANGED <<file, generations, memory, judged, now, answered>>
      BY <1>7 DEF InsertRevocation
    <2> HIDE DEF r
    <2>3. revoked' \in [Identity -> 0..Horizon]
      BY <1>0, <2>2 DEF TypeOK
    <2>4. TypeOK'
      BY <1>0, <2>1, <2>2, <2>3, Moved DEF TypeOK, memory, judged
    <2> QED
      BY <2>1, <2>2, <2>4, MoveKeeps DEF GenInv
  <1>8. CASE Capture(a)
    <2> DEFINE r == [admin[a] EXCEPT !.step = "read", !.target = cached]
    <2>1. r \in AdminRecord /\ r.step = "read"
      <3>1. cached \in 0..MaxGeneration
        BY <1>0 DEF TypeOK
      <3> QED
        BY <1>0, <3>1 DEF AdminRecord
    <2>2. Moves(a, r) /\ UNCHANGED <<file, tables, memory, judged, now, answered>>
      BY <1>8 DEF Capture
    <2> HIDE DEF r
    <2>3. TypeOK'
      BY <1>0, <2>1, <2>2, Moved DEF TypeOK, tables, memory, judged
    <2> QED
      BY <2>1, <2>2, <2>3, MoveKeeps DEF GenInv, tables
  <1>9. CASE Assign(a)
    <2>1. admin[a].found \in SUBSET Identity /\ admin[a].who \in SUBSET Identity
      BY <1>0 DEF AdminRecord
    <2>2. loaded' \in [1..MaxGeneration -> [revocations : SUBSET Identity, at : 0..Horizon]]
      BY <1>0, <1>9, <2>1 DEF Assign, TypeOK
    <2>3. answered' \subseteq Identity
      BY <1>0, <1>9, <2>1 DEF Assign, TypeOK
    <2>4. Moves(a, Resting) /\ UNCHANGED <<file, tables, cached, judged, now>>
      BY <1>9 DEF Assign
    <2>5. TypeOK'
      BY <1>0, <2>2, <2>3, <2>4, Moved DEF TypeOK, tables, judged
    <2> QED
      BY <1>0, <2>4, <2>5, MoveKeeps DEF GenInv, tables
  <1> QED
    BY <1>1, <1>2, <1>3, <1>4, <1>5, <1>6, <1>7, <1>8, <1>9 DEF Administers

\* The other steps leave the tables of generations and the requests alone, or empty the latter.
LEMMA UsesTyped ==
  ASSUME TypeOK, UnderWay, NEW c \in Client, Uses(c)
  PROVE  TypeOK' /\ UNCHANGED <<file, tables, memory, admin, now, answered, overlapped>>
  <1>0. /\ client[c] \in ClientRecord /\ Idle \in ClientRecord /\ client \in [Client -> ClientRecord]
        /\ cached \in 0..MaxGeneration /\ Len(generations) \in Nat /\ MaxGeneration \in Nat
    <2>1. Len(generations) \in Nat /\ MaxGeneration \in Nat
      BY PolicyAssumption DEF TypeOK, PolicyAssumption
    <2> QED
      BY <2>1, IdleTyped DEF TypeOK
  <1> DEFINE Keeps == /\ client' \in [Client -> ClientRecord] /\ evidence' \subseteq {"signature", "provenance"}
                      /\ decision' \in [judged : 0..MaxGeneration, snapshot : 0..MaxGeneration]
                      /\ UNCHANGED <<file, tables, memory, admin, now, answered, overlapped>>
             started == [Idle EXCEPT !.step = "read", !.kind = "evaluation"]
  <1> SUFFICES Keeps
    BY DEF TypeOK, tables, memory
  <1>1. started \in ClientRecord
    BY <1>0 DEF ClientRecord
  <1>2. ASSUME NEW kind \in {"signature", "provenance"}, NEW item \in Attestation \cup Signature,
               BeginVerification(c, kind, item)
        PROVE  Keeps
    <2> DEFINE g == IF kind = "signature" THEN cached ELSE 0
    <2>0. g \in 0..MaxGeneration /\ answered \in SUBSET Identity
      BY <1>0 DEF TypeOK
    <2> HIDE DEF g
    <2>1. [Idle EXCEPT !.step = "cosign", !.kind = kind, !.item = item, !.generation = g, !.barred = answered]
            \in ClientRecord
      BY <1>0, <2>0 DEF ClientRecord
    <2> QED
      BY <1>0, <1>2, <2>1 DEF g, BeginVerification, TypeOK
  <1>3. CASE EndVerification(c)
    <2>1. client[c].kind \in {"signature", "provenance"}
      BY <1>3 DEF EndVerification, UnderWay
    <2>2. /\ client' = [client EXCEPT ![c] = started] \/ client' = [client EXCEPT ![c] = Idle]
          /\ evidence' = evidence \/ evidence' = evidence \cup {client[c].kind}
          /\ UNCHANGED <<file, tables, memory, admin, decision, now, answered, overlapped>>
      BY <1>3 DEF EndVerification
    <2> QED
      BY <1>0, <1>1, <2>1, <2>2 DEF TypeOK
  <1>4. CASE CosignFails(c)
    BY <1>0, <1>4 DEF CosignFails, TypeOK
  <1>5. CASE BeginEvaluation(c)
    BY <1>0, <1>1, <1>5 DEF BeginEvaluation, TypeOK
  <1>6. CASE ReadEvidence(c)
    <2>1. [client[c] EXCEPT !.step = "judge", !.rows = evidence] \in ClientRecord
      BY <1>0 DEF ClientRecord, TypeOK
    <2> QED
      BY <1>0, <1>6, <2>1 DEF ReadEvidence, TypeOK
  <1>7. CASE Judge(c)
    <2>1. \A g \in 0..MaxGeneration : [client[c] EXCEPT !.step = "decide", !.generation = g] \in ClientRecord
      BY <1>0 DEF ClientRecord
    <2>2. 0 \in 0..MaxGeneration
      BY <1>0
    <2> QED
      BY <1>0, <1>7, <2>1, <2>2 DEF Judge, TypeOK
  <1>8. CASE Decide(c)
    <2>1. [client[c] EXCEPT !.step = "snapshot"] \in ClientRecord /\ client[c].generation \in 0..MaxGeneration
      BY <1>0 DEF ClientRecord
    <2> QED
      BY <1>0, <1>8, <2>1 DEF Decide, TypeOK
  <1>9. CASE Snapshot(c)
    <2>1. client[c].generation \in 0..MaxGeneration
      BY <1>0 DEF ClientRecord
    <2> QED
      BY <1>0, <1>9, <2>1 DEF Snapshot, TypeOK
  <1>10. CASE RecordFails(c)
    BY <1>0, <1>10 DEF RecordFails, TypeOK
  <1> QED
    BY <1>2, <1>3, <1>4, <1>5, <1>6, <1>7, <1>8, <1>9, <1>10 DEF Uses

\* Generations are only ever added.
LEMMA GenerationsKept ==
  ASSUME TypeOK, [Next]_vars
  PROVE  /\ Len(generations) \in Nat /\ Len(generations') \in Nat /\ Len(generations) <= Len(generations')
         /\ \A g \in 1..Len(generations) : generations'[g] = generations[g]
  <1>1. generations \in Seq(Content) /\ Len(generations) \in Nat
    BY DEF TypeOK
  <1>2. ASSUME NEW a \in Admin, InsertGeneration(a), generations' = Append(generations, admin[a].content)
        PROVE  /\ Len(generations') = Len(generations) + 1
               /\ \A g \in 1..Len(generations) : generations'[g] = generations[g]
    <2>1. admin[a].content \in Content
      BY DEF TypeOK, AdminRecord
    <2> QED
      BY <1>1, <1>2, <2>1, Generated
  <1>3. ASSUME NEW a \in Admin, Administers(a), ~InsertGeneration(a) PROVE generations' = generations
    BY <1>3 DEF Administers, BeginReload, ReadLatest, ReadRevocations, Install, DatabaseFails, InsertRevocation,
         Capture, Assign, tables
  <1>4. ASSUME NEW c \in Client, Uses(c) PROVE generations' = generations
    BY <1>4 DEF Uses, BeginVerification, EndVerification, CosignFails, BeginEvaluation, ReadEvidence, Judge, Decide,
         Snapshot, RecordFails, tables
  <1>5. CASE (\E content \in Content : EditFile(content)) \/ Restart \/ Tick \/ UNCHANGED vars
    BY <1>1, <1>5 DEF EditFile, Restart, Tick, vars, tables
  <1>6. ASSUME NEW a \in Admin, InsertGeneration(a)
        PROVE  generations' = generations \/ generations' = Append(generations, admin[a].content)
    BY <1>6 DEF InsertGeneration, Inserts
  <1> QED
    BY <1>1, <1>2, <1>3, <1>4, <1>5, <1>6 DEF Next

LEMMA StepUnderWay == ASSUME TypeOK, UnderWay, [Next]_vars PROVE UnderWay'
  <1>0. client \in [Client -> ClientRecord] /\ cached \in 0..Len(generations)
    BY DEF TypeOK
  <1>1. ASSUME NEW c \in Client,
               client'[c].step = "cosign" =>
                 /\ client[c].step = "cosign" /\ client'[c].kind = client[c].kind /\ client'[c].item = client[c].item
                 /\ client'[c].generation = client[c].generation
        PROVE  client'[c].step = "cosign" =>
                 \/ /\ client'[c].kind = "signature" /\ client'[c].item \in Signature
                    /\ client'[c].generation \in 1..Len(generations')
                 \/ client'[c].kind = "provenance" /\ client'[c].item \in Attestation
    BY <1>1, GenerationsKept DEF UnderWay
  <1>2. ASSUME client' = client PROVE UnderWay'
    BY <1>1, <1>2 DEF UnderWay
  <1>3. ASSUME NEW d \in Client, Uses(d) PROVE UnderWay'
    <2>1. ASSUME NEW kind, NEW item, BeginVerification(d, kind, item),
                 \/ kind = "signature" /\ item \in Signature
                 \/ kind = "provenance" /\ item \in Attestation
          PROVE  UnderWay'
      <3>1. /\ client'[d].step = "cosign" /\ client'[d].kind = kind /\ client'[d].item = item
            /\ kind = "signature" => client'[d].generation = cached
            /\ \A c \in Client \ {d} : client'[c] = client[c]
        BY <1>0, <2>1 DEF BeginVerification, Idle
      <3>2. cached \in 1..Len(generations')
        BY <1>0, <2>1, GenerationsKept DEF BeginVerification
      <3> QED
        BY <1>1, <2>1, <3>1, <3>2 DEF UnderWay
    <2>2. ASSUME \A c \in Client \ {d} : client'[c] = client[c], client'[d].step # "cosign" PROVE UnderWay'
      BY <1>1, <2>2 DEF UnderWay
    <2>3. ASSUME EndVerification(d) \/ CosignFails(d) \/ BeginEvaluation(d) \/ ReadEvidence(d) \/ Judge(d)
                   \/ Decide(d) \/ Snapshot(d) \/ RecordFails(d)
          PROVE  client'[d].step # "cosign" /\ \A c \in Client \ {d} : client'[c] = client[c]
      <3>1. CASE EndVerification(d) \/ CosignFails(d) \/ BeginEvaluation(d) \/ RecordFails(d)
        <4> DEFINE started == [Idle EXCEPT !.step = "read", !.kind = "evaluation"]
        <4>1. started.step = "read" /\ Idle.step = "idle"
          BY DEF Idle
        <4>2. client' = [client EXCEPT ![d] = started] \/ client' = [client EXCEPT ![d] = Idle]
          BY <3>1 DEF EndVerification, CosignFails, BeginEvaluation, RecordFails
        <4> QED
          BY <1>0, <4>1, <4>2
      <3>2. CASE ReadEvidence(d)
        BY <1>0, <3>2 DEF ReadEvidence, ClientRecord
      <3>3. CASE Decide(d)
        BY <1>0, <3>3 DEF Decide, ClientRecord
      <3>4. CASE Snapshot(d)
        BY <1>0, <3>4 DEF Snapshot, Idle
      <3>5. CASE Judge(d)
        BY <1>0, <3>5 DEF Judge, Idle, ClientRecord
      <3> QED
        BY <2>3, <3>1, <3>2, <3>3, <3>4, <3>5
    <2> QED
      BY <1>3, <2>1, <2>2, <2>3 DEF Uses
  <1>4. ASSUME NEW a \in Admin, Administers(a) PROVE client' = client
    BY <1>4 DEF Administers, BeginReload, ReadLatest, InsertGeneration, ReadRevocations, Install, DatabaseFails,
         InsertRevocation, Capture, Assign, judged
  <1>5. ASSUME (\E content \in Content : EditFile(content)) \/ Tick \/ UNCHANGED vars PROVE client' = client
    BY <1>5 DEF EditFile, Tick, vars, judged
  <1>6. CASE Restart
    BY <1>1, <1>6, IdleTyped DEF Restart, UnderWay
  <1> QED
    BY <1>2, <1>3, <1>4, <1>5, <1>6 DEF Next

LEMMA StepGenInv == ASSUME GenInv, UnderWay, [Next]_vars PROVE GenInv'
  <1> USE DEF GenInv
  <1>1. ASSUME NEW a \in Admin, Administers(a) PROVE GenInv'
    BY <1>1, AdministersGenInv
  <1>2. ASSUME NEW c \in Client, Uses(c) PROVE GenInv'
    BY <1>2, UsesTyped DEF NamesContent, AcceptableOnly, tables
  <1>3. ASSUME NEW content \in Content, EditFile(content) PROVE GenInv'
    BY <1>3 DEF EditFile, TypeOK, NamesContent, AcceptableOnly, tables, memory, judged
  <1>4. CASE Restart
    <2>1. Resting \in AdminRecord /\ Resting.step = "idle" /\ Idle \in ClientRecord
      BY RestingTyped, IdleTyped DEF TypeOK
    <2>2. NoPolicy \in [1..MaxGeneration -> [revocations : SUBSET Identity, at : 0..Horizon]]
      BY PolicyAssumption DEF PolicyAssumption, NoPolicy
    <2>3. 0 \in 0..Len(generations)
      BY DEF TypeOK
    <2> QED
      BY <1>4, <2>1, <2>2, <2>3 DEF Restart, TypeOK, NamesContent, AcceptableOnly, tables
  <1>5. CASE Tick
    <2>1. now' \in 1..Horizon
      BY <1>5, PolicyAssumption DEF Tick, TypeOK, PolicyAssumption
    <2> QED
      BY <1>5, <2>1 DEF Tick, TypeOK, NamesContent, AcceptableOnly, tables, memory, judged
  <1>6. CASE UNCHANGED vars
    BY <1>6 DEF vars, TypeOK, NamesContent, AcceptableOnly, tables, memory, judged
  <1> QED
    BY <1>1, <1>2, <1>3, <1>4, <1>5, <1>6 DEF Next

LEMMA GenInvariant == Spec => [](GenInv /\ UnderWay)
  <1>1. Init => GenInv /\ UnderWay
    BY InitGenInv, IdleTyped DEF Init, UnderWay
  <1>2. GenInv /\ UnderWay /\ [Next]_vars => (GenInv /\ UnderWay)'
    BY StepGenInv, StepUnderWay DEF GenInv
  <1> QED
    BY <1>1, <1>2, PTL DEF Spec

\* Every variable holds what the code can put there, for any constants.
THEOREM PolicyTyped == Spec => []TypeOK
  BY GenInvariant, PTL DEF GenInv

\* However reloads overlap, what one is about to cache is what the table says was loaded
\* under its policyId and number (trustPolicyLoader.js:281-307).
THEOREM GenerationsNameContent == Spec => []GenerationNamesContent
  <1>1. GenInv => GenerationNamesContent
    BY DEF GenInv, NamesContent, GenerationNamesContent, NumberIn, Number, RowsOf, PolicyId
  <1> QED
    BY <1>1, GenInvariant, PTL
-----------------------------------------------------------------------------
\* As long as no two administration requests overlap, a reload under way is no older than
\* the policy in force, which is no older than what an evaluation has judged.
Ordered ==
  ~overlapped =>
    /\ \A a \in Admin : admin[a].step \in {"revocations", "install"} => cached <= admin[a].next
    /\ \A c \in Client : client[c].step \in {"decide", "snapshot"} => client[c].generation <= cached
    /\ decision.snapshot # 0 => decision.judged <= decision.snapshot

\* A revocation that was answered, or found by a request, is in the table and due; a
\* revocation or a verification under way has a policy.
Dated ==
  /\ \A who \in answered : revoked[who] \in 1..now
  /\ \A a \in Admin : /\ admin[a].step \in {"install", "assign"} =>
                           \A who \in admin[a].found : revoked[who] \in 1..now
                      /\ admin[a].step \in {"capture", "read", "assign"} => cached # 0
  /\ \A c \in Client : client[c].step = "cosign" => client[c].barred \subseteq answered /\ cached # 0

\* As long as no two administration requests overlap, the policy in force and the answers
\* on their way to it hold every revocation that was answered.
Known ==
  ~overlapped =>
    /\ cached # 0 => answered \subseteq loaded[cached].revocations
    /\ \A a \in Admin : /\ admin[a].step \in {"install", "assign"} => answered \subseteq admin[a].found
                        /\ admin[a].step \in {"read", "assign"} => admin[a].target = cached

\* What a step of a request may do to the policy, where the request goes from there, and
\* what it remembers.
Effect(a, r) ==
  \/ /\ r.step = "revocations" => cached <= r.next
     /\ r.step \in {"idle", "latest", "insert", "revocations"}
     /\ UNCHANGED <<revoked, memory, answered>>
  \/ /\ r.step \in {"install", "assign"} /\ r.found = Due
     /\ r.step = "install" => admin[a].step = "revocations" /\ r.next = admin[a].next
     /\ r.step = "assign" => admin[a].step = "read" /\ r.target = admin[a].target
     /\ UNCHANGED <<revoked, memory, answered>>
  \/ /\ r.step = "idle" /\ admin[a].step = "install"
     /\ loaded' = [loaded EXCEPT ![admin[a].next] = [revocations |-> admin[a].found, at |-> now]]
     /\ cached' = admin[a].next /\ UNCHANGED <<revoked, answered>>
  \/ /\ r.step = "capture" /\ cached # 0 /\ UNCHANGED <<memory, answered>>
     /\ \E who \in Identity, at \in 1..Horizon : revoked[who] = 0 /\ revoked' = [revoked EXCEPT ![who] = at]
  \/ /\ r.step = "read" /\ r.target = cached /\ admin[a].step = "capture"
     /\ UNCHANGED <<revoked, memory, answered>>
  \/ /\ r.step = "idle" /\ admin[a].step = "assign"
     /\ loaded' = [loaded EXCEPT ![admin[a].target].revocations = admin[a].found]
     /\ answered' = answered \cup (admin[a].who \cap admin[a].found) /\ UNCHANGED <<revoked, cached>>

LEMMA AdministersEffect ==
  ASSUME GenInv, NEW a \in Admin, Administers(a)
  PROVE  \E r \in AdminRecord : Moves(a, r) /\ Effect(a, r) /\ UNCHANGED <<judged, now>>
  <1>0. /\ Resting \in AdminRecord /\ Resting.step = "idle" /\ admin[a] \in AdminRecord
        /\ Len(generations) \in Nat /\ cached \in 0..Len(generations) /\ MaxGeneration \in Nat
        /\ Len(generations) <= MaxGeneration /\ file \in Content
    BY RestingTyped, PolicyAssumption DEF GenInv, TypeOK, PolicyAssumption
  <1>1. CASE BeginReload(a)
    <2> DEFINE r == [Resting EXCEPT !.step = "latest", !.content = file]
    <2>1. r \in AdminRecord /\ r.step = "latest"
      BY <1>0 DEF AdminRecord
    <2>2. Moves(a, r) /\ UNCHANGED <<revoked, memory, judged, now, answered>>
      BY <1>1 DEF BeginReload, tables
    <2> HIDE DEF r
    <2>3. Effect(a, r)
      BY <2>1, <2>2 DEF Effect
    <2> QED
      BY <2>3, <2>1, <2>2
  <1>2. CASE ReadLatest(a)
    <2> DEFINE number == Latest(Document[admin[a].content].policyId) + 1
               r == [admin[a] EXCEPT !.step = "insert", !.number = number]
    <2>0. number \in 0..MaxGeneration
      BY <1>0, <1>2, RowsCounted DEF Latest, ReadLatest
    <2>1. r \in AdminRecord /\ r.step = "insert"
      BY <1>0, <2>0 DEF AdminRecord
    <2>2. Moves(a, r) /\ UNCHANGED <<revoked, memory, judged, now, answered>>
      BY <1>2 DEF ReadLatest, tables
    <2> HIDE DEF r
    <2>3. Effect(a, r)
      BY <2>1, <2>2 DEF Effect
    <2> QED
      BY <2>3, <2>1, <2>2
  <1>3. CASE InsertGeneration(a)
    <2>1. CASE Inserts(a)
      <3> DEFINE r == [admin[a] EXCEPT !.step = "revocations", !.next = Len(generations) + 1]
      <3>0. Moves(a, r) /\ Len(generations) + 1 \in 0..MaxGeneration
        BY <1>0, <2>1 DEF Inserts
      <3>1. r \in AdminRecord /\ r.step = "revocations" /\ r.next = Len(generations) + 1
        BY <1>0, <3>0 DEF AdminRecord
      <3>2. Moves(a, r) /\ UNCHANGED <<revoked, memory, judged, now, answered>>
        BY <1>3, <3>0 DEF InsertGeneration
      <3> HIDE DEF r
      <3>3. Effect(a, r)
        BY <1>0, <3>1, <3>2 DEF Effect
      <3> QED
        BY <3>3, <3>1, <3>2
    <2>2. CASE Moves(a, Resting)
      <3>1. UNCHANGED <<revoked, memory, judged, now, answered>>
        BY <1>3 DEF InsertGeneration
      <3>2. Effect(a, Resting)
        BY <1>0, <3>1 DEF Effect
      <3> QED
        BY <1>0, <2>2, <3>1, <3>2
    <2> QED
      BY <1>3, <2>1, <2>2 DEF InsertGeneration
  <1>4. CASE ReadRevocations(a)
    <2> DEFINE r == [admin[a] EXCEPT !.step = IF @ = "read" THEN "assign" ELSE "install", !.found = Due]
    <2>1. /\ admin[a].step \in {"revocations", "read"} /\ Moves(a, r)
          /\ UNCHANGED <<revoked, memory, judged, now, answered>>
      BY <1>4 DEF ReadRevocations, tables
    <2>2. r \in AdminRecord
      BY <1>0, <2>1 DEF AdminRecord, Due
    <2>3. /\ r.found = Due /\ r.next = admin[a].next /\ r.target = admin[a].target
          /\ \/ r.step = "assign" /\ admin[a].step = "read"
             \/ r.step = "install" /\ admin[a].step = "revocations"
      BY <1>0, <2>1 DEF AdminRecord
    <2> HIDE DEF r
    <2>4. Effect(a, r)
      BY <2>1, <2>2, <2>3 DEF Effect
    <2> QED
      BY <2>4, <2>1, <2>2, <2>3
  <1>5. CASE Install(a)
    <2>1. /\ Moves(a, Resting) /\ admin[a].step = "install" /\ UNCHANGED <<revoked, judged, now, answered>>
          /\ loaded' = [loaded EXCEPT ![admin[a].next] = [revocations |-> admin[a].found, at |-> now]]
          /\ cached' = admin[a].next
      BY <1>5 DEF Install, tables
    <2>2. Effect(a, Resting)
      BY <1>0, <2>1 DEF Effect
    <2> QED
      BY <1>0, <2>1, <2>2
  <1>6. CASE DatabaseFails(a)
    <2>1. Moves(a, Resting) /\ UNCHANGED <<revoked, memory, judged, now, answered>>
      BY <1>6 DEF DatabaseFails, tables
    <2>2. Effect(a, Resting)
      BY <1>0, <2>1 DEF Effect
    <2> QED
      BY <1>0, <2>1, <2>2
  <1>7. ASSUME NEW who \in Identity, NEW at \in 1..Horizon, InsertRevocation(a, who, at)
        PROVE  \E r \in AdminRecord : Moves(a, r) /\ Effect(a, r) /\ UNCHANGED <<judged, now>>
    <2> DEFINE r == [Resting EXCEPT !.step = "capture", !.who = {who}]
    <2>1. r \in AdminRecord /\ r.step = "capture"
      BY <1>0 DEF AdminRecord
    <2>2. /\ Moves(a, r) /\ cached # 0 /\ revoked[who] = 0 /\ revoked' = [revoked EXCEPT ![who] = at]
          /\ UNCHANGED <<file, generations, memory, judged, now, answered>>
      BY <1>7 DEF InsertRevocation
    <2> HIDE DEF r
    <2>3. Effect(a, r)
      BY <2>1, <2>2 DEF Effect
    <2> QED
      BY <2>3, <2>1, <2>2
  <1>8. CASE Capture(a)
    <2> DEFINE r == [admin[a] EXCEPT !.step = "read", !.target = cached]
    <2>0. cached \in 0..MaxGeneration
      BY <1>0
    <2>1. r \in AdminRecord /\ r.step = "read" /\ r.target = cached
      BY <1>0, <2>0 DEF AdminRecord
    <2>2. Moves(a, r) /\ admin[a].step = "capture" /\ UNCHANGED <<revoked, memory, judged, now, answered>>
      BY <1>8 DEF Capture, tables
    <2> HIDE DEF r
    <2>3. Effect(a, r)
      BY <2>1, <2>2 DEF Effect
    <2> QED
      BY <2>3, <2>1, <2>2
  <1>9. CASE Assign(a)
    <2>1. /\ Moves(a, Resting) /\ admin[a].step = "assign" /\ UNCHANGED <<revoked, cached, judged, now>>
          /\ loaded' = [loaded EXCEPT ![admin[a].target].revocations = admin[a].found]
          /\ answered' = answered \cup (admin[a].who \cap admin[a].found)
      BY <1>9 DEF Assign, tables
    <2>2. Effect(a, Resting)
      BY <1>0, <2>1 DEF Effect
    <2> QED
      BY <2>2, <1>0, <2>1
  <1> QED
    BY <1>1, <1>2, <1>3, <1>4, <1>5, <1>6, <1>7, <1>8, <1>9 DEF Administers


\* What a step of a verification or of an evaluation leaves of the policy and of the others,
\* and what it remembers of them.
LEMMA UsesEffect ==
  ASSUME TypeOK, UnderWay, NEW c \in Client, Uses(c)
  PROVE  /\ UNCHANGED <<tables, memory, admin, now, answered, overlapped>>
         /\ \A d \in Client \ {c} : client'[d] = client[d]
         /\ client'[c].step = "cosign" => client'[c].barred = answered /\ cached # 0
         /\ client'[c].step \in {"decide", "snapshot"} =>
              \/ client'[c].generation <= cached
              \/ client[c].step = "decide" /\ client'[c].generation = client[c].generation
         /\ \/ decision' = decision \/ decision'.snapshot = 0
            \/ client[c].step = "snapshot" /\ decision' = [judged |-> client[c].generation, snapshot |-> cached]
         /\ client[c].step = "cosign" /\ client'[c].step = "read" => EndVerification(c)
  <1> DEFINE Does == /\ \A d \in Client \ {c} : client'[d] = client[d]
                     /\ client'[c].step = "cosign" => client'[c].barred = answered /\ cached # 0
                     /\ client'[c].step \in {"decide", "snapshot"} =>
                          \/ client'[c].generation <= cached
                          \/ client[c].step = "decide" /\ client'[c].generation = client[c].generation
                     /\ \/ decision' = decision \/ decision'.snapshot = 0
                        \/ client[c].step = "snapshot" /\ decision' = [judged |-> client[c].generation, snapshot |-> cached]
                     /\ client[c].step = "cosign" /\ client'[c].step = "read" => EndVerification(c)
  <1> SUFFICES Does
    BY UsesTyped
  <1>0. /\ client \in [Client -> ClientRecord] /\ client[c] \in ClientRecord /\ cached \in Nat
        /\ Idle.step = "idle"
    BY IdleTyped, PolicyAssumption DEF TypeOK, PolicyAssumption
  <1>1. ASSUME NEW kind, NEW item, BeginVerification(c, kind, item) PROVE Does
    <2> DEFINE r == [Idle EXCEPT !.step = "cosign", !.kind = kind, !.item = item,
                       !.generation = IF kind = "signature" THEN cached ELSE 0, !.barred = answered]
    <2>1. r.step = "cosign" /\ r.barred = answered
      BY DEF Idle
    <2>2. client' = [client EXCEPT ![c] = r] /\ cached # 0 /\ decision' = decision /\ client[c] = Idle
      BY <1>1 DEF BeginVerification
    <2> HIDE DEF r
    <2> QED
      BY <1>0, <2>1, <2>2
  <1>2. CASE EndVerification(c) \/ CosignFails(c) \/ BeginEvaluation(c) \/ RecordFails(c)
    <2> DEFINE started == [Idle EXCEPT !.step = "read", !.kind = "evaluation"]
    <2>1. started.step = "read"
      BY DEF Idle
    <2>2. client' = [client EXCEPT ![c] = started] \/ client' = [client EXCEPT ![c] = Idle]
      BY <1>2 DEF EndVerification, CosignFails, BeginEvaluation, RecordFails
    <2>3. decision' = decision
      BY <1>2 DEF EndVerification, CosignFails, BeginEvaluation, RecordFails
    <2>4. CosignFails(c) \/ BeginEvaluation(c) \/ RecordFails(c) =>
            client[c].step # "cosign" \/ client' = [client EXCEPT ![c] = Idle]
      BY <1>0 DEF CosignFails, BeginEvaluation, RecordFails
    <2> HIDE DEF started
    <2>5. /\ \A d \in Client \ {c} : client'[d] = client[d]
          /\ client'[c].step \in {"read", "idle"}
          /\ client' = [client EXCEPT ![c] = Idle] => client'[c].step = "idle"
      BY <1>0, <2>1, <2>2
    <2> QED
      BY <1>2, <2>3, <2>4, <2>5
  <1>3. CASE ReadEvidence(c)
    BY <1>0, <1>3 DEF ReadEvidence, ClientRecord
  <1>4. CASE Judge(c)
    <2> DEFINE r(g) == [client[c] EXCEPT !.step = "decide", !.generation = g]
    <2>0. /\ r(0).step = "decide" /\ r(0).generation = 0
          /\ r(cached).step = "decide" /\ r(cached).generation = cached
      BY <1>0 DEF ClientRecord
    <2>1. \/ client' = [client EXCEPT ![c] = Idle]
          \/ client' = [client EXCEPT ![c] = r(cached)]
          \/ client' = [client EXCEPT ![c] = r(0)]
      BY <1>4 DEF Judge
    <2>2. client[c].step = "judge" /\ decision' = decision
      BY <1>4 DEF Judge
    <2> HIDE DEF r
    <2>3. /\ \A d \in Client \ {c} : client'[d] = client[d]
          /\ client'[c].step \in {"idle", "decide"}
          /\ client'[c].step = "decide" => client'[c].generation \in {0, cached}
      BY <1>0, <2>0, <2>1
    <2>4. 0 <= cached /\ cached <= cached
      BY <1>0
    <2> QED
      BY <2>2, <2>3, <2>4
  <1>5. CASE Decide(c)
    BY <1>0, <1>5 DEF Decide, ClientRecord
  <1>6. CASE Snapshot(c)
    BY <1>0, <1>6 DEF Snapshot
  <1> QED
    BY <1>1, <1>2, <1>3, <1>4, <1>5, <1>6 DEF Uses

\* The remaining steps: an edit of the file, a restart, the clock, and stuttering.
Rests == (\E content \in Content : EditFile(content)) \/ Tick \/ UNCHANGED vars

LEMMA RestsEffect ==
  ASSUME TypeOK, Rests
  PROVE  /\ UNCHANGED <<tables, memory, admin, judged, answered, overlapped>>
         /\ now' \in Nat /\ now \in Nat /\ now <= now'
  <1>1. now \in Nat
    BY PolicyAssumption DEF TypeOK, PolicyAssumption
  <1> QED
    BY <1>1 DEF Rests, EditFile, Tick, vars

LEMMA StepOrdered == ASSUME GenInv, UnderWay, Ordered, [Next]_vars PROVE Ordered'
  <1>0. /\ cached \in Nat /\ client \in [Client -> ClientRecord] /\ admin \in [Admin -> AdminRecord]
        /\ \A a \in Admin : admin[a].next \in Nat /\ \A c \in Client : client[c].generation \in Nat
        /\ decision.judged \in Nat /\ decision.snapshot \in Nat
    <2>1. /\ Len(generations) \in Nat /\ cached \in 0..Len(generations)
          /\ client \in [Client -> ClientRecord] /\ admin \in [Admin -> AdminRecord]
          /\ decision \in [judged : 0..MaxGeneration, snapshot : 0..MaxGeneration]
      BY DEF GenInv, TypeOK
    <2>2. \A g \in 0..MaxGeneration : g \in Nat
      OBVIOUS
    <2>3. \A a \in Admin : admin[a].next \in Nat
      BY <2>1, <2>2 DEF AdminRecord
    <2>4. \A c \in Client : client[c].generation \in Nat
      BY <2>1, <2>2 DEF ClientRecord
    <2>5. cached \in Nat /\ decision.judged \in Nat /\ decision.snapshot \in Nat
      BY <2>1, <2>2
    <2> QED
      BY <2>1, <2>3, <2>4, <2>5
  <1>1. ASSUME NEW a \in Admin, Administers(a) PROVE Ordered'
    <2>1. PICK r \in AdminRecord : Moves(a, r) /\ Effect(a, r) /\ UNCHANGED <<judged, now>>
      BY <1>1, AdministersEffect
    <2> SUFFICES ASSUME ~overlapped'
                 PROVE  /\ \A b \in Admin : admin'[b].step \in {"revocations", "install"} => cached' <= admin'[b].next
                        /\ \A c \in Client : client'[c].step \in {"decide", "snapshot"} => client'[c].generation <= cached'
                        /\ decision'.snapshot # 0 => decision'.judged <= decision'.snapshot
      BY DEF Ordered
    <2>2. /\ admin'[a] = r /\ \A b \in Admin \ {a} : admin'[b] = admin[b] /\ admin[b].step = "idle"
          /\ ~overlapped
      BY <2>1, Moved DEF GenInv
    <2>3. /\ \A b \in Admin : admin[b].step \in {"revocations", "install"} => cached <= admin[b].next
          /\ \A c \in Client : client[c].step \in {"decide", "snapshot"} => client[c].generation <= cached
          /\ decision.snapshot # 0 => decision.judged <= decision.snapshot
      BY <2>2 DEF Ordered
    <2>4. UNCHANGED <<client, decision>>
      BY <2>1 DEF judged
    <2>5. /\ cached' \in Nat /\ cached <= cached'
          /\ r.step \in {"revocations", "install"} => cached' <= r.next
      BY <1>0, <2>1, <2>3 DEF Effect, memory
    <2> QED
      BY <1>0, <2>2, <2>3, <2>4, <2>5
  <1>2. ASSUME NEW c \in Client, Uses(c) PROVE Ordered'
    <2>1. /\ UNCHANGED <<cached, admin, overlapped>>
          /\ \A d \in Client \ {c} : client'[d] = client[d]
          /\ client'[c].step \in {"decide", "snapshot"} =>
               \/ client'[c].generation <= cached
               \/ client[c].step = "decide" /\ client'[c].generation = client[c].generation
          /\ \/ decision' = decision \/ decision'.snapshot = 0
             \/ client[c].step = "snapshot" /\ decision' = [judged |-> client[c].generation, snapshot |-> cached]
      BY <1>2, UsesEffect DEF memory, GenInv
    <2> QED
      BY <1>0, <2>1 DEF Ordered
  <1>3. CASE Rests
    BY <1>3, RestsEffect DEF GenInv, Ordered, memory, judged
  <1>4. CASE Restart
    BY <1>4, RestingTyped, IdleTyped DEF GenInv, TypeOK, Restart, Ordered
  <1> QED
    BY <1>1, <1>2, <1>3, <1>4 DEF Next, Rests

LEMMA StepDated == ASSUME GenInv, UnderWay, Dated, [Next]_vars PROVE Dated'
  <1>0. /\ client \in [Client -> ClientRecord] /\ admin \in [Admin -> AdminRecord] /\ now \in Nat
        /\ revoked \in [Identity -> 0..Horizon] /\ answered \subseteq Identity
        /\ \A a \in Admin : admin[a].found \subseteq Identity
    BY PolicyAssumption DEF GenInv, TypeOK, AdminRecord, PolicyAssumption
  <1>1. ASSUME NEW a \in Admin, Administers(a) PROVE Dated'
    <2>1. PICK r \in AdminRecord : Moves(a, r) /\ Effect(a, r) /\ UNCHANGED <<judged, now>>
      BY <1>1, AdministersEffect
    <2>2. admin'[a] = r /\ \A b \in Admin \ {a} : admin'[b] = admin[b]
      BY <2>1, Moved DEF GenInv
    <2>3. \A who \in Identity : revoked[who] \in 1..now => revoked'[who] = revoked[who]
      BY <1>0, <2>1 DEF Effect
    <2>4. /\ \A who \in answered' : revoked[who] \in 1..now
          /\ r.step \in {"install", "assign"} => \A who \in r.found : revoked[who] \in 1..now
      BY <2>1 DEF Effect, Dated, Due
    <2>5. answered' \subseteq Identity /\ r.found \subseteq Identity
      BY <1>0, <2>1 DEF Effect, AdminRecord
    <2>6. \A who \in answered' : revoked'[who] \in 1..now'
      BY <2>1, <2>3, <2>4, <2>5
    <2>7. ASSUME NEW b \in Admin, admin'[b].step \in {"install", "assign"}, NEW who \in admin'[b].found
          PROVE  revoked'[who] \in 1..now'
      BY <1>0, <2>1, <2>2, <2>3, <2>4, <2>5, <2>7 DEF Dated
    <2>8. /\ cached # 0 => cached' # 0
          /\ r.step \in {"capture", "read", "assign"} => cached' # 0
      BY <1>0, <2>1 DEF Effect, Dated, memory, GenInv, NamesContent
    <2>9. \A b \in Admin : admin'[b].step \in {"capture", "read", "assign"} => cached' # 0
      BY <2>2, <2>8 DEF Dated
    <2>10. client' = client /\ answered \subseteq answered'
      BY <2>1 DEF judged, Effect
    <2>11. \A c \in Client : client'[c].step = "cosign" => client'[c].barred \subseteq answered' /\ cached' # 0
      BY <2>8, <2>10 DEF Dated
    <2> QED
      BY <2>6, <2>7, <2>9, <2>11 DEF Dated
  <1>2. ASSUME NEW c \in Client, Uses(c) PROVE Dated'
    <2>1. /\ UNCHANGED <<revoked, cached, admin, now, answered>>
          /\ \A d \in Client \ {c} : client'[d] = client[d]
          /\ client'[c].step = "cosign" => client'[c].barred = answered /\ cached # 0
      BY <1>2, UsesEffect DEF memory, tables, GenInv
    <2> QED
      BY <2>1 DEF Dated
  <1>3. CASE Rests
    <2>1. UNCHANGED <<revoked, cached, admin, client, answered>> /\ now' \in Nat /\ now <= now'
      BY <1>3, RestsEffect DEF memory, tables, judged, GenInv
    <2>2. \A n \in 1..now : n \in 1..now'
      BY <1>0, <2>1
    <2> QED
      BY <2>1, <2>2 DEF Dated
  <1>4. CASE Restart
    BY <1>4, RestingTyped, IdleTyped DEF GenInv, TypeOK, Restart, Dated, tables
  <1> QED
    BY <1>1, <1>2, <1>3, <1>4 DEF Next, Rests

LEMMA StepKnown == ASSUME GenInv, UnderWay, Dated, Known, [Next]_vars PROVE Known'
  <1>0. /\ admin \in [Admin -> AdminRecord] /\ answered \subseteq Identity /\ cached \in 0..MaxGeneration
        /\ loaded \in [1..MaxGeneration -> [revocations : SUBSET Identity, at : 0..Horizon]]
        /\ \A a \in Admin : admin[a].step = "install" => admin[a].next \in 1..MaxGeneration
    <2>1. MaxGeneration \in Nat /\ Len(generations) \in Nat /\ Len(generations) <= MaxGeneration
      BY PolicyAssumption DEF GenInv, TypeOK, PolicyAssumption
    <2> QED
      BY <2>1 DEF GenInv, TypeOK, NamesContent
  <1>1. ASSUME NEW a \in Admin, Administers(a) PROVE Known'
    <2>1. PICK r \in AdminRecord : Moves(a, r) /\ Effect(a, r) /\ UNCHANGED <<judged, now>>
      BY <1>1, AdministersEffect
    <2> SUFFICES ASSUME ~overlapped'
                 PROVE  /\ cached' # 0 => answered' \subseteq loaded'[cached'].revocations
                        /\ \A b \in Admin : /\ admin'[b].step \in {"install", "assign"} => answered' \subseteq admin'[b].found
                                            /\ admin'[b].step \in {"read", "assign"} => admin'[b].target = cached'
      BY DEF Known
    <2>2. /\ admin'[a] = r /\ \A b \in Admin \ {a} : admin'[b] = admin[b] /\ admin[b].step = "idle"
          /\ ~overlapped
      BY <2>1, Moved DEF GenInv
    <2>3. /\ cached # 0 => answered \subseteq loaded[cached].revocations
          /\ admin[a].step \in {"install", "assign"} => answered \subseteq admin[a].found
          /\ admin[a].step \in {"read", "assign"} => admin[a].target = cached
      BY <2>2 DEF Known
    <2>4. admin[a].step \in {"read", "assign"} => cached \in 1..MaxGeneration
      BY <1>0 DEF Dated
    <2>5. answered \subseteq Due
      BY <1>0 DEF Dated, Due
    <2>6. cached' # 0 => answered' \subseteq loaded'[cached'].revocations
      <3>1. CASE /\ admin[a].step = "install" /\ cached' = admin[a].next /\ answered' = answered
                 /\ loaded' = [loaded EXCEPT ![admin[a].next] = [revocations |-> admin[a].found, at |-> now]]
        BY <1>0, <2>3, <3>1
      <3>2. CASE /\ admin[a].step = "assign" /\ cached' = cached
                 /\ answered' = answered \cup (admin[a].who \cap admin[a].found)
                 /\ loaded' = [loaded EXCEPT ![admin[a].target].revocations = admin[a].found]
        <4>1. loaded'[cached].revocations = admin[a].found
          BY <1>0, <2>3, <2>4, <3>2
        <4> QED
          BY <2>3, <3>2, <4>1
      <3>3. CASE UNCHANGED <<memory, answered>>
        BY <2>3, <3>3 DEF memory
      <3> QED
        BY <2>1, <3>1, <3>2, <3>3 DEF Effect
    <2>7. /\ r.step \in {"install", "assign"} => answered' \subseteq r.found
          /\ r.step \in {"read", "assign"} => r.target = cached'
      BY <2>1, <2>3, <2>5 DEF Effect, memory
    <2> QED
      BY <2>2, <2>6, <2>7
  <1>2. ASSUME NEW c \in Client, Uses(c) PROVE Known'
    BY <1>2, UsesEffect DEF Known, memory, GenInv
  <1>3. CASE Rests
    BY <1>3, RestsEffect DEF Known, memory, GenInv
  <1>4. CASE Restart
    BY <1>4, RestingTyped DEF GenInv, TypeOK, Restart, Known
  <1> QED
    BY <1>1, <1>2, <1>3, <1>4 DEF Next, Rests

LEMMA OrderInvariant == Spec => [](Ordered /\ Dated /\ Known)
  <1> DEFINE All == GenInv /\ UnderWay /\ Ordered /\ Dated /\ Known
  <1>1. Init => All
    <2> SUFFICES ASSUME Init PROVE All
      OBVIOUS
    <2>1. GenInv /\ UnderWay
      BY InitGenInv, IdleTyped DEF Init, UnderWay
    <2>2. /\ \A a \in Admin : admin[a].step = "idle"
          /\ \A c \in Client : client[c].step = "idle"
      BY RestingTyped, IdleTyped DEF Init
    <2> QED
      BY <2>1, <2>2 DEF Init, Ordered, Dated, Known
  <1>2. All /\ [Next]_vars => All'
    BY StepGenInv, StepUnderWay, StepOrdered, StepDated, StepKnown DEF GenInv
  <1> QED
    BY <1>1, <1>2, PTL DEF Spec

\* As long as reloads and revocations come one after the other, the snapshot of a decision
\* names no policy loaded before the decision's and, within one policyId, no lower number
\* (snapshotService.js:47, trustPolicyLoader.js:284).
THEOREM SnapshotsNotOlder == Spec => []SnapshotNotOlder
  <1>1. TypeOK /\ Ordered => SnapshotNotOlder
    <2> SUFFICES ASSUME TypeOK, Ordered, ~overlapped, decision.snapshot # 0
                 PROVE  /\ decision.judged <= decision.snapshot
                        /\ PolicyId(decision.judged) = PolicyId(decision.snapshot) =>
                             Number(decision.judged) <= Number(decision.snapshot)
      BY DEF SnapshotNotOlder
    <2>1. decision.judged \in Nat /\ decision.snapshot \in Nat /\ decision.judged <= decision.snapshot
      BY PolicyAssumption DEF TypeOK, Ordered, PolicyAssumption
    <2> QED
      BY <2>1, NumbersRise
  <1> QED
    BY <1>1, GenInvariant, OrderInvariant, PTL DEF GenInv

\* A verification that is accepted does not speak for a revoked identity at or after the
\* time of its revocation, if the policy in force holds that revocation.
LEMMA AcceptedIsUnrevoked ==
  ASSUME GenInv, UnderWay, NEW c \in Client, EndVerification(c), client'[c].step = "read",
         NEW who \in Speakers(c), who \in loaded[cached].revocations, revoked[who] \in Nat
  PROVE  ClaimedAt(c) < revoked[who]
  <1> DEFINE item == client[c].item
             g    == client[c].generation
  <1>1. now \in Nat /\ client \in [Client -> ClientRecord] /\ Idle.step = "idle" /\ client[c].step = "cosign"
    BY IdleTyped, PolicyAssumption DEF GenInv, TypeOK, PolicyAssumption, EndVerification
  <1>2. CASE client[c].kind = "signature"
    <2>1. item \in Signature /\ g \in 1..Len(generations)
      BY <1>1, <1>2 DEF UnderWay
    <2>2. SignatureValid(g, Signed[item])
      BY <1>1, <1>2 DEF EndVerification
    <2>3. PICK speaker \in Signers(Document[generations[g]], Signed[item]) :
            ~IsRevoked(speaker, IF Signed[item].signedAt = 0 THEN now ELSE Signed[item].signedAt)
      BY <2>2 DEF SignatureValid
    <2>4. who \in Signers(Document[generations[g]], Signed[item])
      BY <1>2 DEF Speakers
    <2>5. \A x, y \in DOMAIN Document[generations[g]].signers :
            Document[generations[g]].signers[x] = Document[generations[g]].signers[y] => x = y
      <3>1. Acceptable(Document[generations[g]])
        BY <2>1 DEF GenInv, AcceptableOnly
      <3> QED
        BY <3>1 DEF Acceptable, IsInjective
    <2>6. who = speaker
      BY <2>3, <2>4, <2>5 DEF Signers
    <2>7. Signed[item].signedAt \in Nat
      BY <2>1, PolicyAssumption DEF PolicyAssumption
    <2>8. ClaimedAt(c) = IF Signed[item].signedAt = 0 THEN now ELSE Signed[item].signedAt
      BY <1>2 DEF ClaimedAt
    <2> QED
      BY <1>1, <2>3, <2>6, <2>7, <2>8 DEF IsRevoked
  <1>3. CASE client[c].kind # "signature"
    <2>1. item \in Attestation /\ client[c].kind = "provenance"
      BY <1>1, <1>3 DEF UnderWay
    <2>2. ProvenanceValid(Attested[item])
      BY <1>1, <1>3 DEF EndVerification
    <2>3. ~IsRevoked(Attested[item].builder, IF Attested[item].finished = 0 THEN now ELSE Attested[item].finished)
      BY <2>2 DEF ProvenanceValid, PolicyAllows
    <2>4. who = Attested[item].builder
      BY <1>3 DEF Speakers
    <2>5. Attested[item].finished \in Nat
      BY <2>1, PolicyAssumption DEF PolicyAssumption
    <2>6. ClaimedAt(c) = IF Attested[item].finished = 0 THEN now ELSE Attested[item].finished
      BY <1>3 DEF ClaimedAt
    <2> QED
      BY <1>1, <2>3, <2>4, <2>5, <2>6 DEF IsRevoked
  <1> QED
    BY <1>2, <1>3

\* Once a due revocation has been answered, no later verification accepts what the identity
\* claims to have given at or after it, as long as administration requests come one after
\* the other (trustPolicyLoader.js:255-350, cosignEngine.js:185, provenanceEngine.js:167).
THEOREM RevocationsRefuse == Spec => PostRevocationRefused
  <1> DEFINE Refused ==
        ~overlapped => \A c \in Client :
          client[c].step = "cosign" /\ client'[c].step = "read" =>
            \A who \in client[c].barred \cap Speakers(c) : ClaimedAt(c) < revoked[who]
  <1>1. GenInv /\ UnderWay /\ Dated /\ Known /\ [Next]_vars => Refused
    <2> SUFFICES ASSUME GenInv, UnderWay, Dated, Known, [Next]_vars, ~overlapped, NEW c \in Client,
                        client[c].step = "cosign", client'[c].step = "read",
                        NEW who \in client[c].barred \cap Speakers(c)
                 PROVE  ClaimedAt(c) < revoked[who]
      OBVIOUS
    <2>1. /\ cached # 0 /\ who \in answered /\ revoked[who] \in Nat
          /\ who \in loaded[cached].revocations
      BY PolicyAssumption DEF Dated, Known, GenInv, TypeOK, PolicyAssumption
    <2>2. EndVerification(c)
      <3>1. ASSUME NEW d \in Client, Uses(d) PROVE EndVerification(c)
        BY <3>1, UsesEffect DEF GenInv
      <3>2. ASSUME NEW a \in Admin, Administers(a) PROVE client' = client
        BY <3>2, AdministersEffect DEF judged
      <3>3. ASSUME Rests PROVE client' = client
        BY <3>3, RestsEffect DEF judged, GenInv
      <3>4. ~Restart
        BY IdleTyped DEF Restart
      <3> QED
        BY <3>1, <3>2, <3>3, <3>4 DEF Next, Rests
    <2> QED
      BY <2>1, <2>2, AcceptedIsUnrevoked
  <1>2. GenInv /\ UnderWay /\ Dated /\ Known /\ [Next]_vars => [Refused]_vars
    BY <1>1
  <1> QED
    BY <1>2, GenInvariant, OrderInvariant, PTL DEF Spec, PostRevocationRefused
=============================================================================
