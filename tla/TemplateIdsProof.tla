-------------------------- MODULE TemplateIdsProof --------------------------
(***************************************************************************)
(* Proofs about the reservation of template ids, for any receivers, any    *)
(* size of domain and block, and any number of starts and faults.          *)
(*                                                                         *)
(* That two templates never share an id rests on two different things.     *)
(* While nobody tampers with the high-water, whatever a receiver holds or  *)
(* has issued is at or below it, and what is reserved next is above        *)
(* (SharedInv).  A receiver alone needs no high-water for that: its marker *)
(* covers what it exposed, and it seats above its marker (AloneInv).  Till *)
(* it has one it goes by the high-water, and a start that could not notice *)
(* a rollback is the exception that OneTemplatePerId names.                *)
(***************************************************************************)
EXTENDS TemplateIds, WellFoundedInduction, TLAPS

Pcs == {"down", "decided", "scanned", "fill1", "fill2", "filled", "replay", "refilling",
        "sealing", "removed", "running", "stopping"}

\* A start that has not been seated, and one whose root may lack its marker.
Early == {"down", "decided", "scanned"}
Starting == Pcs \ {"down", "running", "stopping"}

EntryType == [id : 1..MaxId, by : Receiver, inc : Nat]
BlockType == [after : 0..MaxId, through : 1..MaxId]
OpType == [st : {"none", "read", "landed"}, prior : 0..MaxId, after : 0..MaxId, through : 0..MaxId]

TypesInv ==
    /\ site \in Sites /\ hw \in Mark /\ marker \in [Receiver -> Mark] /\ data \subseteq EntryType
    /\ old \in 0..MaxId /\ snap \in [Receiver -> SUBSET EntryType]
    /\ pc \in [Receiver -> Pcs] /\ trust \in [Receiver -> {"none", "Seated", "Bootstrap", "PredatesHighWater"}]
    /\ seen \in [Receiver -> Mark] /\ ids \in [Receiver -> SUBSET EntryType]
    /\ next \in [Receiver -> 1..(MaxId + 1)] /\ end \in [Receiver -> 1..(MaxId + 1)]
    /\ ready \in [Receiver -> Seq(BlockType)] /\ highest \in [Receiver -> 0..MaxId]
    /\ ledger \in [Receiver -> BOOLEAN] /\ refiller \in [Receiver -> {"off", "idle", "filling", "stopped"}]
    /\ op \in [Receiver -> OpType] /\ ghost \in [Receiver -> OpType]
    /\ starts \in [Receiver -> Nat] /\ tampers \in 0..MaxTampers /\ blind \in BOOLEAN

\* The blocks of a receiver are above what it issued, in order, and below what
\* it has seen reserved.
BlocksInv(r) ==
    /\ pc[r] \in Early => end[r] = 1 /\ ready[r] = <<>>
    /\ pc[r] \notin Early => next[r] <= highest[r] + 1
    /\ end[r] = 1 \/ (end[r] <= highest[r] + 1 /\ next[r] <= end[r])
    /\ \A e \in ids[r] : e.id < next[r]
    /\ \A k \in DOMAIN ready[r] :
          /\ ready[r][k].after < ready[r][k].through /\ ready[r][k].through <= highest[r]
          /\ next[r] <= ready[r][k].after + 1 /\ end[r] <= ready[r][k].after + 1
          /\ \A j \in DOMAIN ready[r] : j < k => ready[r][j].through <= ready[r][k].after
    /\ Len(ready[r]) <= ReadyBlocks

Reservation(o) == o.prior <= o.after /\ o.after < o.through

OpInv(r) ==
    /\ op[r].st = "none" => op[r] = NoOp
    /\ op[r].st # "none" =>
          /\ Reservation(op[r]) /\ highest[r] <= op[r].after /\ Len(ready[r]) < ReadyBlocks
          /\ Filling(r) \/ Stopped(r)
    /\ ghost[r] # NoOp => Conditional /\ Reservation(ghost[r])
    /\ refiller[r] = "off" <=> pc[r] \notin {"sealing", "removed", "running", "stopping"}

\* What a start has decided, and what its root holds.
StartInv(r) ==
    /\ pc[r] # "down" \/ marker[r] # Absent \/ ghost[r] # NoOp => r \in site.receivers
    /\ pc[r] = "decided" => seen[r] = marker[r]
    /\ pc[r] = "scanned" => trust[r] = "Bootstrap" /\ next[r] <= seen[r] + 1
    /\ pc[r] = "decided" => next[r] = 1 \/ \E e \in ids[r] : e.id = next[r] - 1
    /\ pc[r] \in {"decided", "scanned"} => ids[r] = (IF trust[r] = "PredatesHighWater" THEN {} ELSE snap[r])
    /\ pc[r] \in Starting =>
          /\ trust[r] # "none"
          /\ trust[r] = "Seated" => marker[r] # Absent
          /\ trust[r] # "Seated" => marker[r] = Absent /\ ~ ledger[r]
          /\ trust[r] = "Bootstrap" => snap[r] \subseteq ids[r]
    /\ pc[r] \in Early \cup {"fill1", "fill2", "filled"} => ~ ledger[r]
    /\ pc[r] \in {"replay", "refilling", "sealing", "removed"} /\ trust[r] = "Seated" => ledger[r]
    /\ pc[r] = "removed" /\ trust[r] = "PredatesHighWater" => snap[r] = {}
    /\ pc[r] \in {"running", "stopping"} => ledger[r]
    /\ ledger[r] => highest[r] <= marker[r]
    /\ marker[r] = Absent => \A e \in snap[r] : e.by = r /\ e.inc = 0

\* The templates that are, or may come to be, exposed.
Known == data \cup (UNION {ids[r] : r \in {s \in Receiver : pc[s] \notin Early}})
              \cup (UNION {snap[r] : r \in {s \in Receiver : marker[s] # Absent}})
Unique(E) == \A e, f \in E : e.id = f.id => e = f

\* The ids that are a receiver's to issue.
Own(r) == Held(r) \cup {i \in Id : op[r].st = "landed" /\ op[r].after < i /\ i <= op[r].through}

\* As long as nobody tampers with it, the high-water covers everything.
HighWaterCovers ==
    /\ hw = Absent => data = {} /\ \A r \in Receiver : pc[r] \in Early /\ marker[r] = Absent /\ ghost[r] = NoOp
    /\ Unique(Known) /\ \A e \in Known : e.id <= hw
    /\ \A r \in Receiver : pc[r] \notin Early => highest[r] <= hw
    /\ \A r \in Receiver : \A i \in Own(r) : i <= hw /\ \A e \in Known : e.id # i
    /\ \A r, s \in Receiver : r # s => Own(r) \cap Own(s) = {}
    /\ ~ Conditional => \A r \in Receiver : op[r].st = "read" => op[r].prior = hw
SharedInv == tampers = 0 => HighWaterCovers

\* A receiver alone has its own marker and counter to go by, and until it has a
\* marker the high-water, unless that was rolled back before it could notice.
MarkerCovers(r) ==
    ~ blind =>
      /\ Unique(Known \cup snap[r])
      /\ pc[r] \notin Early => \A e \in Known \cup snap[r] : e.id < next[r]
      /\ marker[r] # Absent => \A e \in data \cup snap[r] : e.id <= marker[r]
      /\ pc[r] = "scanned" => \A e \in data : e.id <= seen[r]
      /\ tampers = 0 /\ hw # Absent => \A e \in snap[r] : e.id <= hw
AloneInv == \A r \in Receiver : site.receivers = {r} => MarkerCovers(r)

Local(r) == BlocksInv(r) /\ OpInv(r) /\ StartInv(r)

TemplateInv == TypesInv /\ (\A r \in Receiver : Local(r)) /\ SharedInv /\ AloneInv
-----------------------------------------------------------------------------
(* Numbers.                                                                *)

LEMMA LeastExists ==
    ASSUME NEW S \in SUBSET Nat, S # {}
    PROVE  Min(S) \in S /\ \A y \in S : Min(S) <= y
<1>1. \E x \in S : \A y \in S : x <= y
  <2>1. PICK x \in S : \A y \in S : ~ (<<y, x>> \in OpToRel(<, Nat))
    BY NatLessThanWellFounded, WFMin
  <2>2. ASSUME NEW y \in S PROVE x <= y
    <3>1. ~ (<<y, x>> \in {p \in Nat \X Nat : p[1] < p[2]})
      BY <2>1, Zenon DEF OpToRel
    <3>2. <<y, x>> \in Nat \X Nat /\ <<y, x>>[1] = y /\ <<y, x>>[2] = x
      OBVIOUS
    <3>3. ~ (y < x)
      BY <3>1, <3>2
    <3> QED
      BY <3>3
  <2> QED
    BY <2>2
<1> QED
  BY <1>1 DEF Min

LEMMA GreatestExists ==
    ASSUME NEW N \in Nat, NEW S \in SUBSET (0..N), S # {}
    PROVE  Max(S) \in S /\ \A y \in S : y <= Max(S)
<1> DEFINE B == {n \in Nat : \A y \in S : y <= n}
<1>1. N \in B /\ B \in SUBSET Nat
  OBVIOUS
<1>2. PICK m \in B : \A n \in B : m <= n
  BY <1>1, LeastExists
<1>3. m \in S
  <2>1. SUFFICES ASSUME m \notin S PROVE FALSE
    OBVIOUS
  <2>2. \A y \in S : y \in Nat /\ y <= m - 1
    BY <1>2, <2>1
  <2>3. m - 1 \in Nat
    <3>1. PICK y : y \in S
      OBVIOUS
    <3>2. y \in Nat /\ y <= m - 1 /\ m \in Nat
      BY <1>2, <2>2, <3>1
    <3> QED
      BY <3>2
  <2>4. m - 1 \in B
    BY <2>2, <2>3
  <2> QED
    BY <1>2, <2>4
<1>4. \E x \in S : \A y \in S : x >= y
  BY <1>2, <1>3
<1>5. Max(S) \in S /\ \A y \in S : Max(S) >= y
  BY <1>4 DEF Max
<1> QED
  BY <1>5

LEMMA MaxOfTwo ==
    ASSUME NEW a \in Int, NEW b \in Int
    PROVE  Max({a, b}) = (IF a >= b THEN a ELSE b)
<1>1. \E x \in {a, b} : \A y \in {a, b} : x >= y
  OBVIOUS
<1>2. Max({a, b}) \in {a, b} /\ \A y \in {a, b} : Max({a, b}) >= y
  BY <1>1 DEF Max
<1> QED
  BY <1>2

LEMMA MinOfTwo ==
    ASSUME NEW a \in Int, NEW b \in Int
    PROVE  Min({a, b}) = (IF a <= b THEN a ELSE b)
<1>1. \E x \in {a, b} : \A y \in {a, b} : x <= y
  OBVIOUS
<1>2. Min({a, b}) \in {a, b} /\ \A y \in {a, b} : Min({a, b}) <= y
  BY <1>1 DEF Min
<1> QED
  BY <1>2

LEMMA TopBounds ==
    ASSUME NEW N \in Nat, NEW S \in SUBSET (1..N)
    PROVE  Top(S) \in 0..N /\ Top(S) \in {0} \cup S /\ \A y \in S : y <= Top(S)
<1>1. {0} \cup S \in SUBSET (0..N) /\ {0} \cup S # {}
  OBVIOUS
<1> QED
  BY <1>1, GreatestExists DEF Top

LEMMA SiteNumbers ==
    ASSUME site \in Sites
    PROVE  /\ MaxId \in Nat /\ MaxId > 0 /\ Block \in Nat /\ Block > 0 /\ ReadyBlocks \in Nat /\ ReadyBlocks > 0
           /\ Legacy \subseteq 1..MaxId /\ site.receivers \subseteq Receiver /\ MaxTampers \in Nat
           /\ (Conditional /\ MaxTampers = 0) \/ \E r \in Receiver : site.receivers = {r}
BY TemplateIdsAssumption DEF MaxId, Block, ReadyBlocks, Legacy, MaxTampers, Conditional

\* The types a proof step needs of one receiver.
LEMMA Typed ==
    ASSUME TypesInv, NEW r \in Receiver
    PROVE  /\ MaxId \in Nat /\ MaxId > 0 /\ ReadyBlocks \in Nat /\ ReadyBlocks > 0
           /\ hw \in Int /\ hw >= -1 /\ hw <= MaxId /\ (hw # Absent <=> hw >= 0)
           /\ marker[r] \in Int /\ marker[r] >= -1 /\ marker[r] <= MaxId /\ (marker[r] # Absent <=> marker[r] >= 0)
           /\ seen[r] \in Int /\ seen[r] >= -1 /\ seen[r] <= MaxId
           /\ next[r] \in Nat /\ next[r] >= 1 /\ next[r] <= MaxId + 1
           /\ end[r] \in Nat /\ end[r] >= 1 /\ end[r] <= MaxId + 1
           /\ highest[r] \in Nat /\ highest[r] <= MaxId
           /\ ready[r] \in Seq(BlockType) /\ Len(ready[r]) \in Nat
           /\ ids[r] \subseteq EntryType /\ snap[r] \subseteq EntryType /\ op[r] \in OpType /\ ghost[r] \in OpType
           /\ starts[r] \in Nat
<1>1. site \in Sites
  BY DEF TypesInv
<1>2. MaxId \in Nat /\ MaxId > 0 /\ ReadyBlocks \in Nat /\ ReadyBlocks > 0
  BY <1>1, SiteNumbers
<1>3. hw \in Mark /\ marker[r] \in Mark /\ seen[r] \in Mark
  BY DEF TypesInv
<1>4. next[r] \in 1..(MaxId + 1) /\ end[r] \in 1..(MaxId + 1) /\ highest[r] \in 0..MaxId
  BY DEF TypesInv
<1>5. /\ ready[r] \in Seq(BlockType) /\ ids[r] \subseteq EntryType /\ snap[r] \subseteq EntryType
      /\ op[r] \in OpType /\ ghost[r] \in OpType /\ starts[r] \in Nat
  BY DEF TypesInv
<1>6. Len(ready[r]) \in Nat
  BY <1>5
<1> QED
  BY <1>2, <1>3, <1>4, <1>5, <1>6 DEF Mark, Absent

LEMMA BlockNumbers ==
    ASSUME TypesInv, NEW q \in BlockType
    PROVE  q.after \in Int /\ q.after >= 0 /\ q.after <= MaxId /\ q.through \in Int /\ q.through >= 1 /\ q.through <= MaxId
<1>1. MaxId \in Nat
  BY SiteNumbers DEF TypesInv
<1> QED
  BY <1>1 DEF BlockType
-----------------------------------------------------------------------------
(* One receiver moves; the rest stay as they are.                          *)

Only(r) ==
    /\ pc' = [pc EXCEPT ![r] = pc'[r]] /\ trust' = [trust EXCEPT ![r] = trust'[r]]
    /\ seen' = [seen EXCEPT ![r] = seen'[r]] /\ ids' = [ids EXCEPT ![r] = ids'[r]]
    /\ next' = [next EXCEPT ![r] = next'[r]] /\ end' = [end EXCEPT ![r] = end'[r]]
    /\ ready' = [ready EXCEPT ![r] = ready'[r]] /\ highest' = [highest EXCEPT ![r] = highest'[r]]
    /\ ledger' = [ledger EXCEPT ![r] = ledger'[r]] /\ refiller' = [refiller EXCEPT ![r] = refiller'[r]]
    /\ op' = [op EXCEPT ![r] = op'[r]] /\ ghost' = [ghost EXCEPT ![r] = ghost'[r]]
    /\ marker' = [marker EXCEPT ![r] = marker'[r]] /\ snap' = [snap EXCEPT ![r] = snap'[r]]
    /\ starts' = [starts EXCEPT ![r] = starts'[r]]
    /\ site' = site /\ old' = old /\ blind' \in BOOLEAN /\ (~ blind' => ~ blind)

Keeps(r) == \A s \in Receiver : s # r =>
    /\ pc'[s] = pc[s] /\ trust'[s] = trust[s] /\ seen'[s] = seen[s] /\ ids'[s] = ids[s]
    /\ next'[s] = next[s] /\ end'[s] = end[s] /\ ready'[s] = ready[s] /\ highest'[s] = highest[s]
    /\ ledger'[s] = ledger[s] /\ refiller'[s] = refiller[s] /\ op'[s] = op[s] /\ ghost'[s] = ghost[s]
    /\ marker'[s] = marker[s] /\ snap'[s] = snap[s] /\ starts'[s] = starts[s]

SameSite ==
    /\ MaxId' = MaxId /\ Block' = Block /\ ReadyBlocks' = ReadyBlocks /\ Conditional' = Conditional
    /\ MaxTampers' = MaxTampers /\ Id' = Id /\ Mark' = Mark /\ EntryType' = EntryType
    /\ BlockType' = BlockType /\ OpType' = OpType

LEMMA SiteStays ==
    ASSUME site' = site
    PROVE  SameSite
BY DEF SameSite, MaxId, Block, ReadyBlocks, Conditional, MaxTampers, Id, Mark, EntryType, BlockType, OpType

LEMMA OnlyKeeps ==
    ASSUME TypesInv, NEW r \in Receiver, Only(r)
    PROVE  Keeps(r) /\ SameSite
<1>1. SameSite
  BY SiteStays DEF Only
<1>2. Keeps(r)
  BY DEF TypesInv, Only, Keeps
<1> QED
  BY <1>1, <1>2

\* What the new values of one receiver must be for the types to stay.
LEMMA TypesFrom ==
    ASSUME TypesInv, NEW r \in Receiver, Only(r),
           hw' \in Mark, data' \subseteq EntryType, tampers' \in 0..MaxTampers,
           marker'[r] \in Mark, snap'[r] \subseteq EntryType,
           pc'[r] \in Pcs, trust'[r] \in {"none", "Seated", "Bootstrap", "PredatesHighWater"},
           seen'[r] \in Mark, ids'[r] \subseteq EntryType, next'[r] \in 1..(MaxId + 1), end'[r] \in 1..(MaxId + 1),
           ready'[r] \in Seq(BlockType), highest'[r] \in 0..MaxId, ledger'[r] \in BOOLEAN,
           refiller'[r] \in {"off", "idle", "filling", "stopped"}, op'[r] \in OpType, ghost'[r] \in OpType,
           starts'[r] \in Nat
    PROVE  TypesInv'
<1>1. SameSite
  BY OnlyKeeps
<1>2. site' \in Sites /\ old' \in 0..MaxId /\ hw' \in Mark /\ blind' \in BOOLEAN
  BY DEF TypesInv, Only
<1>3. marker' \in [Receiver -> Mark] /\ snap' \in [Receiver -> SUBSET EntryType] /\ seen' \in [Receiver -> Mark]
  BY DEF TypesInv, Only
<1>4. pc' \in [Receiver -> Pcs] /\ trust' \in [Receiver -> {"none", "Seated", "Bootstrap", "PredatesHighWater"}]
  BY DEF TypesInv, Only
<1>5. ids' \in [Receiver -> SUBSET EntryType] /\ next' \in [Receiver -> 1..(MaxId + 1)] /\ end' \in [Receiver -> 1..(MaxId + 1)]
  BY DEF TypesInv, Only
<1>6. ready' \in [Receiver -> Seq(BlockType)] /\ highest' \in [Receiver -> 0..MaxId] /\ ledger' \in [Receiver -> BOOLEAN]
  BY DEF TypesInv, Only
<1>7. refiller' \in [Receiver -> {"off", "idle", "filling", "stopped"}] /\ op' \in [Receiver -> OpType]
      /\ ghost' \in [Receiver -> OpType] /\ starts' \in [Receiver -> Nat]
  BY DEF TypesInv, Only
<1> QED
  BY <1>1, <1>2, <1>3, <1>4, <1>5, <1>6, <1>7 DEF TypesInv, SameSite

LEMMA OthersKeep ==
    ASSUME TypesInv, NEW r \in Receiver, Only(r), NEW s \in Receiver, s # r,
           BlocksInv(s), OpInv(s), StartInv(s)
    PROVE  BlocksInv(s)' /\ OpInv(s)' /\ StartInv(s)'
<1>1. SameSite /\ site' = site
  BY OnlyKeeps DEF Only
<1>2. /\ pc'[s] = pc[s] /\ trust'[s] = trust[s] /\ seen'[s] = seen[s] /\ ids'[s] = ids[s]
      /\ next'[s] = next[s] /\ end'[s] = end[s] /\ ready'[s] = ready[s] /\ highest'[s] = highest[s]
      /\ ledger'[s] = ledger[s] /\ refiller'[s] = refiller[s] /\ op'[s] = op[s] /\ ghost'[s] = ghost[s]
      /\ marker'[s] = marker[s] /\ snap'[s] = snap[s] /\ starts'[s] = starts[s]
  BY OnlyKeeps DEF Keeps
<1>3. BlocksInv(s)'
  BY <1>1, <1>2 DEF BlocksInv, SameSite
<1>4. OpInv(s)'
  BY <1>1, <1>2 DEF OpInv, SameSite, Reservation, Filling, Stopped
<1>5. StartInv(s)'
  BY <1>1, <1>2 DEF StartInv
<1> QED
  BY <1>3, <1>4, <1>5

LEMMA OnlyEnds ==
    ASSUME TypesInv, NEW r \in Receiver, Ends(r)
    PROVE  /\ pc' = [pc EXCEPT ![r] = pc'[r]] /\ trust' = [trust EXCEPT ![r] = trust'[r]]
           /\ seen' = [seen EXCEPT ![r] = seen'[r]] /\ ids' = [ids EXCEPT ![r] = ids'[r]]
           /\ next' = [next EXCEPT ![r] = next'[r]] /\ end' = [end EXCEPT ![r] = end'[r]]
           /\ ready' = [ready EXCEPT ![r] = ready'[r]] /\ highest' = [highest EXCEPT ![r] = highest'[r]]
           /\ ledger' = [ledger EXCEPT ![r] = ledger'[r]] /\ refiller' = [refiller EXCEPT ![r] = refiller'[r]]
           /\ op' = [op EXCEPT ![r] = op'[r]]
           /\ pc'[r] = "down" /\ trust'[r] = "none" /\ seen'[r] = 0 /\ ids'[r] = {} /\ next'[r] = 1 /\ end'[r] = 1
           /\ ready'[r] = <<>> /\ highest'[r] = 0 /\ ledger'[r] = FALSE /\ refiller'[r] = "off" /\ op'[r] = NoOp
BY DEF TypesInv, Ends, Goes

LEMMA Stays ==
    ASSUME NEW S, NEW f \in [Receiver -> S], NEW r \in Receiver
    PROVE  f = [f EXCEPT ![r] = f[r]]
OBVIOUS
-----------------------------------------------------------------------------
(* What a step of one receiver must do for the shared part to hold on.     *)

LEMMA Assemble ==
    ASSUME TemplateInv, NEW r \in Receiver, Only(r), TypesInv', BlocksInv(r)', OpInv(r)', StartInv(r)',
           SharedInv', AloneInv'
    PROVE  TemplateInv'
<1>1. ASSUME NEW s \in Receiver PROVE Local(s)'
  <2>1. CASE s = r
    BY <2>1 DEF Local
  <2>2. CASE s # r
    BY <2>2, OthersKeep DEF TemplateInv, Local
  <2> QED
    BY <2>1, <2>2
<1> QED
  BY <1>1 DEF TemplateInv

\* A step that brings no template that was not known.
NothingNew(r) ==
    /\ data' \subseteq Known
    /\ pc'[r] \notin Early => ids'[r] \subseteq Known
    /\ marker'[r] # Absent => snap'[r] \subseteq Known

LEMMA KnownIs ==
    ASSUME NEW e
    PROVE  /\ e \in Known <=> \/ e \in data
                              \/ \E s \in Receiver : pc[s] \notin Early /\ e \in ids[s]
                              \/ \E s \in Receiver : marker[s] # Absent /\ e \in snap[s]
           /\ e \in Known' <=> \/ e \in data'
                               \/ \E s \in Receiver : pc'[s] \notin Early /\ e \in ids'[s]
                               \/ \E s \in Receiver : marker'[s] # Absent /\ e \in snap'[s]
<1>1. e \in Known <=> \/ e \in data
                      \/ \E s \in Receiver : pc[s] \notin Early /\ e \in ids[s]
                      \/ \E s \in Receiver : marker[s] # Absent /\ e \in snap[s]
  BY DEF Known
<1>2. e \in Known' <=> \/ e \in data'
                       \/ \E s \in Receiver : pc'[s] \notin Early /\ e \in ids'[s]
                       \/ \E s \in Receiver : marker'[s] # Absent /\ e \in snap'[s]
  BY DEF Known
<1> QED
  BY <1>1, <1>2

LEMMA KnownGrows ==
    ASSUME TypesInv, NEW r \in Receiver, Only(r), NEW X,
           data' \subseteq Known \cup X,
           pc'[r] \notin Early => ids'[r] \subseteq Known \cup X,
           marker'[r] # Absent => snap'[r] \subseteq Known \cup X
    PROVE  Known' \subseteq Known \cup X
<1> SUFFICES ASSUME NEW e \in Known' PROVE e \in Known \cup X
  OBVIOUS
<1>1. Keeps(r)
  BY OnlyKeeps
<1>2. CASE e \in data'
  BY <1>2
<1>3. CASE \E s \in Receiver : pc'[s] \notin Early /\ e \in ids'[s]
  <2>1. PICK s \in Receiver : pc'[s] \notin Early /\ e \in ids'[s]
    BY <1>3
  <2>2. CASE s = r
    BY <2>1, <2>2
  <2>3. CASE s # r
    <3>1. pc[s] \notin Early /\ e \in ids[s]
      BY <1>1, <2>1, <2>3 DEF Keeps
    <3> QED
      BY <3>1, KnownIs
  <2> QED
    BY <2>2, <2>3
<1>4. CASE \E s \in Receiver : marker'[s] # Absent /\ e \in snap'[s]
  <2>1. PICK s \in Receiver : marker'[s] # Absent /\ e \in snap'[s]
    BY <1>4
  <2>2. CASE s = r
    BY <2>1, <2>2
  <2>3. CASE s # r
    <3>1. marker[s] # Absent /\ e \in snap[s]
      BY <1>1, <2>1, <2>3 DEF Keeps
    <3> QED
      BY <3>1, KnownIs
  <2> QED
    BY <2>2, <2>3
<1> QED
  BY <1>2, <1>3, <1>4, KnownIs

LEMMA KnownShrinks ==
    ASSUME TypesInv, NEW r \in Receiver, Only(r), NothingNew(r)
    PROVE  Known' \subseteq Known
<1>1. Known' \subseteq Known \cup {}
  BY KnownGrows DEF NothingNew
<1> QED
  BY <1>1

\* A receiver alone knows what it holds and what was published.
LEMMA KnownAlone ==
    ASSUME TypesInv, \A s \in Receiver : Local(s), NEW r \in Receiver, site.receivers = {r}, NEW e \in Known
    PROVE  e \in data \/ (pc[r] \notin Early /\ e \in ids[r]) \/ (marker[r] # Absent /\ e \in snap[r])
<1>1. ASSUME NEW s \in Receiver, s # r PROVE pc[s] \in Early /\ marker[s] = Absent
  BY <1>1 DEF Local, StartInv, Early
<1> QED
  BY <1>1, KnownIs

LEMMA OwnStays ==
    ASSUME TypesInv, NEW r \in Receiver, Only(r), NEW s \in Receiver, s # r
    PROVE  Own(s)' = Own(s)
<1>1. SameSite
  BY OnlyKeeps
<1>2. next'[s] = next[s] /\ end'[s] = end[s] /\ ready'[s] = ready[s] /\ op'[s] = op[s]
  BY OnlyKeeps DEF Keeps
<1> QED
  BY <1>1, <1>2 DEF Own, Held, SameSite

\* Where the writes are not conditional, there is one receiver.
LEMMA LoneWriter ==
    ASSUME TypesInv, \A s \in Receiver : Local(s), NEW r \in Receiver, r \in site.receivers, ~ Conditional,
           NEW s \in Receiver, s # r
    PROVE  op[s] = NoOp
<1>1. site.receivers = {r}
  BY SiteNumbers DEF TypesInv
<1>2. pc[s] = "down"
  BY <1>1 DEF Local, StartInv
<1>3. op[s].st = "none"
  <2>1. op[s] \in OpType
    BY Typed
  <2> QED
    BY <1>2, <2>1 DEF Local, OpInv, Filling, Stopped, OpType
<1> QED
  BY <1>3 DEF Local, OpInv

LEMMA KnownTyped ==
    ASSUME TypesInv
    PROVE  \A e \in Known : e \in EntryType /\ e.id \in Nat /\ e.id >= 1 /\ e.id <= MaxId
<1>1. MaxId \in Nat
  BY SiteNumbers DEF TypesInv
<1>2. ASSUME NEW e \in Known PROVE e \in EntryType
  BY <1>2, KnownIs DEF TypesInv
<1> QED
  BY <1>1, <1>2 DEF EntryType

LEMMA EntryIds ==
    ASSUME TypesInv, NEW r \in Receiver
    PROVE  \A e \in Known \cup data \cup ids[r] \cup snap[r] : e.id \in Int /\ e.id >= 1
<1>1. \A e \in EntryType : e.id \in Int /\ e.id >= 1
  BY Typed DEF EntryType
<1>2. \A e \in data \cup ids[r] \cup snap[r] : e \in EntryType
  BY DEF TypesInv
<1> QED
  BY <1>1, <1>2, KnownTyped

\* What else a step must do for the high-water to cover everything.
KeepsCover(r) ==
    /\ pc'[r] \notin Early => highest'[r] <= hw'
    /\ hw' = Absent => data' = {} /\ pc'[r] \in Early /\ marker'[r] = Absent /\ ghost'[r] = NoOp
    /\ ~ Conditional /\ op'[r].st = "read" => op'[r].prior = hw'

LEMMA SharedCalm ==
    ASSUME TemplateInv, NEW r \in Receiver, Only(r), TypesInv', NothingNew(r), Own(r)' \subseteq Own(r),
           tampers = 0 => hw' >= hw, tampers' = tampers, r \in site.receivers, tampers = 0 => KeepsCover(r)
    PROVE  SharedInv'
<1> SUFFICES ASSUME tampers = 0 PROVE HighWaterCovers'
  BY DEF SharedInv
<1> USE DEF Absent, HighWaterCovers
<1>1. TypesInv /\ HighWaterCovers /\ KeepsCover(r) /\ Keeps(r) /\ SameSite /\ \A s \in Receiver : Local(s)
  BY OnlyKeeps DEF TemplateInv, SharedInv
<1>2. hw \in Int /\ hw >= -1 /\ hw' \in Int /\ hw' >= hw
  <2>1. hw' \in Mark
    BY <1>1 DEF TypesInv, SameSite
  <2> QED
    BY <1>1, <2>1, Typed DEF Mark
<1>3. Known' \subseteq Known
  BY <1>1, KnownShrinks
<1>4. \A s \in Receiver : Own(s)' \subseteq Own(s)
  BY <1>1, OwnStays
<1>5. hw' = Absent => data' = {} /\ \A s \in Receiver : pc'[s] \in Early /\ marker'[s] = Absent /\ ghost'[s] = NoOp
  BY <1>1, <1>2 DEF KeepsCover, Keeps
<1>6. Unique(Known)' /\ \A e \in Known' : e.id <= hw'
  BY <1>1, <1>2, <1>3, KnownTyped DEF Unique
<1>7. ASSUME NEW s \in Receiver, pc'[s] \notin Early PROVE highest'[s] <= hw'
  <2>1. CASE s = r
    BY <1>1, <1>7, <2>1 DEF KeepsCover
  <2>2. CASE s # r
    <3>1. highest[s] \in Int /\ highest'[s] = highest[s] /\ highest[s] <= hw
      BY <1>1, <1>7, <2>2, Typed DEF Keeps
    <3> QED
      BY <1>2, <3>1
  <2> QED
    BY <2>1, <2>2
<1>8. \A s \in Receiver : \A i \in Own(s)' : i <= hw' /\ \A e \in Known' : e.id # i
  BY <1>1, <1>2, <1>3, <1>4 DEF Own, Held, Id
<1>9. \A s, t \in Receiver : s # t => Own(s)' \cap Own(t)' = {}
  BY <1>1, <1>4
<1>10. ASSUME ~ Conditional', NEW s \in Receiver, op'[s].st = "read" PROVE op'[s].prior = hw'
  <2>1. ~ Conditional
    BY <1>1, <1>10 DEF SameSite
  <2>2. CASE s = r
    BY <1>1, <1>10, <2>1, <2>2 DEF KeepsCover
  <2>3. CASE s # r
    <3>1. op'[s] = NoOp
      BY <1>1, <2>1, <2>3, LoneWriter DEF Keeps
    <3> QED
      BY <1>10, <3>1 DEF NoOp
  <2> QED
    BY <2>2, <2>3
<1> QED
  BY <1>5, <1>6, <1>7, <1>8, <1>9, <1>10

LEMMA AloneCalm ==
    ASSUME TemplateInv, NEW r \in Receiver, Only(r), TypesInv', NothingNew(r), r \in site.receivers,
           pc'[r] \notin Early => pc[r] \notin Early /\ next'[r] >= next[r],
           snap'[r] \subseteq Known \cup snap[r],
           tampers = 0 => hw' >= hw, hw = Absent => hw' = hw, tampers' = tampers,
           site.receivers = {r} /\ ~ blind =>
               /\ marker'[r] # Absent => \A e \in data' \cup snap'[r] : e.id <= marker'[r]
               /\ pc'[r] = "scanned" => \A e \in data' : e.id <= seen'[r]
    PROVE  AloneInv'
<1> SUFFICES ASSUME NEW s \in Receiver, site'.receivers = {s}, ~ blind' PROVE MarkerCovers(s)'
  BY DEF AloneInv, MarkerCovers
<1>1. s = r /\ site' = site /\ ~ blind
  BY DEF Only
<1>2. TypesInv /\ MarkerCovers(r) /\ SharedInv
  BY <1>1 DEF TemplateInv, AloneInv
<1>3. Known' \cup snap'[r] \subseteq Known \cup snap[r]
  BY <1>2, KnownShrinks
<1>4. Unique(Known \cup snap[r])'
  BY <1>1, <1>2, <1>3 DEF Unique, MarkerCovers
<1>5. \A e \in Known \cup snap[r] : e.id \in Int
  BY <1>2, EntryIds
<1>6. pc'[r] \notin Early => \A e \in Known' \cup snap'[r] : e.id < next'[r]
  <2>1. next[r] \in Int /\ next'[r] \in Int
    BY <1>2, Typed DEF TypesInv
  <2> QED
    BY <1>1, <1>2, <1>3, <1>5, <2>1 DEF MarkerCovers
<1>7. ASSUME tampers' = 0, hw' # Absent, NEW e \in snap'[r] PROVE e.id <= hw'
  <2>1. hw \in Int /\ hw' \in Int /\ hw' >= hw /\ hw # Absent
    <3>1. hw' \in Mark' /\ SameSite
      BY OnlyKeeps, <1>2 DEF TypesInv
    <3> QED
      BY <1>2, <1>7, <3>1, Typed DEF Mark, Absent, SameSite
  <2>2. e.id <= hw
    BY <1>1, <1>2, <1>7, <2>1 DEF SharedInv, HighWaterCovers, MarkerCovers
  <2> QED
    BY <1>3, <1>5, <1>7, <2>1, <2>2
<1> QED
  BY <1>1, <1>4, <1>6, <1>7 DEF MarkerCovers

\* A step that issues nothing, and neither seats a receiver nor marks its root.
LEMMA QuietStep ==
    ASSUME TemplateInv, NEW r \in Receiver, Only(r), TypesInv', r \in site.receivers,
           data' = data, tampers = 0 => hw' >= hw, hw = Absent => hw' = hw, tampers' = tampers,
           snap'[r] \subseteq snap[r],
           pc'[r] \in Early \/ (pc[r] \notin Early /\ ids'[r] = ids[r] /\ next'[r] >= next[r]),
           pc'[r] = "scanned" => (pc[r] = "scanned" /\ seen'[r] = seen[r]) \/ \A e \in data : e.id <= seen'[r],
           marker'[r] = marker[r] \/ (marker[r] # Absent /\ marker'[r] >= marker[r]),
           ghost'[r] \in {ghost[r], NoOp} \/ pc[r] \notin Early,
           Own(r)' \subseteq Own(r),
           tampers = 0 /\ pc'[r] \notin Early => highest'[r] <= hw',
           tampers = 0 /\ ~ Conditional /\ op'[r].st = "read" => op'[r].prior = hw'
    PROVE  SharedInv' /\ AloneInv'
<1>1. /\ TypesInv /\ marker[r] \in Int /\ marker'[r] \in Int /\ hw \in Int /\ hw' \in Int /\ hw >= -1
      /\ (marker[r] # Absent <=> marker[r] >= 0) /\ (marker'[r] # Absent <=> marker'[r] >= 0)
  <2>1. TypesInv /\ SameSite
    BY OnlyKeeps DEF TemplateInv
  <2>2. hw' \in Mark /\ marker'[r] \in Mark
    BY <2>1 DEF TypesInv, SameSite
  <2> QED
    BY <2>1, <2>2, Typed DEF Mark, Absent
<1>2. NothingNew(r)
  <2>1. data' \subseteq Known
    BY KnownIs
  <2>2. pc'[r] \notin Early => ids'[r] \subseteq Known
    BY KnownIs
  <2>3. marker'[r] # Absent => snap'[r] \subseteq Known
    <3>1. marker'[r] # Absent => marker[r] # Absent
      BY <1>1
    <3> QED
      BY <3>1, KnownIs
  <2> QED
    BY <2>1, <2>2, <2>3 DEF NothingNew
<1>3. tampers = 0 => KeepsCover(r)
  <2> SUFFICES ASSUME tampers = 0 PROVE KeepsCover(r)
    OBVIOUS
  <2>1. hw' = Absent => hw = Absent
    BY <1>1 DEF Absent
  <2>2. hw = Absent => data = {} /\ pc[r] \in Early /\ marker[r] = Absent /\ ghost[r] = NoOp
    BY DEF TemplateInv, SharedInv, HighWaterCovers
  <2> QED
    BY <2>1, <2>2 DEF KeepsCover
<1>4. SharedInv'
  BY <1>2, <1>3, SharedCalm
<1>5. ASSUME site.receivers = {r}, ~ blind
      PROVE  /\ marker'[r] # Absent => \A e \in data' \cup snap'[r] : e.id <= marker'[r]
             /\ pc'[r] = "scanned" => \A e \in data' : e.id <= seen'[r]
  <2>1. MarkerCovers(r)
    BY <1>5 DEF TemplateInv, AloneInv
  <2>2. \A e \in data \cup snap[r] : e.id \in Int
    BY <1>1, EntryIds
  <2> QED
    BY <1>1, <1>5, <2>1, <2>2 DEF MarkerCovers
<1>6. AloneInv'
  BY <1>2, <1>5, AloneCalm
<1> QED
  BY <1>4, <1>6

LEMMA SameOwn ==
    ASSUME TypesInv, NEW r \in Receiver, Only(r),
           next'[r] = next[r], end'[r] = end[r], ready'[r] = ready[r], op'[r] = op[r]
    PROVE  Own(r)' = Own(r)
<1>1. SameSite
  BY OnlyKeeps
<1> QED
  BY <1>1 DEF Own, Held, SameSite
-----------------------------------------------------------------------------
(* The actions, each with what it makes of the receiver that takes it.     *)
LEMMA FinishReplayKeeps ==
    ASSUME TemplateInv, NEW r \in Receiver, FinishReplay(r)
    PROVE  TemplateInv'
<1>1. TypesInv /\ Local(r) /\ SharedInv /\ AloneInv
  BY DEF TemplateInv
<1>2. Only(r)
  BY <1>1 DEF TypesInv, FinishReplay, Goes, Only, fixed, disk, range, blocks, startup, bounds
<1>3. SameSite /\ site' = site /\ r \in site.receivers
  BY <1>1, <1>2, OnlyKeeps DEF Only, Local, StartInv, FinishReplay
<1>4. /\ pc[r] = "replay" /\ pc'[r] = "sealing" /\ trust'[r] = trust[r] /\ seen'[r] = seen[r]
      /\ ids'[r] = ids[r] /\ next'[r] = next[r] /\ end'[r] = end[r] /\ ready'[r] = ready[r]
      /\ highest'[r] = highest[r] /\ ledger'[r] = ledger[r] /\ refiller'[r] = "filling"
      /\ op'[r] = op[r] /\ ghost'[r] = ghost[r] /\ marker'[r] = marker[r] /\ snap'[r] = snap[r]
      /\ starts'[r] = starts[r] /\ hw' = hw /\ data' = data /\ tampers' = tampers
  BY <1>1 DEF TypesInv, FinishReplay, Goes, fixed, disk, range, blocks, startup, bounds
<1>5. TypesInv'
  BY <1>1, <1>2, <1>4, TypesFrom DEF TypesInv, Pcs
<1>6. BlocksInv(r)'
  BY <1>1, <1>3, <1>4 DEF Local, BlocksInv, SameSite, Early
<1>7. OpInv(r)'
  BY <1>1, <1>3, <1>4 DEF Local, OpInv, SameSite, Reservation, Filling, Stopped
<1>8. StartInv(r)'
  BY <1>1, <1>3, <1>4 DEF Local, StartInv, Starting, Early, Pcs
<1>9. SharedInv' /\ AloneInv'
  <2>1. Own(r)' = Own(r)
    BY <1>1, <1>2, <1>4, SameOwn
  <2>2. tampers = 0 => highest[r] <= hw /\ (~ Conditional /\ op[r].st = "read" => op[r].prior = hw)
    BY <1>1, <1>4 DEF SharedInv, HighWaterCovers, Early
  <2>3. hw \in Int /\ next[r] \in Int /\ marker[r] \in Int
    BY <1>1, Typed
  <2> QED
    BY <1>2, <1>3, <1>4, <1>5, <2>1, <2>2, <2>3, QuietStep DEF Early
<1> QED
  BY <1>2, <1>5, <1>6, <1>7, <1>8, <1>9, Assemble

LEMMA ShutdownKeeps ==
    ASSUME TemplateInv, NEW r \in Receiver, Shutdown(r)
    PROVE  TemplateInv'
<1>1. TypesInv /\ Local(r) /\ SharedInv /\ AloneInv
  BY DEF TemplateInv
<1>2. Only(r)
  BY <1>1 DEF TypesInv, Shutdown, Goes, Only, fixed, disk, range, blocks, startup, bounds
<1>3. SameSite /\ site' = site /\ r \in site.receivers
  BY <1>1, <1>2, OnlyKeeps DEF Only, Local, StartInv, Shutdown
<1>4. /\ pc[r] = "running" /\ pc'[r] = "stopping" /\ trust'[r] = trust[r] /\ seen'[r] = seen[r]
      /\ ids'[r] = ids[r] /\ next'[r] = next[r] /\ end'[r] = end[r] /\ ready'[r] = ready[r]
      /\ highest'[r] = highest[r] /\ ledger'[r] = ledger[r] /\ refiller'[r] = refiller[r]
      /\ op'[r] = op[r] /\ ghost'[r] = ghost[r] /\ marker'[r] = marker[r] /\ snap'[r] = snap[r]
      /\ starts'[r] = starts[r] /\ hw' = hw /\ data' = data /\ tampers' = tampers
  BY <1>1 DEF TypesInv, Shutdown, Goes, fixed, disk, range, blocks, startup, bounds
<1>5. TypesInv'
  BY <1>1, <1>2, <1>4, TypesFrom DEF TypesInv, Pcs
<1>6. BlocksInv(r)'
  BY <1>1, <1>3, <1>4 DEF Local, BlocksInv, SameSite, Early
<1>7. OpInv(r)'
  BY <1>1, <1>3, <1>4 DEF Local, OpInv, SameSite, Reservation, Filling, Stopped
<1>8. StartInv(r)'
  BY <1>1, <1>3, <1>4 DEF Local, StartInv, Starting, Early, Pcs
<1>9. SharedInv' /\ AloneInv'
  <2>1. Own(r)' = Own(r)
    BY <1>1, <1>2, <1>4, SameOwn
  <2>2. tampers = 0 => highest[r] <= hw /\ (~ Conditional /\ op[r].st = "read" => op[r].prior = hw)
    BY <1>1, <1>4 DEF SharedInv, HighWaterCovers, Early
  <2>3. hw \in Int /\ next[r] \in Int /\ marker[r] \in Int
    BY <1>1, Typed
  <2> QED
    BY <1>2, <1>3, <1>4, <1>5, <2>1, <2>2, <2>3, QuietStep DEF Early
<1> QED
  BY <1>2, <1>5, <1>6, <1>7, <1>8, <1>9, Assemble

\* A receiver that ends, whatever the step that ends it did to the store.
LEMMA EndsKeeps ==
    ASSUME TemplateInv, NEW r \in Receiver, Ends(r), pc[r] # "down",
           hw' \in Mark, tampers = 0 => hw' >= hw, hw = Absent => hw' = hw, data' = data, site' = site, old' = old,
           tampers' = tampers, blind' = blind,
           snap' = snap, starts' = starts,
           marker' = marker \/ (marker[r] # Absent /\ marker'[r] >= marker[r] /\ marker' = [marker EXCEPT ![r] = marker'[r]]),
           marker'[r] \in Mark, ghost' = [ghost EXCEPT ![r] = ghost'[r]], ghost'[r] \in OpType,
           ghost'[r] \in {ghost[r], NoOp} \/ pc[r] \notin Early,
           ghost'[r] # NoOp => Conditional /\ Reservation(ghost'[r])
    PROVE  TemplateInv'
<1>1. TypesInv /\ Local(r) /\ SharedInv /\ AloneInv
  BY DEF TemplateInv
<1>2. /\ pc'[r] = "down" /\ trust'[r] = "none" /\ seen'[r] = 0 /\ ids'[r] = {} /\ next'[r] = 1 /\ end'[r] = 1
      /\ ready'[r] = <<>> /\ highest'[r] = 0 /\ ledger'[r] = FALSE /\ refiller'[r] = "off" /\ op'[r] = NoOp
  BY <1>1, OnlyEnds
<1>3. blind \in BOOLEAN /\ snap = [snap EXCEPT ![r] = snap[r]] /\ starts = [starts EXCEPT ![r] = starts[r]] /\ marker = [marker EXCEPT ![r] = marker[r]]
  BY <1>1 DEF TypesInv
<1>4. Only(r)
  BY <1>1, <1>3, OnlyEnds DEF Only
<1>5. SameSite /\ r \in site.receivers
  BY <1>1, <1>4, OnlyKeeps DEF Only, Local, StartInv
<1>6. MaxId \in Nat /\ ReadyBlocks \in Nat /\ starts[r] \in Nat /\ snap[r] \subseteq EntryType /\ NoOp \in OpType
  BY <1>1, Typed DEF NoOp, OpType
<1>7. TypesInv'
  <2>1. 1 \in 1..(MaxId + 1) /\ 0 \in 0..MaxId /\ 0 \in Mark /\ <<>> \in Seq(BlockType)
    BY <1>6 DEF Mark
  <2>2. data' \subseteq EntryType /\ tampers' \in 0..MaxTampers /\ snap'[r] \subseteq EntryType /\ starts'[r] \in Nat
    BY <1>1, <1>6 DEF TypesInv
  <2>3. pc'[r] \in Pcs /\ ids'[r] \subseteq EntryType /\ ledger'[r] \in BOOLEAN
    BY <1>2 DEF Pcs
  <2> QED
    BY <1>1, <1>2, <1>4, <1>6, <2>1, <2>2, <2>3, TypesFrom
<1>8. BlocksInv(r)'
  BY <1>2, <1>5, <1>6 DEF BlocksInv, SameSite, Early
<1>9. OpInv(r)'
  BY <1>2, <1>5 DEF OpInv, SameSite, NoOp
<1>10. StartInv(r)'
  <2>1. marker'[r] = Absent => marker[r] = Absent
    BY <1>1, Typed DEF Mark, Absent
  <2> QED
    BY <1>1, <1>2, <1>5, <2>1 DEF Local, StartInv, Starting, Early, Pcs
<1>11. SharedInv' /\ AloneInv'
  <2>1. Own(r)' \subseteq Own(r)
    <3>1. ASSUME NEW i \in Own(r)' PROVE FALSE
      BY <1>2, <1>5, <1>6 DEF Own, Held, SameSite, Id, NoOp
    <3> QED
      BY <3>1
  <2>2. pc'[r] \in Early /\ op'[r].st # "read" /\ pc'[r] # "scanned"
    BY <1>2 DEF Early, NoOp
  <2>3. marker'[r] = marker[r] \/ (marker[r] # Absent /\ marker'[r] >= marker[r])
    OBVIOUS
  <2> QED
    BY <1>4, <1>5, <1>7, <2>1, <2>2, <2>3, QuietStep
<1> QED
  BY <1>4, <1>7, <1>8, <1>9, <1>10, <1>11, Assemble

LEMMA CrashKeeps ==
    ASSUME TemplateInv, NEW r \in Receiver, Crash(r)
    PROVE  TemplateInv'
<1>1. TypesInv /\ Local(r)
  BY DEF TemplateInv
<1>2. marker[r] \in Mark /\ hw \in Mark /\ hw >= hw /\ ghost = [ghost EXCEPT ![r] = ghost[r]] /\ ghost[r] \in OpType
  BY <1>1, Typed DEF TypesInv
<1> QED
  BY <1>1, <1>2, EndsKeeps DEF Crash, fixed, disk, bounds, Local, OpInv

LEMMA ReleasedKeeps ==
    ASSUME TemplateInv, NEW r \in Receiver, Released(r)
    PROVE  TemplateInv'
<1>1. TypesInv /\ Local(r) /\ pc[r] = "stopping" /\ Ends(r)
  BY DEF TemplateInv, Released
<1>2. marker[r] \in Mark /\ hw \in Mark /\ hw >= hw /\ ghost[r] \in OpType /\ op[r] \in OpType
  BY <1>1, Typed DEF TypesInv
<1>3. ghost' = [ghost EXCEPT ![r] = ghost'[r]] /\ (ghost'[r] = ghost[r] \/ (Conditional /\ op[r].st = "read" /\ ghost'[r] = op[r]))
  BY <1>1 DEF TypesInv, Released, GivesUp
<1>4. ghost'[r] \in OpType /\ (ghost'[r] # NoOp => Conditional /\ Reservation(ghost'[r]))
  BY <1>1, <1>2, <1>3 DEF Local, OpInv
<1>5. blind' = blind /\ hw' = hw /\ data' = data /\ site' = site /\ old' = old /\ tampers' = tampers /\ snap' = snap /\ starts' = starts /\ marker' = marker
  BY DEF Released, fixed, disk, bounds
<1>6. pc[r] \notin Early /\ pc[r] # "down"
  BY <1>1 DEF Early
<1> QED
  BY <1>1, <1>2, <1>3, <1>4, <1>5, <1>6, EndsKeeps

LEMMA SealRemovesKeeps ==
    ASSUME TemplateInv, NEW r \in Receiver, SealRemoves(r)
    PROVE  TemplateInv'
<1>1. TypesInv /\ Local(r) /\ SharedInv /\ AloneInv
  BY DEF TemplateInv
<1>2. Only(r)
  BY <1>1 DEF TypesInv, SealRemoves, Goes, Discards, Only, fixed, disk, range, blocks, startup, bounds
<1>3. SameSite /\ site' = site /\ r \in site.receivers
  BY <1>1, <1>2, OnlyKeeps DEF Only, Local, StartInv, SealRemoves
<1>4. /\ pc[r] = "sealing" /\ pc'[r] = "removed" /\ trust'[r] = trust[r] /\ seen'[r] = seen[r]
      /\ ids'[r] = ids[r] /\ next'[r] = next[r] /\ end'[r] = end[r] /\ ready'[r] = ready[r]
      /\ highest'[r] = highest[r] /\ ledger'[r] = ledger[r] /\ refiller'[r] = refiller[r]
      /\ op'[r] = op[r] /\ ghost'[r] = ghost[r] /\ marker'[r] = marker[r]
      /\ snap'[r] = (IF trust[r] = "PredatesHighWater" THEN {} ELSE snap[r]) /\ starts'[r] = starts[r]
      /\ hw' = hw /\ data' = data /\ tampers' = tampers
  BY <1>1 DEF TypesInv, SealRemoves, Goes, Discards, fixed, disk, range, blocks, startup, bounds
<1>5. TypesInv'
  BY <1>1, <1>2, <1>4, TypesFrom, Typed DEF TypesInv, Pcs
<1>6. BlocksInv(r)'
  BY <1>1, <1>3, <1>4 DEF Local, BlocksInv, SameSite, Early
<1>7. OpInv(r)'
  BY <1>1, <1>3, <1>4 DEF Local, OpInv, SameSite, Reservation, Filling, Stopped
<1>8. StartInv(r)'
  BY <1>1, <1>3, <1>4 DEF Local, StartInv, Starting, Early, Pcs
<1>9. SharedInv' /\ AloneInv'
  <2>1. Own(r)' = Own(r)
    BY <1>1, <1>2, <1>4, SameOwn
  <2>2. tampers = 0 => highest[r] <= hw /\ (~ Conditional /\ op[r].st = "read" => op[r].prior = hw)
    BY <1>1, <1>4 DEF SharedInv, HighWaterCovers, Early
  <2>3. hw \in Int /\ next[r] \in Int /\ marker[r] \in Int
    BY <1>1, Typed
  <2> QED
    BY <1>2, <1>3, <1>4, <1>5, <2>1, <2>2, <2>3, QuietStep DEF Early
<1> QED
  BY <1>2, <1>5, <1>6, <1>7, <1>8, <1>9, Assemble

LEMMA SeatRootKeeps ==
    ASSUME TemplateInv, NEW r \in Receiver, SeatRoot(r)
    PROVE  TemplateInv'
<1>1. TypesInv /\ Local(r) /\ SharedInv /\ AloneInv
  BY DEF TemplateInv
<1>2. Only(r)
  BY <1>1 DEF TypesInv, SeatRoot, Goes, RecordSeat, Only, fixed, disk, range, blocks, startup, bounds
<1>3. SameSite /\ site' = site /\ r \in site.receivers
  BY <1>1, <1>2, OnlyKeeps DEF Only, Local, StartInv, SeatRoot
<1>4. /\ pc[r] = "filled" /\ pc'[r] = "replay" /\ trust'[r] = trust[r] /\ seen'[r] = seen[r]
      /\ ids'[r] = ids[r] /\ next'[r] = next[r] /\ end'[r] = end[r] /\ ready'[r] = ready[r]
      /\ highest'[r] = highest[r] /\ ledger'[r] = (IF trust[r] = "Seated" THEN TRUE ELSE ledger[r])
      /\ refiller'[r] = refiller[r] /\ op'[r] = op[r] /\ ghost'[r] = ghost[r]
      /\ marker'[r] = (IF trust[r] = "Seated" THEN Max({marker[r], highest[r]}) ELSE marker[r])
      /\ snap'[r] = snap[r] /\ starts'[r] = starts[r] /\ hw' = hw /\ data' = data
      /\ tampers' = tampers
  BY <1>1 DEF TypesInv, SeatRoot, Goes, RecordSeat, fixed, disk, range, blocks, startup, bounds
<1>41. marker[r] \in Int /\ highest[r] \in Nat /\ Max({marker[r], highest[r]}) = (IF marker[r] >= highest[r] THEN marker[r] ELSE highest[r])
  BY <1>1, Typed, MaxOfTwo
<1>42. Max({marker[r], highest[r]}) \in Mark /\ Max({marker[r], highest[r]}) # Absent
  BY <1>1, <1>41, Typed DEF Mark, Absent
<1>5. TypesInv'
  BY <1>1, <1>2, <1>4, TypesFrom, <1>42 DEF TypesInv, Pcs
<1>6. BlocksInv(r)'
  BY <1>1, <1>3, <1>4 DEF Local, BlocksInv, SameSite, Early
<1>7. OpInv(r)'
  BY <1>1, <1>3, <1>4 DEF Local, OpInv, SameSite, Reservation, Filling, Stopped
<1>8. StartInv(r)'
  BY <1>1, <1>3, <1>4, <1>41, <1>42 DEF Local, StartInv, Starting, Early, Pcs
<1>9. SharedInv' /\ AloneInv'
  <2>1. Own(r)' = Own(r)
    BY <1>1, <1>2, <1>4, SameOwn
  <2>2. tampers = 0 => highest[r] <= hw /\ (~ Conditional /\ op[r].st = "read" => op[r].prior = hw)
    BY <1>1, <1>4 DEF SharedInv, HighWaterCovers, Early
  <2>3. hw \in Int /\ next[r] \in Int
    BY <1>1, Typed
  <2>4. marker'[r] = marker[r] \/ (marker[r] # Absent /\ marker'[r] >= marker[r])
    BY <1>1, <1>4, <1>41 DEF Local, StartInv, Starting, Early, Pcs
  <2> QED
    BY <1>2, <1>3, <1>4, <1>5, <2>1, <2>2, <2>3, <2>4, QuietStep DEF Early
<1> QED
  BY <1>2, <1>5, <1>6, <1>7, <1>8, <1>9, Assemble

LEMMA SealMarksKeeps ==
    ASSUME TemplateInv, NEW r \in Receiver, SealMarks(r)
    PROVE  TemplateInv'
<1>1. TypesInv /\ Local(r) /\ SharedInv /\ AloneInv
  BY DEF TemplateInv
<1>2. Only(r)
  BY <1>1 DEF TypesInv, SealMarks, Goes, RecordSeat, Only, fixed, disk, range, blocks, startup, bounds
<1>3. SameSite /\ site' = site /\ r \in site.receivers
  BY <1>1, <1>2, OnlyKeeps DEF Only, Local, StartInv, SealMarks
<1>4. /\ pc[r] = "removed" /\ pc'[r] = "running" /\ trust'[r] = trust[r] /\ seen'[r] = seen[r]
      /\ ids'[r] = ids[r] /\ next'[r] = next[r] /\ end'[r] = end[r] /\ ready'[r] = ready[r]
      /\ highest'[r] = highest[r] /\ ledger'[r] = (IF trust[r] = "Seated" THEN ledger[r] ELSE TRUE)
      /\ refiller'[r] = refiller[r] /\ op'[r] = op[r] /\ ghost'[r] = ghost[r]
      /\ marker'[r] = (IF trust[r] = "Seated" THEN marker[r] ELSE Max({marker[r], highest[r]}))
      /\ snap'[r] = snap[r] /\ starts'[r] = starts[r] /\ hw' = hw /\ data' = data
      /\ tampers' = tampers
  BY <1>1 DEF TypesInv, SealMarks, Goes, RecordSeat, fixed, disk, range, blocks, startup, bounds
<1>41. marker[r] \in Int /\ highest[r] \in Nat /\ Max({marker[r], highest[r]}) = (IF marker[r] >= highest[r] THEN marker[r] ELSE highest[r])
  BY <1>1, Typed, MaxOfTwo
<1>42. Max({marker[r], highest[r]}) \in Mark /\ Max({marker[r], highest[r]}) # Absent
  BY <1>1, <1>41, Typed DEF Mark, Absent
<1>5. TypesInv'
  BY <1>1, <1>2, <1>4, TypesFrom, <1>42 DEF TypesInv, Pcs
<1>6. BlocksInv(r)'
  BY <1>1, <1>3, <1>4 DEF Local, BlocksInv, SameSite, Early
<1>7. OpInv(r)'
  BY <1>1, <1>3, <1>4 DEF Local, OpInv, SameSite, Reservation, Filling, Stopped
<1>8. StartInv(r)'
  BY <1>1, <1>3, <1>4, <1>41, <1>42 DEF Local, StartInv, Starting, Early, Pcs
<1>9. SharedInv' /\ AloneInv'
  <2>1. Own(r)' = Own(r)
    BY <1>1, <1>2, <1>4, SameOwn
  <2>2. pc[r] \notin Early /\ pc'[r] \notin Early
    BY <1>4 DEF Early
  <2>3. hw \in Int /\ next[r] \in Int /\ next[r] <= highest[r] + 1 /\ highest[r] \in Nat
    BY <1>1, <2>2, Typed DEF Local, BlocksInv
  <2>4. tampers = 0 => KeepsCover(r)
    BY <1>1, <1>4, <2>2 DEF SharedInv, HighWaterCovers, KeepsCover
  <2>5. \A e \in ids[r] : e.id \in Int /\ e.id < next[r] /\ e \in Known
    BY <1>1, <2>2, KnownIs, KnownTyped DEF Local, BlocksInv
  <2>6. /\ trust[r] = "Seated" => marker[r] # Absent
        /\ trust[r] # "Seated" => marker[r] = Absent /\ snap[r] \subseteq ids[r]
    BY <1>1, <1>4 DEF Local, StartInv, Starting, Pcs, TypesInv
  <2>7. NothingNew(r)
    BY <1>4, <2>5, <2>6, KnownIs DEF NothingNew
  <2>8. SharedInv'
    BY <1>2, <1>3, <1>4, <1>5, <2>1, <2>3, <2>4, <2>7, SharedCalm
  <2>9. ASSUME site.receivers = {r}, ~ blind
        PROVE  /\ marker'[r] # Absent => \A e \in data' \cup snap'[r] : e.id <= marker'[r]
               /\ pc'[r] = "scanned" => \A e \in data' : e.id <= seen'[r]
    <3>1. MarkerCovers(r) /\ data \subseteq Known
      BY <1>1, <2>9, KnownIs DEF AloneInv
    <3>2. CASE trust[r] = "Seated"
      BY <1>4, <2>6, <2>9, <3>1, <3>2 DEF MarkerCovers
    <3>3. CASE trust[r] # "Seated"
      <4>1. \A e \in data \cup snap[r] : e.id < next[r] /\ e.id \in Int
        BY <1>1, <2>2, <2>9, <3>1, EntryIds DEF MarkerCovers
      <4>2. marker'[r] = highest[r] /\ data' = data /\ snap'[r] = snap[r] /\ pc'[r] # "scanned"
        BY <1>4, <1>41, <2>6, <3>3 DEF Absent
      <4> QED
        BY <2>3, <4>1, <4>2
    <3> QED
      BY <3>2, <3>3
  <2>10. AloneInv'
    <3>1. next'[r] >= next[r] /\ hw' >= hw /\ hw' = hw /\ snap'[r] \subseteq snap[r]
      BY <1>4, <2>3
    <3> QED
      BY <1>2, <1>3, <1>4, <1>5, <2>2, <2>7, <2>9, <3>1, AloneCalm
  <2> QED
    BY <2>8, <2>10
<1> QED
  BY <1>2, <1>5, <1>6, <1>7, <1>8, <1>9, Assemble

LEMMA PublishKeeps ==
    ASSUME TemplateInv, NEW r \in Receiver, Publish(r)
    PROVE  TemplateInv'
<1>1. TypesInv /\ Local(r) /\ SharedInv /\ AloneInv
  BY DEF TemplateInv
<1>2. Only(r)
  BY <1>1 DEF TypesInv, Publish, Goes, Only, fixed, disk, range, blocks, startup, bounds
<1>3. SameSite /\ site' = site /\ r \in site.receivers
  BY <1>1, <1>2, OnlyKeeps DEF Only, Local, StartInv, Publish, Publishes
<1>4. /\ pc[r] \in {"replay", "running"} /\ pc'[r] = pc[r] /\ trust'[r] = trust[r] /\ seen'[r] = seen[r]
      /\ ids'[r] = ids[r] /\ next'[r] = next[r] /\ end'[r] = end[r] /\ ready'[r] = ready[r]
      /\ highest'[r] = highest[r] /\ ledger'[r] = ledger[r] /\ refiller'[r] = refiller[r]
      /\ op'[r] = op[r] /\ ghost'[r] = ghost[r] /\ marker'[r] = marker[r] /\ snap'[r] = snap[r]
      /\ starts'[r] = starts[r] /\ hw' = hw /\ data' = data \cup ids[r] /\ tampers' = tampers
  BY <1>1 DEF TypesInv, Publish, Publishes, Goes, fixed, disk, range, blocks, startup, bounds
<1>5. TypesInv'
  BY <1>1, <1>2, <1>4, TypesFrom DEF TypesInv, Pcs
<1>6. BlocksInv(r)'
  BY <1>1, <1>3, <1>4 DEF Local, BlocksInv, SameSite, Early
<1>7. OpInv(r)'
  BY <1>1, <1>3, <1>4 DEF Local, OpInv, SameSite, Reservation, Filling, Stopped
<1>8. StartInv(r)'
  BY <1>1, <1>3, <1>4 DEF Local, StartInv, Starting, Early, Pcs
<1>9. SharedInv' /\ AloneInv'
  <2>1. Own(r)' = Own(r)
    BY <1>1, <1>2, <1>4, SameOwn
  <2>2. pc[r] \notin Early /\ pc'[r] \notin Early
    BY <1>4 DEF Early
  <2>3. hw \in Int /\ next[r] \in Int /\ next[r] <= highest[r] + 1 /\ highest[r] \in Nat
    BY <1>1, <2>2, Typed DEF Local, BlocksInv
  <2>4. tampers = 0 => KeepsCover(r)
    BY <1>1, <1>4, <2>2 DEF SharedInv, HighWaterCovers, KeepsCover
  <2>5. \A e \in ids[r] : e.id \in Int /\ e.id < next[r] /\ e \in Known
    BY <1>1, <2>2, KnownIs, KnownTyped DEF Local, BlocksInv
  <2>6. data \subseteq Known /\ (marker[r] # Absent => snap[r] \subseteq Known)
    BY KnownIs
  <2>7. NothingNew(r)
    BY <1>4, <2>5, <2>6 DEF NothingNew
  <2>8. SharedInv'
    BY <1>2, <1>3, <1>4, <1>5, <2>1, <2>3, <2>4, <2>7, SharedCalm
  <2>9. ASSUME site.receivers = {r}, ~ blind
        PROVE  /\ marker'[r] # Absent => \A e \in data' \cup snap'[r] : e.id <= marker'[r]
               /\ pc'[r] = "scanned" => \A e \in data' : e.id <= seen'[r]
    <3>1. marker[r] # Absent => highest[r] <= marker[r] /\ marker[r] \in Int
      <4>1. marker[r] # Absent => ledger[r]
        BY <1>1, <1>4 DEF TypesInv, Local, StartInv, Starting, Pcs
      <4> QED
        BY <1>1, <4>1, Typed DEF Local, StartInv
    <3>2. MarkerCovers(r)
      BY <1>1, <2>9 DEF AloneInv
    <3> QED
      BY <1>4, <2>3, <2>5, <2>9, <3>1, <3>2 DEF MarkerCovers
  <2>10. AloneInv'
    <3>1. snap'[r] \subseteq Known \cup snap[r] /\ hw' >= hw /\ hw' = hw /\ next'[r] >= next[r]
      BY <1>4, <2>3, <2>5
    <3> QED
      BY <1>2, <1>3, <1>4, <1>5, <2>2, <2>7, <2>9, <3>1, AloneCalm
  <2> QED
    BY <2>8, <2>10
<1> QED
  BY <1>2, <1>5, <1>6, <1>7, <1>8, <1>9, Assemble

LEMMA SnapshotKeeps ==
    ASSUME TemplateInv, NEW r \in Receiver, Snapshot(r)
    PROVE  TemplateInv'
<1>1. TypesInv /\ Local(r) /\ SharedInv /\ AloneInv
  BY DEF TemplateInv
<1>2. Only(r)
  BY <1>1 DEF TypesInv, Snapshot, Goes, Only, fixed, disk, range, blocks, startup, bounds
<1>3. SameSite /\ site' = site /\ r \in site.receivers
  BY <1>1, <1>2, OnlyKeeps DEF Only, Local, StartInv, Snapshot
<1>4. /\ pc[r] = "running" /\ pc'[r] = pc[r] /\ trust'[r] = trust[r] /\ seen'[r] = seen[r]
      /\ ids'[r] = ids[r] /\ next'[r] = next[r] /\ end'[r] = end[r] /\ ready'[r] = ready[r]
      /\ highest'[r] = highest[r] /\ ledger'[r] = ledger[r] /\ refiller'[r] = refiller[r]
      /\ op'[r] = op[r] /\ ghost'[r] = ghost[r] /\ marker'[r] = marker[r] /\ snap'[r] = ids[r]
      /\ starts'[r] = starts[r] /\ hw' = hw /\ data' = data /\ tampers' = tampers
  BY <1>1 DEF TypesInv, Snapshot, Goes, fixed, disk, range, blocks, startup, bounds
<1>41. marker[r] # Absent
  BY <1>1, <1>4, Typed DEF Local, StartInv, Absent
<1>5. TypesInv'
  BY <1>1, <1>2, <1>4, TypesFrom DEF TypesInv, Pcs
<1>6. BlocksInv(r)'
  BY <1>1, <1>3, <1>4 DEF Local, BlocksInv, SameSite, Early
<1>7. OpInv(r)'
  BY <1>1, <1>3, <1>4 DEF Local, OpInv, SameSite, Reservation, Filling, Stopped
<1>8. StartInv(r)'
  BY <1>1, <1>3, <1>4, <1>41 DEF Local, StartInv, Starting, Early, Pcs
<1>9. SharedInv' /\ AloneInv'
  <2>1. Own(r)' = Own(r)
    BY <1>1, <1>2, <1>4, SameOwn
  <2>2. pc[r] \notin Early /\ pc'[r] \notin Early
    BY <1>4 DEF Early
  <2>3. hw \in Int /\ next[r] \in Int /\ next[r] <= highest[r] + 1 /\ highest[r] \in Nat
    BY <1>1, <2>2, Typed DEF Local, BlocksInv
  <2>4. tampers = 0 => KeepsCover(r)
    BY <1>1, <1>4, <2>2 DEF SharedInv, HighWaterCovers, KeepsCover
  <2>5. \A e \in ids[r] : e.id \in Int /\ e.id < next[r] /\ e \in Known
    BY <1>1, <2>2, KnownIs, KnownTyped DEF Local, BlocksInv
  <2>6. marker[r] \in Int /\ marker[r] # Absent /\ highest[r] <= marker[r]
    <3>1. ledger[r] /\ highest[r] <= marker[r]
      BY <1>1, <1>4 DEF Local, StartInv
    <3> QED
      BY <1>1, <2>3, <3>1, Typed DEF Absent
  <2>7. NothingNew(r)
    BY <1>4, <2>5, <2>6, KnownIs DEF NothingNew
  <2>8. SharedInv'
    BY <1>2, <1>3, <1>4, <1>5, <2>1, <2>3, <2>4, <2>7, SharedCalm
  <2>9. ASSUME site.receivers = {r}, ~ blind
        PROVE  /\ marker'[r] # Absent => \A e \in data' \cup snap'[r] : e.id <= marker'[r]
               /\ pc'[r] = "scanned" => \A e \in data' : e.id <= seen'[r]
    <3>1. MarkerCovers(r)
      BY <1>1, <2>9 DEF AloneInv
    <3>2. \A e \in data : e.id <= marker[r]
      BY <2>6, <2>9, <3>1 DEF MarkerCovers
    <3>3. \A e \in ids[r] : e.id <= marker[r]
      BY <2>3, <2>5, <2>6
    <3> QED
      BY <1>4, <3>2, <3>3
  <2>10. AloneInv'
    <3>1. snap'[r] \subseteq Known \cup snap[r] /\ hw' >= hw /\ hw' = hw /\ next'[r] >= next[r]
      BY <1>4, <2>3, <2>5
    <3> QED
      BY <1>2, <1>3, <1>4, <1>5, <2>2, <2>7, <2>9, <3>1, AloneCalm
  <2> QED
    BY <2>8, <2>10
<1> QED
  BY <1>2, <1>5, <1>6, <1>7, <1>8, <1>9, Assemble

LEMMA GhostWriteKeeps ==
    ASSUME TemplateInv, NEW r \in Receiver, GhostWrite(r)
    PROVE  TemplateInv'
<1>1. TypesInv /\ Local(r) /\ SharedInv /\ AloneInv
  BY DEF TemplateInv
<1>2. Only(r)
  BY <1>1 DEF TypesInv, GhostWrite, Goes, Only, fixed, disk, range, blocks, startup, bounds
<1>3. SameSite /\ site' = site /\ r \in site.receivers
  BY <1>1, <1>2, OnlyKeeps DEF Only, Local, StartInv, GhostWrite
<1>4. /\ ghost[r] # NoOp /\ pc'[r] = pc[r] /\ trust'[r] = trust[r] /\ seen'[r] = seen[r]
      /\ ids'[r] = ids[r] /\ next'[r] = next[r] /\ end'[r] = end[r] /\ ready'[r] = ready[r]
      /\ highest'[r] = highest[r] /\ ledger'[r] = ledger[r] /\ refiller'[r] = refiller[r]
      /\ op'[r] = op[r] /\ ghost'[r] = NoOp /\ marker'[r] = marker[r] /\ snap'[r] = snap[r]
      /\ starts'[r] = starts[r] /\ hw' = (IF Lands(ghost[r]) THEN ghost[r].through ELSE hw)
      /\ data' = data /\ tampers' = tampers
  BY <1>1 DEF TypesInv, GhostWrite, Goes, fixed, disk, range, blocks, startup, bounds
<1>41. hw \in Int /\ Conditional /\ Reservation(ghost[r]) /\ ghost[r] \in OpType /\ MaxId \in Nat /\ NoOp \in OpType
  BY <1>1, <1>4, Typed DEF Local, OpInv, NoOp, OpType
<1>42. hw' \in Mark /\ hw' >= hw /\ (hw = Absent => hw' = hw)
  <2>1. CASE Lands(ghost[r])
    BY <1>4, <1>41, <2>1 DEF Lands, Reservation, OpType, Mark
  <2>2. CASE ~ Lands(ghost[r])
    BY <1>1, <1>4, <1>41, <2>2 DEF TypesInv
  <2> QED
    BY <2>1, <2>2
<1>5. TypesInv'
  BY <1>1, <1>2, <1>4, TypesFrom, <1>41, <1>42 DEF TypesInv, Pcs
<1>6. BlocksInv(r)'
  BY <1>1, <1>3, <1>4 DEF Local, BlocksInv, SameSite, Early
<1>7. OpInv(r)'
  BY <1>1, <1>3, <1>4 DEF Local, OpInv, SameSite, Reservation, Filling, Stopped
<1>8. StartInv(r)'
  BY <1>1, <1>3, <1>4 DEF Local, StartInv, Starting, Early, Pcs
<1>9. SharedInv' /\ AloneInv'
  <2>1. Own(r)' = Own(r)
    BY <1>1, <1>2, <1>4, SameOwn
  <2>2. hw' \in Int /\ highest[r] \in Int /\ next[r] \in Int
    BY <1>1, <1>42, Typed DEF Mark, Absent
  <2>3. tampers = 0 /\ pc'[r] \notin Early => highest'[r] <= hw'
    BY <1>1, <1>4, <1>41, <1>42, <2>2 DEF SharedInv, HighWaterCovers
  <2> QED
    BY <1>2, <1>3, <1>4, <1>41, <1>42, <1>5, <2>1, <2>2, <2>3, QuietStep DEF Early
<1> QED
  BY <1>2, <1>5, <1>6, <1>7, <1>8, <1>9, Assemble

LEMMA DecideKeeps ==
    ASSUME TemplateInv, NEW r \in Receiver, Decide(r)
    PROVE  TemplateInv'
<1>1. TypesInv /\ Local(r) /\ SharedInv /\ AloneInv
  BY DEF TemplateInv
<1>2. Only(r)
  BY <1>1 DEF TypesInv, Decide, Goes, Only, fixed, disk, range, blocks, startup, bounds
<1>3. SameSite /\ site' = site /\ r \in site.receivers
  BY <1>1, <1>2, OnlyKeeps DEF Only, Local, StartInv, Decide
<1>4. /\ pc[r] = "down" /\ TrustOf(r) # "refused" /\ pc'[r] = "decided" /\ trust'[r] = TrustOf(r)
      /\ seen'[r] = marker[r] /\ ids'[r] = (IF TrustOf(r) = "PredatesHighWater" THEN {} ELSE snap[r])
      /\ next'[r] = Top(Ids(ids'[r])) + 1 /\ end'[r] = end[r] /\ ready'[r] = ready[r]
      /\ highest'[r] = highest[r] /\ ledger'[r] = ledger[r] /\ refiller'[r] = refiller[r]
      /\ op'[r] = op[r] /\ ghost'[r] = ghost[r] /\ marker'[r] = marker[r] /\ snap'[r] = snap[r]
      /\ starts'[r] = starts[r] + 1 /\ hw' = hw /\ data' = data /\ tampers' = tampers
  BY <1>1 DEF TypesInv, Decide, Goes, fixed, disk, range, blocks, startup, bounds
<1>41. /\ MaxId \in Nat /\ ids'[r] \subseteq EntryType /\ starts[r] \in Nat /\ marker[r] \in Mark
       /\ highest[r] \in Nat /\ ReadyBlocks \in Nat
  BY <1>1, <1>4, Typed DEF TypesInv
<1>42. Ids(ids'[r]) \subseteq 1..MaxId
  BY <1>41 DEF Ids, EntryType
<1>43. Top(Ids(ids'[r])) \in 0..MaxId /\ \A e \in ids'[r] : e.id <= Top(Ids(ids'[r])) /\ e.id \in Int
  <2>1. \A e \in ids'[r] : e.id \in Ids(ids'[r])
    BY DEF Ids
  <2> QED
    BY <1>41, <1>42, <2>1, TopBounds
<1>44. next'[r] = 1 \/ \E e \in ids'[r] : e.id = next'[r] - 1
  <2>1. Top(Ids(ids'[r])) \in {0} \cup Ids(ids'[r])
    BY <1>41, <1>42, TopBounds
  <2>2. CASE Top(Ids(ids'[r])) = 0
    BY <1>4, <2>2
  <2>3. CASE Top(Ids(ids'[r])) \in Ids(ids'[r])
    <3>1. PICK e \in ids'[r] : e.id = Top(Ids(ids'[r]))
      BY <2>3 DEF Ids
    <3>2. e.id = next'[r] - 1
      BY <1>4, <1>43, <3>1
    <3> QED
      BY <3>2
  <2> QED
    BY <2>1, <2>2, <2>3
<1>45. /\ TrustOf(r) \in {"Seated", "Bootstrap", "PredatesHighWater"}
       /\ TrustOf(r) = "Seated" <=> marker[r] # Absent
       /\ marker[r] = Absent => ~ ledger[r]
  BY <1>1, <1>4, <1>41 DEF TrustOf, Local, StartInv, Absent
<1>46. next'[r] \in 1..(MaxId + 1) /\ \A e \in ids'[r] : e.id < next'[r]
  BY <1>4, <1>41, <1>43
<1>47. end[r] = 1 /\ ready[r] = <<>>
  BY <1>1, <1>4 DEF Local, BlocksInv, Early
<1>5. TypesInv'
  <2>1. starts'[r] \in Nat /\ seen'[r] \in Mark /\ pc'[r] \in Pcs
    BY <1>4, <1>41 DEF Pcs
  <2>2. trust'[r] \in {"none", "Seated", "Bootstrap", "PredatesHighWater"}
    BY <1>4, <1>45
  <2>3. /\ hw' \in Mark /\ data' \subseteq EntryType /\ tampers' \in 0..MaxTampers /\ marker'[r] \in Mark
        /\ snap'[r] \subseteq EntryType /\ end'[r] \in 1..(MaxId + 1) /\ ready'[r] \in Seq(BlockType)
        /\ highest'[r] \in 0..MaxId /\ ledger'[r] \in BOOLEAN /\ op'[r] \in OpType /\ ghost'[r] \in OpType
        /\ refiller'[r] \in {"off", "idle", "filling", "stopped"}
    BY <1>1, <1>4 DEF TypesInv
  <2> QED
    BY <1>1, <1>2, <1>41, <1>46, <2>1, <2>2, <2>3, TypesFrom
<1>6. BlocksInv(r)'
  BY <1>1, <1>3, <1>4, <1>41, <1>46, <1>47 DEF Local, BlocksInv, SameSite, Early
<1>7. OpInv(r)'
  BY <1>1, <1>3, <1>4 DEF Local, OpInv, SameSite, Reservation, Filling, Stopped
<1>8. StartInv(r)'
  BY <1>1, <1>3, <1>4, <1>44, <1>45 DEF Local, StartInv, Starting, Early, Pcs
<1>9. SharedInv' /\ AloneInv'
  <2>1. Own(r)' \subseteq Own(r)
    <3>1. op[r].st # "landed"
      BY <1>1, <1>4 DEF Local, OpInv, Filling, Stopped
    <3>2. ASSUME NEW i \in Own(r)' PROVE FALSE
      BY <1>3, <1>4, <1>41, <1>46, <1>47, <3>1, <3>2 DEF Own, Held, SameSite, Id
    <3> QED
      BY <3>2
  <2>2. op[r].st # "read"
    BY <1>1, <1>4 DEF Local, OpInv, Filling, Stopped
  <2>3. hw \in Int
    BY <1>1, Typed
  <2> QED
    BY <1>2, <1>3, <1>4, <1>5, <2>1, <2>2, <2>3, QuietStep DEF Early
<1> QED
  BY <1>2, <1>5, <1>6, <1>7, <1>8, <1>9, Assemble

\* A start seats above n, its high-water.
Seats(r, n) ==
    /\ SeatedAbove(r, n) /\ hw' = n /\ blind' \in BOOLEAN /\ (~ blind' => ~ blind)
    /\ UNCHANGED <<data, site, old, disk, trust, seen, ids, end, ready, ledger, refiller, op, ghost, bounds>>

LEMMA SeatsLocal ==
    ASSUME TypesInv, NEW r \in Receiver, Local(r), NEW n \in 0..MaxId, pc[r] \in {"decided", "scanned"}, Seats(r, n)
    PROVE  /\ Only(r) /\ TypesInv' /\ BlocksInv(r)' /\ OpInv(r)' /\ StartInv(r)'
           /\ r \in site.receivers /\ Own(r)' = {} /\ op'[r].st = "none"
<1>1. /\ next[r] \in Int /\ next[r] >= 1 /\ next[r] <= MaxId + 1 /\ MaxId \in Nat /\ n \in Int /\ n >= 0 /\ n <= MaxId
      /\ ReadyBlocks \in Nat /\ ids[r] \subseteq EntryType
  BY Typed
<1>2. Only(r)
  BY DEF TypesInv, Seats, SeatedAbove, Goes, Only, fixed, disk, bounds
<1>3. SameSite /\ site' = site /\ r \in site.receivers
  BY <1>2, OnlyKeeps DEF Only, Local, StartInv
<1>4. /\ pc'[r] = "fill1" /\ trust'[r] = trust[r] /\ seen'[r] = seen[r] /\ ids'[r] = ids[r]
      /\ next'[r] = (IF next[r] >= n + 1 THEN next[r] ELSE n + 1) /\ end'[r] = end[r]
      /\ ready'[r] = ready[r] /\ highest'[r] = (IF next[r] - 1 >= n THEN next[r] - 1 ELSE n)
      /\ ledger'[r] = ledger[r] /\ refiller'[r] = refiller[r] /\ op'[r] = op[r]
      /\ ghost'[r] = ghost[r] /\ marker'[r] = marker[r] /\ snap'[r] = snap[r]
      /\ starts'[r] = starts[r] /\ hw' = n /\ data' = data /\ tampers' = tampers
  <2>1. Max({next[r], n + 1}) = (IF next[r] >= n + 1 THEN next[r] ELSE n + 1)
    BY <1>1, MaxOfTwo
  <2>2. Max({next[r] - 1, n}) = (IF next[r] - 1 >= n THEN next[r] - 1 ELSE n)
    BY <1>1, MaxOfTwo
  <2> QED
    BY <2>1, <2>2 DEF TypesInv, Seats, SeatedAbove, Goes, fixed, disk, bounds
<1>5. /\ end[r] = 1 /\ ready[r] = <<>> /\ op[r] = NoOp /\ ~ ledger[r]
      /\ ids[r] = (IF trust[r] = "PredatesHighWater" THEN {} ELSE snap[r])
  <2>1. op[r].st = "none"
    BY Typed DEF Local, OpInv, Filling, Stopped, OpType
  <2> QED
    BY <2>1 DEF Local, BlocksInv, OpInv, StartInv, Early
<1>6. TypesInv'
  <2>1. next'[r] \in 1..(MaxId + 1) /\ highest'[r] \in 0..MaxId /\ pc'[r] \in Pcs /\ hw' \in Mark
    BY <1>1, <1>4 DEF Mark, Pcs
  <2> QED
    BY <1>2, <1>4, <2>1, TypesFrom DEF TypesInv
<1>7. BlocksInv(r)'
  <2>1. \A e \in ids[r] : e.id \in Int /\ e.id < next[r]
    BY <1>1 DEF Local, BlocksInv, EntryType
  <2> QED
    BY <1>1, <1>3, <1>4, <1>5, <2>1 DEF BlocksInv, SameSite, Early
<1>8. OpInv(r)'
  BY <1>3, <1>4, <1>5 DEF Local, OpInv, SameSite, NoOp
<1>9. StartInv(r)'
  BY <1>3, <1>4, <1>5 DEF Local, StartInv, Starting, Early, Pcs
<1>10. Own(r)' = {} /\ op'[r].st = "none"
  <2>1. op'[r].st = "none"
    BY <1>4, <1>5 DEF NoOp
  <2>2. ASSUME NEW i \in Own(r)' PROVE FALSE
    BY <1>1, <1>3, <1>4, <1>5, <2>1, <2>2 DEF Own, Held, SameSite, Id
  <2> QED
    BY <2>1, <2>2
<1> QED
  BY <1>2, <1>3, <1>6, <1>7, <1>8, <1>9, <1>10

LEMMA SeatsAbove ==
    ASSUME TemplateInv, NEW r \in Receiver, pc[r] = "decided", ~ Refused(r), trust[r] # "Bootstrap", Seats(r, hw),
           blind' = (blind \/ MissesRollback(r))
    PROVE  TemplateInv'
<1>1. TypesInv /\ Local(r) /\ SharedInv /\ AloneInv /\ \A s \in Receiver : Local(s)
  BY DEF TemplateInv
<1>2. hw \in 0..MaxId /\ seen[r] <= hw /\ hw # Absent /\ hw' = hw /\ next[r] \in Int /\ marker[r] \in Int
  BY <1>1, Typed DEF Refused, Absent, Seats
<1>3. /\ Only(r) /\ TypesInv' /\ BlocksInv(r)' /\ OpInv(r)' /\ StartInv(r)'
      /\ r \in site.receivers /\ Own(r)' = {} /\ op'[r].st = "none"
  BY <1>1, <1>2, SeatsLocal
<1>4. /\ data' = data /\ ids'[r] = ids[r] /\ marker'[r] = marker[r] /\ snap'[r] = snap[r] /\ tampers' = tampers
      /\ pc'[r] = "fill1" /\ seen[r] = marker[r]
      /\ next'[r] = (IF next[r] >= hw + 1 THEN next[r] ELSE hw + 1)
      /\ highest'[r] = (IF next[r] - 1 >= hw THEN next[r] - 1 ELSE hw)
  <2>1. Max({next[r], hw + 1}) = (IF next[r] >= hw + 1 THEN next[r] ELSE hw + 1)
    BY <1>2, MaxOfTwo
  <2>2. Max({next[r] - 1, hw}) = (IF next[r] - 1 >= hw THEN next[r] - 1 ELSE hw)
    BY <1>2, MaxOfTwo
  <2> QED
    BY <1>1, <2>1, <2>2 DEF TypesInv, Seats, SeatedAbove, Goes, fixed, disk, bounds, Local, StartInv
<1>5. /\ (ids[r] = {} /\ marker[r] = Absent) \/ (ids[r] = snap[r] /\ marker[r] # Absent)
      /\ pc[r] \in Early /\ pc'[r] \notin Early
  BY <1>1, <1>4 DEF TypesInv, Local, StartInv, Starting, Early, Pcs
<1>6. NothingNew(r)
  BY <1>4, <1>5, KnownIs DEF NothingNew
<1>7. ASSUME tampers = 0 PROVE KeepsCover(r)
  <2>1. HighWaterCovers
    BY <1>1, <1>7 DEF SharedInv
  <2>2. next[r] - 1 <= hw
    <3>1. \A e \in ids[r] : e \in Known
      BY <1>5, KnownIs
    <3>2. next[r] = 1 \/ \E e \in ids[r] : e.id = next[r] - 1
      BY <1>1 DEF Local, StartInv
    <3> QED
      BY <1>2, <2>1, <3>1, <3>2 DEF HighWaterCovers
  <2> QED
    BY <1>2, <1>3, <1>4, <2>2 DEF KeepsCover
<1>8. SharedInv'
  <2>1. Own(r)' \subseteq Own(r) /\ hw' >= hw
    BY <1>2, <1>3
  <2> QED
    BY <1>3, <1>4, <1>6, <1>7, <2>1, SharedCalm
<1>9. AloneInv'
  <2> SUFFICES ASSUME NEW s \in Receiver, site'.receivers = {s}, ~ blind' PROVE MarkerCovers(s)'
    BY DEF AloneInv, MarkerCovers
  <2>1. s = r /\ site.receivers = {r} /\ ~ blind /\ ~ MissesRollback(r)
    BY <1>3 DEF Only
  <2>2. MarkerCovers(r) /\ Known' \subseteq Known
    BY <1>1, <1>3, <1>6, <2>1, KnownShrinks DEF AloneInv
  <2>3. ASSUME NEW e \in data \cup snap[r] PROVE e.id <= hw /\ e.id \in Int
    <3>1. e.id \in Int
      BY <1>1, EntryIds
    <3>2. CASE marker[r] # Absent
      <4>1. e.id <= marker[r]
        BY <2>1, <2>2, <3>2 DEF MarkerCovers
      <4> QED
        BY <1>2, <1>4, <3>1, <4>1
    <3>3. CASE tampers = 0
      <4>1. e \in snap[r] => e.id <= hw
        BY <1>2, <2>1, <2>2, <3>3 DEF MarkerCovers
      <4>2. e \in data => e.id <= hw
        BY <1>1, <3>3, KnownIs DEF SharedInv, HighWaterCovers
      <4> QED
        BY <3>1, <4>1, <4>2
    <3>4. CASE marker[r] = Absent /\ tampers # 0
      <4>1. trust[r] = "PredatesHighWater"
        BY <1>1, <3>4 DEF TypesInv, Local, StartInv, Starting, Pcs
      <4> QED
        BY <1>2, <2>1, <3>1, <3>4, <4>1 DEF MissesRollback
    <3> QED
      BY <3>2, <3>3, <3>4
  <2>4. ASSUME NEW e \in Known' \cup snap'[r] PROVE e.id < next'[r] /\ e \in Known \cup snap[r]
    <3>1. e \in data \cup snap[r] /\ e \in Known \cup snap[r]
      BY <1>1, <1>4, <1>5, <2>1, <2>2, <2>4, KnownAlone
    <3>2. e.id \in Int /\ e.id <= hw
      BY <2>3, <3>1
    <3> QED
      BY <1>2, <1>4, <3>1, <3>2
  <2>5. Unique(Known \cup snap[r])'
    BY <2>1, <2>2, <2>4 DEF MarkerCovers, Unique
  <2> QED
    BY <1>2, <1>4, <2>1, <2>2, <2>3, <2>4, <2>5 DEF MarkerCovers
<1> QED
  BY <1>3, <1>8, <1>9, Assemble

\* A start that saw no high-water has scanned the store for a floor.
Scans(r) ==
    /\ seen' = [seen EXCEPT ![r] = Max({old, next[r] - 1} \cup Ids(data))] /\ Goes(r, "scanned")
    /\ UNCHANGED <<hw, data, fixed, disk, trust, range, blocks, ledger, refiller, op, ghost, bounds>>

LEMMA ScansKeeps ==
    ASSUME TemplateInv, NEW r \in Receiver, pc[r] = "decided", trust[r] = "Bootstrap", Scans(r)
    PROVE  TemplateInv'
<1>1. TypesInv /\ Local(r) /\ SharedInv /\ AloneInv
  BY DEF TemplateInv
<1>2. Only(r)
  BY <1>1 DEF TypesInv, Scans, Goes, Only, fixed, disk, range, blocks, startup, bounds
<1>3. SameSite /\ site' = site /\ r \in site.receivers
  BY <1>1, <1>2, OnlyKeeps DEF Only, Local, StartInv
<1>4. /\ pc[r] = "decided" /\ trust[r] = "Bootstrap" /\ pc'[r] = "scanned" /\ trust'[r] = trust[r]
      /\ seen'[r] = Max({old, next[r] - 1} \cup Ids(data)) /\ ids'[r] = ids[r] /\ next'[r] = next[r]
      /\ end'[r] = end[r] /\ ready'[r] = ready[r] /\ highest'[r] = highest[r]
      /\ ledger'[r] = ledger[r] /\ refiller'[r] = refiller[r] /\ op'[r] = op[r]
      /\ ghost'[r] = ghost[r] /\ marker'[r] = marker[r] /\ snap'[r] = snap[r]
      /\ starts'[r] = starts[r] /\ hw' = hw /\ data' = data /\ tampers' = tampers
  BY <1>1 DEF TypesInv, Scans, Goes, fixed, disk, range, blocks, startup, bounds
<1>41. /\ MaxId \in Nat /\ old \in 0..MaxId /\ next[r] \in Int /\ next[r] >= 1 /\ next[r] <= MaxId + 1
       /\ data \subseteq EntryType
       /\ hw \in Int
  BY <1>1, Typed DEF TypesInv
<1>42. {old, next[r] - 1} \cup Ids(data) \in SUBSET (0..MaxId)
  BY <1>41 DEF Ids, EntryType
<1>43. seen'[r] \in 0..MaxId /\ next[r] - 1 <= seen'[r] /\ \A e \in data : e.id <= seen'[r]
  <2>1. /\ {old, next[r] - 1} \cup Ids(data) # {} /\ next[r] - 1 \in {old, next[r] - 1} \cup Ids(data)
        /\ \A e \in data : e.id \in {old, next[r] - 1} \cup Ids(data)
    BY DEF Ids
  <2> QED
    BY <1>4, <1>41, <1>42, <2>1, GreatestExists
<1>44. seen'[r] \in Mark /\ next[r] <= seen'[r] + 1
  BY <1>41, <1>43 DEF Mark
<1>5. TypesInv'
  BY <1>1, <1>2, <1>4, <1>44, TypesFrom DEF TypesInv, Pcs
<1>6. BlocksInv(r)'
  BY <1>1, <1>3, <1>4 DEF Local, BlocksInv, SameSite, Early
<1>7. OpInv(r)'
  BY <1>1, <1>3, <1>4 DEF Local, OpInv, SameSite, Reservation, Filling, Stopped
<1>8. StartInv(r)'
  BY <1>1, <1>3, <1>4, <1>44 DEF Local, StartInv, Starting, Pcs
<1>9. SharedInv' /\ AloneInv'
  <2>1. Own(r)' = Own(r)
    BY <1>1, <1>2, <1>4, SameOwn
  <2>2. op[r].st # "read"
    BY <1>1, <1>4 DEF Local, OpInv, Filling, Stopped
  <2>3. hw' >= hw /\ pc'[r] \in Early
    BY <1>4, <1>41 DEF Early
  <2> QED
    BY <1>2, <1>3, <1>4, <1>43, <1>5, <2>1, <2>2, <2>3, QuietStep
<1> QED
  BY <1>2, <1>5, <1>6, <1>7, <1>8, <1>9, Assemble

LEMMA SeatKeeps ==
    ASSUME TemplateInv, NEW r \in Receiver, Seat(r)
    PROVE  TemplateInv'
<1>1. TypesInv /\ Local(r) /\ pc[r] = "decided"
  BY DEF TemplateInv, Seat
<1>2. CASE Ends(r) /\ blind' = blind
  <2>1. marker[r] \in Mark /\ hw \in Mark /\ hw >= hw /\ ghost = [ghost EXCEPT ![r] = ghost[r]] /\ ghost[r] \in OpType
    BY <1>1, Typed DEF TypesInv
  <2> QED
    BY <1>1, <1>2, <2>1, EndsKeeps DEF Seat, fixed, disk, bounds, Local, OpInv
<1>3. CASE ~ Refused(r) /\ trust[r] # "Bootstrap" /\ Seats(r, hw) /\ blind' = (blind \/ MissesRollback(r))
  BY <1>1, <1>3, SeatsAbove
<1>4. CASE trust[r] = "Bootstrap" /\ Scans(r)
  BY <1>1, <1>4, ScansKeeps
<1>5. (blind \/ MissesRollback(r)) \in BOOLEAN /\ (~ (blind \/ MissesRollback(r)) => ~ blind)
  BY <1>1 DEF TypesInv
<1> QED
  BY <1>2, <1>3, <1>4, <1>5 DEF Seat, Seats, Scans, fixed, disk, bounds, range, blocks

LEMMA CreateWinsKeeps ==
    ASSUME TemplateInv, NEW r \in Receiver, pc[r] = "scanned", hw = Absent, Seats(r, seen[r])
    PROVE  TemplateInv'
<1> DEFINE n == seen[r]
<1>1. TypesInv /\ Local(r) /\ SharedInv /\ AloneInv /\ \A s \in Receiver : Local(s)
  BY DEF TemplateInv
<1>2. n \in 0..MaxId /\ next[r] <= n + 1 /\ trust[r] = "Bootstrap" /\ next[r] \in Int /\ n \in Int /\ n >= 0 /\ hw' = n
  <2>1. next[r] <= n + 1 /\ trust[r] = "Bootstrap"
    BY <1>1 DEF Local, StartInv
  <2> QED
    BY <1>1, <2>1, Typed DEF Seats
<1>3. /\ Only(r) /\ TypesInv' /\ BlocksInv(r)' /\ OpInv(r)' /\ StartInv(r)'
      /\ r \in site.receivers /\ Own(r)' = {} /\ op'[r].st = "none"
  BY <1>1, <1>2, SeatsLocal
<1>4. /\ data' = data /\ ids'[r] = ids[r] /\ marker'[r] = marker[r] /\ snap'[r] = snap[r] /\ tampers' = tampers
      /\ pc'[r] = "fill1" /\ next'[r] = n + 1 /\ highest'[r] = n
  <2>1. Max({next[r], n + 1}) = n + 1 /\ Max({next[r] - 1, n}) = n
    BY <1>2, MaxOfTwo
  <2> QED
    BY <1>1, <2>1 DEF TypesInv, Seats, SeatedAbove, Goes, fixed, disk, bounds
<1>5. ids[r] = snap[r] /\ marker[r] = Absent /\ pc[r] \in Early /\ pc'[r] \notin Early
  BY <1>1, <1>2, <1>4 DEF Local, StartInv, Starting, Early, Pcs
<1>6. Known' \subseteq Known \cup ids[r]
  <2>1. data \subseteq Known
    BY KnownIs
  <2> QED
    BY <1>1, <1>3, <1>4, <1>5, <2>1, KnownGrows
<1>7. \A e \in ids[r] : e.id \in Int /\ e.id < next[r]
  BY <1>1, Typed DEF EntryType, Local, BlocksInv
<1>8. Unique(ids[r])
  <2>1. \A e \in ids[r] : e.by = r /\ e.inc = 0 /\ e \in EntryType
    BY <1>1, <1>5, Typed DEF Local, StartInv
  <2> QED
    BY <2>1 DEF Unique, EntryType
<1>9. SharedInv'
  <2> SUFFICES ASSUME tampers = 0 PROVE HighWaterCovers'
    BY <1>4 DEF SharedInv
  <2>1. HighWaterCovers /\ Keeps(r) /\ SameSite
    BY <1>1, <1>3, OnlyKeeps DEF SharedInv
  <2>2. data = {} /\ \A s \in Receiver : pc[s] \in Early /\ marker[s] = Absent
    BY <2>1 DEF HighWaterCovers
  <2>3. Known' \subseteq ids[r]
    BY <1>6, <2>2, KnownIs
  <2>4. Unique(Known)' /\ \A e \in Known' : e.id <= hw'
    BY <1>2, <1>7, <1>8, <2>3 DEF Unique
  <2>5. \A s \in Receiver : pc'[s] \notin Early => highest'[s] <= hw'
    BY <1>2, <1>4, <2>1, <2>2 DEF Keeps
  <2>6. \A s \in Receiver : Own(s)' = {}
    <3>1. ASSUME NEW s \in Receiver, NEW i \in Own(s) PROVE FALSE
      <4>1. i \in Int /\ i >= 1
        BY <1>1, SiteNumbers, <3>1 DEF Own, Held, Id
      <4> QED
        BY <2>1, <3>1, <4>1 DEF HighWaterCovers, Absent
    <3> QED
      BY <1>1, <1>3, <3>1, OwnStays
  <2>7. ASSUME ~ Conditional, NEW s \in Receiver PROVE op'[s].st # "read"
    BY <1>1, <1>3, <2>1, <2>7, LoneWriter DEF Keeps, NoOp
  <2>8. hw' # Absent
    BY <1>2 DEF Absent
  <2> QED
    BY <2>1, <2>4, <2>5, <2>6, <2>7, <2>8 DEF HighWaterCovers, SameSite
<1>10. AloneInv'
  <2> SUFFICES ASSUME NEW s \in Receiver, site'.receivers = {s}, ~ blind' PROVE MarkerCovers(s)'
    BY DEF AloneInv, MarkerCovers
  <2>1. s = r /\ site.receivers = {r} /\ ~ blind
    BY <1>3 DEF Only
  <2>2. MarkerCovers(r)
    BY <1>1, <2>1 DEF AloneInv
  <2>3. ASSUME NEW e \in Known' \cup snap'[r] PROVE e.id < next'[r] /\ e \in Known \cup snap[r]
    <3>1. e \in Known \cup snap[r] /\ e \in data \cup ids[r]
      BY <1>1, <1>4, <1>5, <1>6, <2>1, <2>3, KnownAlone
    <3>2. CASE e \in data
      <4>1. e.id <= n /\ e.id \in Int
        BY <1>1, <2>1, <2>2, <3>2, EntryIds DEF MarkerCovers
      <4> QED
        BY <1>2, <1>4, <3>1, <4>1
    <3>3. CASE e \in ids[r]
      BY <1>2, <1>4, <1>7, <3>1, <3>3
    <3> QED
      BY <3>1, <3>2, <3>3
  <2>4. Unique(Known \cup snap[r])'
    BY <2>1, <2>2, <2>3 DEF MarkerCovers, Unique
  <2>5. \A e \in snap'[r] : e.id <= hw'
    BY <1>2, <1>4, <1>5, <1>7
  <2> QED
    BY <1>4, <1>5, <2>1, <2>3, <2>4, <2>5 DEF MarkerCovers
<1> QED
  BY <1>3, <1>9, <1>10, Assemble

LEMMA CreateKeeps ==
    ASSUME TemplateInv, NEW r \in Receiver, Create(r)
    PROVE  TemplateInv'
<1>1. TypesInv /\ Local(r) /\ pc[r] = "scanned"
  BY DEF TemplateInv, Create
<1>2. CASE Ends(r) /\ hw' = hw
  <2>1. marker[r] \in Mark /\ hw \in Mark /\ hw >= hw /\ ghost = [ghost EXCEPT ![r] = ghost[r]] /\ ghost[r] \in OpType
    BY <1>1, Typed DEF TypesInv
  <2> QED
    BY <1>1, <1>2, <2>1, EndsKeeps DEF Create, fixed, disk, bounds, Local, OpInv
<1>3. CASE hw = Absent /\ Seats(r, seen[r])
  BY <1>1, <1>3, CreateWinsKeeps
<1> QED
  BY <1>1, <1>2, <1>3 DEF Create, CreateWins, Seats, fixed, disk, bounds, TypesInv

\* A reservation is given up, whatever became of the store's object and the marker.
LEMMA DropsKeeps ==
    ASSUME TemplateInv, NEW r \in Receiver, pc[r] \notin Early, op' = [op EXCEPT ![r] = NoOp],
           refiller' = [refiller EXCEPT ![r] = refiller'[r]], refiller'[r] \in {"off", "idle", "filling", "stopped"},
           refiller'[r] = "off" <=> refiller[r] = "off",
           UNCHANGED <<startup, range, blocks, ledger, data, fixed, snap, ghost, starts, tampers>>,
           hw' \in Mark, tampers = 0 => hw' >= hw, hw = Absent => hw' = hw,
           marker' = marker \/ (marker[r] # Absent /\ marker'[r] >= marker[r] /\ marker' = [marker EXCEPT ![r] = marker'[r]]),
           marker'[r] \in Mark
    PROVE  TemplateInv'
<1>1. TypesInv /\ Local(r) /\ SharedInv /\ AloneInv /\ pc[r] # "down"
  BY DEF TemplateInv, Early
<1>2. marker' = [marker EXCEPT ![r] = marker'[r]]
  BY <1>1 DEF TypesInv
<1>3. Only(r)
  BY <1>1, <1>2 DEF TypesInv, Only, fixed, range, blocks, startup
<1>4. SameSite /\ site' = site /\ r \in site.receivers
  BY <1>1, <1>3, OnlyKeeps DEF Only, Local, StartInv
<1>5. /\ pc'[r] = pc[r] /\ trust'[r] = trust[r] /\ seen'[r] = seen[r] /\ ids'[r] = ids[r]
      /\ next'[r] = next[r] /\ end'[r] = end[r] /\ ready'[r] = ready[r] /\ highest'[r] = highest[r]
      /\ ledger'[r] = ledger[r] /\ op'[r] = NoOp /\ ghost'[r] = ghost[r] /\ snap'[r] = snap[r]
      /\ starts'[r] = starts[r] /\ data' = data /\ tampers' = tampers
  BY <1>1 DEF TypesInv, range, blocks, startup
<1>6. /\ marker[r] \in Int /\ marker'[r] \in Int /\ highest[r] \in Int /\ next[r] \in Int /\ hw \in Int /\ hw' \in Int
      /\ marker'[r] >= marker[r] /\ marker'[r] = Absent <=> marker[r] = Absent
      /\ marker'[r] = marker[r] \/ (marker[r] # Absent /\ marker'[r] >= marker[r])
  BY <1>1, Typed DEF Mark, Absent
<1>7. NoOp \in OpType /\ NoOp.st = "none"
  BY <1>1, Typed DEF NoOp, OpType
<1>8. TypesInv'
  <2>1. data' \subseteq EntryType /\ tampers' \in 0..MaxTampers /\ snap'[r] \subseteq EntryType /\ starts'[r] \in Nat /\ pc'[r] \in Pcs
    BY <1>1, <1>5 DEF TypesInv
  <2>2. /\ trust'[r] \in {"none", "Seated", "Bootstrap", "PredatesHighWater"} /\ seen'[r] \in Mark
        /\ ids'[r] \subseteq EntryType
        /\ next'[r] \in 1..(MaxId + 1) /\ end'[r] \in 1..(MaxId + 1) /\ ready'[r] \in Seq(BlockType)
        /\ highest'[r] \in 0..MaxId /\ ledger'[r] \in BOOLEAN /\ op'[r] \in OpType /\ ghost'[r] \in OpType
    BY <1>1, <1>5, <1>7 DEF TypesInv
  <2> QED
    BY <1>1, <1>3, <2>1, <2>2, TypesFrom
<1>9. BlocksInv(r)'
  BY <1>1, <1>4, <1>5 DEF Local, BlocksInv, SameSite
<1>10. OpInv(r)'
  BY <1>1, <1>4, <1>5, <1>7 DEF Local, OpInv, SameSite
<1>11. StartInv(r)'
  BY <1>1, <1>4, <1>5, <1>6 DEF Local, StartInv, Starting, Early, Pcs
<1>12. SharedInv' /\ AloneInv'
  <2>1. Own(r)' \subseteq Own(r)
    BY <1>4, <1>5, <1>7 DEF Own, Held, SameSite
  <2>2. tampers = 0 => highest'[r] <= hw'
    BY <1>1, <1>5, <1>6 DEF SharedInv, HighWaterCovers
  <2>3. snap'[r] \subseteq snap[r] /\ pc'[r] \notin Early /\ ids'[r] = ids[r] /\ next'[r] >= next[r] /\ op'[r].st # "read"
    BY <1>5, <1>6, <1>7
  <2> QED
    BY <1>3, <1>4, <1>5, <1>6, <1>8, <2>1, <2>2, <2>3, QuietStep DEF Early
<1> QED
  BY <1>3, <1>8, <1>9, <1>10, <1>11, <1>12, Assemble

LEMMA AbandonsKeeps ==
    ASSUME TemplateInv, NEW r \in Receiver, NEW deleted \in BOOLEAN, Abandons(r, deleted),
           UNCHANGED <<data, fixed, snap, ghost, starts, tampers>>, hw' \in Mark, tampers = 0 => hw' >= hw, hw = Absent => hw' = hw,
           marker' = marker \/ (marker[r] # Absent /\ marker'[r] >= marker[r] /\ marker' = [marker EXCEPT ![r] = marker'[r]]),
           marker'[r] \in Mark
    PROVE  TemplateInv'
<1>1. TypesInv /\ Local(r)
  BY DEF TemplateInv
<1>2. CASE pc[r] \in {"fill1", "fill2", "refilling"} /\ Ends(r)
  <2>1. ghost' = [ghost EXCEPT ![r] = ghost'[r]] /\ ghost'[r] = ghost[r] /\ ghost[r] \in OpType
    BY <1>1 DEF TypesInv
  <2>2. pc[r] # "down" /\ (ghost'[r] # NoOp => Conditional /\ Reservation(ghost'[r]))
    BY <1>1, <1>2, <2>1 DEF Local, OpInv
  <2> QED
    BY <1>2, <2>1, <2>2, EndsKeeps DEF fixed
<1>3. CASE /\ refiller[r] = "filling"
           /\ refiller' = [refiller EXCEPT ![r] = IF deleted THEN "stopped" ELSE @]
           /\ op' = [op EXCEPT ![r] = NoOp]
           /\ UNCHANGED <<startup, range, blocks, ledger>>
  <2>1. refiller'[r] \in {"filling", "stopped"} /\ refiller' = [refiller EXCEPT ![r] = refiller'[r]]
    BY <1>1, <1>3 DEF TypesInv
  <2>2. pc[r] \notin Early
    BY <1>1, <1>3 DEF Local, OpInv, Early
  <2> QED
    BY <1>3, <2>1, <2>2, DropsKeeps
<1> QED
  BY <1>2, <1>3 DEF Abandons

LEMMA ReserveReadKeeps ==
    ASSUME TemplateInv, NEW r \in Receiver, ReserveRead(r)
    PROVE  TemplateInv'
<1>1. TypesInv /\ Local(r) /\ SharedInv /\ AloneInv /\ Filling(r)
  BY DEF TemplateInv, ReserveRead
<1>2. /\ hw \in Mark /\ hw \in Int /\ (hw # Absent <=> hw >= 0) /\ hw <= MaxId /\ MaxId \in Nat /\ marker[r] \in Mark
      /\ highest[r] \in Nat /\ highest[r] <= MaxId /\ next[r] \in Int
  BY <1>1, Typed DEF TypesInv
<1>3. CASE Abandons(r, TRUE)
  <2>1. UNCHANGED <<data, fixed, snap, ghost, starts, tampers>> /\ hw' = hw /\ marker' = marker
    BY DEF ReserveRead, disk, bounds
  <2>2. hw' >= hw /\ hw' \in Mark /\ marker'[r] \in Mark
    BY <1>2, <2>1
  <2> QED
    BY <1>3, <2>1, <2>2, AbandonsKeeps
<1>4. CASE /\ hw # Absent
           /\ op' = [op EXCEPT ![r] = [st |-> "read", prior |-> hw, after |-> After(r),
                                       through |-> Min({After(r) + Block, MaxId})]]
           /\ UNCHANGED <<startup, range, blocks, ledger, refiller>>
  <2>1. UNCHANGED <<hw, data, fixed, disk, ghost, bounds>>
    BY DEF ReserveRead
  <2>2. Only(r)
    BY <1>1, <1>4, <2>1 DEF TypesInv, Only, fixed, disk, range, blocks, startup, bounds
  <2>3. /\ pc'[r] = pc[r] /\ trust'[r] = trust[r] /\ seen'[r] = seen[r] /\ ids'[r] = ids[r]
      /\ next'[r] = next[r] /\ end'[r] = end[r] /\ ready'[r] = ready[r] /\ highest'[r] = highest[r]
      /\ ledger'[r] = ledger[r] /\ refiller'[r] = refiller[r]
      /\ op'[r] = [st |-> "read", prior |-> hw, after |-> After(r), through |-> Min({After(r) + Block, MaxId})]
      /\ ghost'[r] = ghost[r] /\ marker'[r] = marker[r] /\ snap'[r] = snap[r]
      /\ starts'[r] = starts[r] /\ hw' = hw /\ data' = data /\ tampers' = tampers
    BY <1>1, <1>4, <2>1 DEF TypesInv, disk, range, blocks, startup, bounds
  <2>4. pc[r] \notin Early /\ pc[r] # "down"
    BY <1>1 DEF Local, OpInv, Filling, Early
  <2>5. SameSite /\ site' = site /\ r \in site.receivers
    BY <1>1, <2>2, <2>4, OnlyKeeps DEF Only, Local, StartInv
  <2>6. Block \in Nat /\ Block > 0 /\ ReadyBlocks \in Nat
    BY <1>1, SiteNumbers DEF TypesInv
  <2>7. After(r) \in Nat /\ hw <= After(r) /\ highest[r] <= After(r) /\ After(r) < MaxId /\ Len(ready[r]) < ReadyBlocks
    <3>1. After(r) = (IF hw >= highest[r] THEN hw ELSE highest[r])
      BY <1>2, MaxOfTwo DEF After
    <3>2. ~ (Len(ready[r]) >= ReadyBlocks) /\ ~ (After(r) >= MaxId)
      BY <1>4 DEF ReserveRead, Enough
    <3>3. Len(ready[r]) \in Nat
      BY <1>1, Typed
    <3> QED
      BY <1>2, <1>4, <2>6, <3>1, <3>2, <3>3
  <2>8. op'[r].through \in 0..MaxId /\ After(r) < op'[r].through
    <3>1. op'[r].through = (IF After(r) + Block <= MaxId THEN After(r) + Block ELSE MaxId)
      BY <1>2, <2>3, <2>6, <2>7, MinOfTwo
    <3> QED
      BY <1>2, <2>6, <2>7, <3>1
  <2>9. op'[r].st = "read" /\ op'[r].prior = hw /\ op'[r].after = After(r) /\ op'[r] \in OpType
    BY <1>2, <1>4, <2>3, <2>7, <2>8 DEF OpType
  <2>10. TypesInv'
    BY <1>1, <2>2, <2>3, <2>9, TypesFrom DEF TypesInv
  <2>11. BlocksInv(r)'
    BY <1>1, <2>3, <2>5 DEF Local, BlocksInv, SameSite
  <2>12. OpInv(r)'
    <3>1. Reservation(op'[r]) /\ highest'[r] <= op'[r].after /\ Len(ready'[r]) < ReadyBlocks'
      BY <1>2, <2>3, <2>5, <2>7, <2>8, <2>9 DEF Reservation, SameSite
    <3>2. Filling(r)'
      BY <1>1, <2>3 DEF Filling
    <3>3. ghost'[r] # NoOp => Conditional' /\ Reservation(ghost'[r])
      BY <1>1, <2>3, <2>5 DEF Local, OpInv, SameSite
    <3>4. refiller'[r] = "off" <=> pc'[r] \notin {"sealing", "removed", "running", "stopping"}
      BY <1>1, <2>3 DEF Local, OpInv
    <3> QED
      BY <2>9, <3>1, <3>2, <3>3, <3>4 DEF OpInv
  <2>13. StartInv(r)'
    BY <1>1, <2>3, <2>5 DEF Local, StartInv
  <2>14. SharedInv' /\ AloneInv'
    <3>1. Own(r)' \subseteq Own(r)
      BY <2>3, <2>5, <2>9 DEF Own, Held, SameSite
    <3>2. tampers = 0 => highest'[r] <= hw'
      BY <1>1, <2>3, <2>4 DEF SharedInv, HighWaterCovers
    <3>3. snap'[r] \subseteq snap[r] /\ hw' >= hw /\ next'[r] >= next[r] /\ pc'[r] \notin Early /\ op'[r].prior = hw'
      BY <1>2, <2>3, <2>4, <2>9
    <3> QED
      BY <2>2, <2>3, <2>4, <2>5, <2>10, <3>1, <3>2, <3>3, QuietStep DEF Early
  <2> QED
    BY <2>2, <2>10, <2>11, <2>12, <2>13, <2>14, Assemble
<1> QED
  BY <1>3, <1>4 DEF ReserveRead

\* The compare-and-swap wins: the reservation is above all that was reserved.
LEMMA LandsKeeps ==
    ASSUME TemplateInv, NEW r \in Receiver, op[r].st = "read", Lands(op[r]), hw' = op[r].through,
           op' = [op EXCEPT ![r].st = "landed"],
           UNCHANGED <<startup, range, blocks, ledger, refiller, data, fixed, disk, ghost, starts, tampers>>
    PROVE  TemplateInv'
<1>1. TypesInv /\ Local(r) /\ SharedInv /\ AloneInv /\ \A s \in Receiver : Local(s)
  BY DEF TemplateInv
<1>2. /\ hw \in Int
      /\ (hw # Absent <=> hw >= 0) /\ hw <= MaxId /\ MaxId \in Nat /\ op[r] \in OpType /\ op[r].through \in 0..MaxId
      /\ op[r].after \in 0..MaxId /\ op[r].prior \in 0..MaxId /\ highest[r] \in Nat /\ next[r] \in Int /\ hw # Absent
  BY <1>1, Typed DEF OpType, Lands
<1>3. Only(r)
  BY <1>1 DEF TypesInv, Only, fixed, disk, range, blocks, startup
<1>4. /\ pc'[r] = pc[r] /\ trust'[r] = trust[r] /\ seen'[r] = seen[r] /\ ids'[r] = ids[r]
      /\ next'[r] = next[r] /\ end'[r] = end[r] /\ ready'[r] = ready[r] /\ highest'[r] = highest[r]
      /\ ledger'[r] = ledger[r] /\ refiller'[r] = refiller[r]
      /\ op'[r] = [op[r] EXCEPT !.st = "landed"] /\ ghost'[r] = ghost[r] /\ marker'[r] = marker[r]
      /\ snap'[r] = snap[r] /\ starts'[r] = starts[r] /\ hw' = op[r].through /\ data' = data
      /\ tampers' = tampers
  BY <1>1 DEF TypesInv, disk, range, blocks, startup
<1>5. op'[r].st = "landed" /\ op'[r].prior = op[r].prior /\ op'[r].after = op[r].after /\ op'[r].through = op[r].through /\ op'[r] \in OpType
  BY <1>2, <1>4 DEF OpType
<1>6. Reservation(op[r]) /\ highest[r] <= op[r].after /\ Len(ready[r]) < ReadyBlocks /\ (Filling(r) \/ Stopped(r))
  BY <1>1 DEF Local, OpInv
<1>7. pc[r] \notin Early /\ pc[r] # "down"
  BY <1>1, <1>6 DEF Local, OpInv, Filling, Stopped, Early
<1>8. Keeps(r) /\ SameSite /\ site' = site /\ r \in site.receivers
  BY <1>1, <1>3, <1>7, OnlyKeeps DEF Only, Local, StartInv
<1>9. TypesInv'
  <2>1. hw' \in Mark
    BY <1>2, <1>4 DEF Mark
  <2> QED
    BY <1>1, <1>3, <1>4, <1>5, <2>1, TypesFrom DEF TypesInv
<1>10. BlocksInv(r)'
  BY <1>1, <1>4, <1>8 DEF Local, BlocksInv, SameSite
<1>11. OpInv(r)'
  <2>1. Reservation(op'[r]) /\ highest'[r] <= op'[r].after /\ Len(ready'[r]) < ReadyBlocks' /\ (Filling(r)' \/ Stopped(r)')
    BY <1>4, <1>5, <1>6, <1>8 DEF Reservation, Filling, Stopped, SameSite
  <2>2. ghost'[r] # NoOp => Conditional' /\ Reservation(ghost'[r])
    BY <1>1, <1>4, <1>8 DEF Local, OpInv, SameSite
  <2>3. refiller'[r] = "off" <=> pc'[r] \notin {"sealing", "removed", "running", "stopping"}
    BY <1>1, <1>4 DEF Local, OpInv
  <2> QED
    BY <1>5, <2>1, <2>2, <2>3 DEF OpInv
<1>12. StartInv(r)'
  BY <1>1, <1>4, <1>8 DEF Local, StartInv
<1>13. NothingNew(r)
  BY <1>4, <1>7, KnownIs DEF NothingNew
<1>14. SharedInv'
  <2> SUFFICES ASSUME tampers = 0 PROVE HighWaterCovers'
    BY <1>4 DEF SharedInv
  <2>1. HighWaterCovers /\ Known' \subseteq Known /\ \A e \in Known : e.id \in Int
    BY <1>1, <1>3, <1>13, KnownShrinks, KnownTyped DEF SharedInv
  <2>2. hw = op[r].prior
    BY <2>1 DEF HighWaterCovers, Lands
  <2>3. hw <= op[r].after /\ op[r].after < hw' /\ hw' \in Int
    BY <1>2, <1>4, <1>6, <2>2 DEF Reservation
  <2>4. \A i \in Own(r)' : i \in Int /\ (i \in Own(r) \/ (hw < i /\ i <= hw'))
    <3>1. Id \subseteq Int
      BY <1>2 DEF Id
    <3> QED
      BY <1>2, <1>4, <1>5, <1>8, <2>3, <3>1 DEF Own, Held, SameSite
  <2>5. \A s \in Receiver : s # r => Own(s)' = Own(s)
    BY <1>1, <1>3, OwnStays
  <2>6. \A s \in Receiver : \A i \in Own(s) : i \in Int /\ i <= hw
    BY <1>2, <2>1 DEF Own, Held, Id, HighWaterCovers
  <2>7. Unique(Known)' /\ \A e \in Known' : e.id <= hw'
    BY <1>2, <2>1, <2>3 DEF HighWaterCovers, Unique
  <2>8. ASSUME NEW s \in Receiver, pc'[s] \notin Early PROVE highest'[s] <= hw'
    <3>1. highest[s] <= hw /\ highest'[s] = highest[s] /\ highest[s] \in Int
      BY <1>1, <1>4, <1>8, <2>1, <2>8, Typed DEF HighWaterCovers, Keeps
    <3> QED
      BY <1>2, <2>3, <3>1
  <2>9. \A s \in Receiver : \A i \in Own(s)' : i <= hw' /\ \A e \in Known' : e.id # i
    <3>1. ASSUME NEW s \in Receiver, NEW i \in Own(s)' PROVE i <= hw' /\ \A e \in Known' : e.id # i
      <4>1. CASE i \in Own(s)
        BY <1>2, <2>1, <2>3, <2>6, <4>1 DEF HighWaterCovers
      <4>2. CASE i \notin Own(s)
        <5>1. hw < i /\ i <= hw' /\ i \in Int
          BY <2>4, <2>5, <3>1, <4>2
        <5> QED
          BY <1>2, <2>1, <5>1 DEF HighWaterCovers
      <4> QED
        BY <4>1, <4>2
    <3> QED
      BY <3>1
  <2>10. ASSUME NEW s \in Receiver, NEW t \in Receiver, s # t, NEW i \in Own(s)', i \in Own(t)' PROVE FALSE
    <3>1. CASE i \in Own(s) /\ i \in Own(t)
      BY <2>1, <2>10, <3>1 DEF HighWaterCovers
    <3>2. CASE ~ (i \in Own(s) /\ i \in Own(t))
      BY <1>2, <2>4, <2>5, <2>6, <2>10, <3>2
    <3> QED
      BY <3>1, <3>2
  <2>11. ASSUME ~ Conditional, NEW s \in Receiver PROVE op'[s].st # "read"
    BY <1>1, <1>5, <1>8, <2>11, LoneWriter DEF Keeps, NoOp
  <2>12. hw' # Absent
    BY <1>2, <2>3 DEF Absent
  <2> QED
    BY <1>8, <2>7, <2>8, <2>9, <2>10, <2>11, <2>12 DEF HighWaterCovers, SameSite
<1>15. AloneInv'
  <2>1. ASSUME site.receivers = {r}, ~ blind
        PROVE  /\ marker'[r] # Absent => \A e \in data' \cup snap'[r] : e.id <= marker'[r]
               /\ pc'[r] = "scanned" => \A e \in data' : e.id <= seen'[r]
    BY <1>1, <1>4, <2>1 DEF AloneInv, MarkerCovers
  <2>2. next'[r] >= next[r] /\ snap'[r] \subseteq Known \cup snap[r] /\ tampers' = tampers
    BY <1>2, <1>4
  <2>3. tampers = 0 => hw' >= hw
    <3>1. tampers = 0 => hw = op[r].prior
      BY <1>1 DEF SharedInv, HighWaterCovers, Lands
    <3> QED
      BY <1>2, <1>4, <1>6, <3>1 DEF Reservation
  <2> QED
    BY <1>2, <1>3, <1>7, <1>8, <1>9, <1>13, <2>1, <2>2, <2>3, AloneCalm
<1> QED
  BY <1>3, <1>9, <1>10, <1>11, <1>12, <1>14, <1>15, Assemble

LEMMA ReserveWriteKeeps ==
    ASSUME TemplateInv, NEW r \in Receiver, ReserveWrite(r)
    PROVE  TemplateInv'
<1>1. TypesInv /\ Local(r) /\ op[r].st = "read"
  BY DEF TemplateInv, ReserveWrite
<1>2. hw \in Mark /\ hw \in Int /\ hw >= hw /\ marker[r] \in Mark
  BY <1>1, Typed DEF TypesInv
<1>3. UNCHANGED <<data, fixed, snap, ghost, starts, tampers>> /\ marker' = marker /\ disk' = disk
  BY DEF ReserveWrite, disk
<1>4. CASE hw' = hw /\ Abandons(r, TRUE)
  BY <1>2, <1>3, <1>4, AbandonsKeeps
<1>5. CASE hw' = hw /\ op' = [op EXCEPT ![r] = NoOp] /\ UNCHANGED <<startup, range, blocks, ledger, refiller>>
  <2>1. pc[r] \notin Early
    BY <1>1 DEF Local, OpInv, Filling, Stopped, Early
  <2>2. refiller' = [refiller EXCEPT ![r] = refiller'[r]] /\ refiller'[r] = refiller[r] /\ refiller[r] \in {"off", "idle", "filling", "stopped"}
    BY <1>1, <1>5 DEF TypesInv
  <2> QED
    BY <1>2, <1>3, <1>5, <2>1, <2>2, DropsKeeps
<1>6. CASE /\ Lands(op[r]) /\ hw' = op[r].through /\ op' = [op EXCEPT ![r].st = "landed"]
           /\ UNCHANGED <<startup, range, blocks, ledger, refiller, faults>>
  BY <1>1, <1>3, <1>6, LandsKeeps
<1>7. CASE hw' \in {hw, IF Lands(op[r]) THEN op[r].through ELSE hw} /\ Abandons(r, FALSE)
  <2>1. hw' \in Mark
    <3>1. op[r].through \in 0..MaxId
      BY <1>1, Typed DEF OpType
    <3> QED
      BY <1>2, <1>7, <3>1 DEF Mark
  <2>2. ASSUME tampers = 0 PROVE hw' >= hw
    <3>1. op[r] \in OpType /\ Reservation(op[r]) /\ MaxId \in Nat
      BY <1>1, Typed DEF Local, OpInv
    <3>2. Lands(op[r]) => hw = op[r].prior
      BY <1>1, <2>2 DEF Lands, TemplateInv, SharedInv, HighWaterCovers
    <3> QED
      BY <1>2, <1>7, <3>1, <3>2 DEF OpType, Reservation
  <2>3. hw = Absent => hw' = hw
    BY <1>7 DEF Lands
  <2> QED
    BY <1>2, <1>3, <1>7, <2>1, <2>2, <2>3, AbandonsKeeps
<1> QED
  BY <1>4, <1>5, <1>6, <1>7 DEF ReserveWrite

LEMMA Appended ==
    ASSUME NEW S, NEW q \in Seq(S), NEW e \in S
    PROVE  /\ Append(q, e) \in Seq(S) /\ Len(Append(q, e)) = Len(q) + 1
           /\ DOMAIN Append(q, e) = 1..(Len(q) + 1) /\ DOMAIN q = 1..Len(q)
           /\ \A k \in DOMAIN q : Append(q, e)[k] = q[k] /\ q[k] \in S
           /\ Append(q, e)[Len(q) + 1] = e
OBVIOUS

\* A landed reservation becomes the last ready block.
LEMMA ReadyKeeps ==
    ASSUME TemplateInv, NEW r \in Receiver, op[r].st = "landed", op' = [op EXCEPT ![r] = NoOp], Records(r, op[r].through),
           highest' = [highest EXCEPT ![r] = Max({@, op[r].through})],
           ready' = [ready EXCEPT ![r] = Append(@, [after |-> op[r].after, through |-> op[r].through])],
           UNCHANGED <<startup, range, ledger, refiller, hw, data, fixed, snap, ghost, starts, tampers>>
    PROVE  TemplateInv'
<1> DEFINE b == [after |-> op[r].after, through |-> op[r].through]
<1>1. TypesInv /\ Local(r) /\ SharedInv /\ AloneInv
  BY DEF TemplateInv
<1>2. /\ hw \in Int /\ MaxId \in Nat /\ op[r] \in OpType /\ op[r].through \in 0..MaxId /\ op[r].through \in Int
      /\ op[r].after \in 0..MaxId /\ op[r].after \in Int /\ highest[r] \in Nat /\ next[r] \in Int /\ end[r] \in Int
      /\ marker[r] \in Int
      /\ ready[r] \in Seq(BlockType) /\ Len(ready[r]) \in Nat /\ ReadyBlocks \in Nat /\ marker[r] <= MaxId /\ marker[r] >= -1
  BY <1>1, Typed DEF OpType
<1>3. op[r].after < op[r].through /\ highest[r] <= op[r].after /\ Len(ready[r]) < ReadyBlocks /\ (Filling(r) \/ Stopped(r))
  BY <1>1 DEF Local, OpInv, Reservation
<1>31. /\ op[r].through \in Int /\ op[r].after \in Int /\ op[r].after >= 0 /\ highest[r] \in Int /\ next[r] \in Int
       /\ end[r] \in Int
       /\ marker[r] \in Int /\ op[r].after < op[r].through /\ highest[r] <= op[r].after
  BY <1>2, <1>3
<1>4. Only(r)
  BY <1>1 DEF TypesInv, Only, fixed, range, blocks, startup, Records
<1>5. /\ pc'[r] = pc[r] /\ trust'[r] = trust[r] /\ seen'[r] = seen[r] /\ ids'[r] = ids[r]
      /\ next'[r] = next[r] /\ end'[r] = end[r]
      /\ ready'[r] = Append(ready[r], [after |-> op[r].after, through |-> op[r].through])
      /\ highest'[r] = op[r].through /\ ledger'[r] = ledger[r] /\ refiller'[r] = refiller[r]
      /\ op'[r] = NoOp /\ ghost'[r] = ghost[r]
      /\ marker'[r] = (IF ledger[r] THEN (IF marker[r] >= op[r].through THEN marker[r] ELSE op[r].through) ELSE marker[r])
      /\ snap'[r] = snap[r] /\ starts'[r] = starts[r] /\ hw' = hw /\ data' = data
      /\ tampers' = tampers
  <2>1. Max({highest[r], op[r].through}) = op[r].through
    <3>1. Max({highest[r], op[r].through}) = (IF highest[r] >= op[r].through THEN highest[r] ELSE op[r].through)
      BY ONLY <1>31, MaxOfTwo
    <3> QED
      BY ONLY <1>31, <3>1
  <2>2. Max({marker[r], op[r].through}) = (IF marker[r] >= op[r].through THEN marker[r] ELSE op[r].through)
    BY ONLY <1>31, MaxOfTwo
  <2> QED
    BY <1>1, <2>1, <2>2 DEF TypesInv, range, startup, Records
<1>6. pc[r] \notin Early /\ pc[r] # "down"
  BY <1>1, <1>3 DEF Local, OpInv, Filling, Stopped, Early
<1>7. SameSite /\ site' = site /\ r \in site.receivers
  BY <1>1, <1>4, <1>6, OnlyKeeps DEF Only, Local, StartInv
<1>8. b \in BlockType /\ b.after = op[r].after /\ b.through = op[r].through
  BY <1>2, <1>3 DEF BlockType
<1>9. /\ ready'[r] \in Seq(BlockType) /\ Len(ready'[r]) = Len(ready[r]) + 1
      /\ DOMAIN ready'[r] = 1..(Len(ready[r]) + 1) /\ DOMAIN ready[r] = 1..Len(ready[r])
      /\ \A k \in DOMAIN ready[r] : ready'[r][k] = ready[r][k] /\ ready[r][k] \in BlockType
      /\ ready'[r][Len(ready[r]) + 1] = b
  <2>1. ready'[r] = Append(ready[r], b) /\ ready[r] \in Seq(BlockType) /\ b \in BlockType
    BY <1>2, <1>5, <1>8
  <2> QED
    BY <2>1, Appended
<1>10. \A k \in DOMAIN ready[r] : ready[r][k].after \in Int /\ ready[r][k].through \in Int
  BY <1>1, <1>9, BlockNumbers
<1>11. /\ ledger[r] => highest'[r] <= marker'[r] /\ marker[r] # Absent
       /\ marker'[r] = marker[r] \/ (marker[r] # Absent /\ marker'[r] >= marker[r])
       /\ marker'[r] \in Mark /\ (marker'[r] = Absent <=> marker[r] = Absent)
  <2>1. ledger[r] => highest[r] <= marker[r]
    BY <1>1 DEF Local, StartInv
  <2> QED
    BY <1>2, <1>5, <2>1 DEF Mark, Absent
<1>12. TypesInv'
  <2>1. highest'[r] \in 0..MaxId /\ op'[r] \in OpType
    BY <1>2, <1>5 DEF NoOp, OpType
  <2> QED
    BY <1>1, <1>4, <1>5, <1>9, <1>11, <2>1, TypesFrom DEF TypesInv
<1>13. BlocksInv(r)'
  <2>1. ASSUME NEW k \in DOMAIN ready'[r]
        PROVE  /\ ready'[r][k].after < ready'[r][k].through /\ ready'[r][k].through <= highest'[r]
               /\ next'[r] <= ready'[r][k].after + 1 /\ end'[r] <= ready'[r][k].after + 1
               /\ \A j \in DOMAIN ready'[r] : j < k => ready'[r][j].through <= ready'[r][k].after
    <3>1. CASE k \in DOMAIN ready[r]
      <4>1. /\ ready[r][k].after < ready[r][k].through /\ ready[r][k].through <= highest[r]
            /\ next[r] <= ready[r][k].after + 1 /\ end[r] <= ready[r][k].after + 1
            /\ \A j \in DOMAIN ready[r] : j < k => ready[r][j].through <= ready[r][k].after
        BY <1>1, <3>1 DEF Local, BlocksInv
      <4>2. \A j \in DOMAIN ready'[r] : j < k => j \in DOMAIN ready[r]
        BY <1>2, <1>9, <3>1
      <4>3. ready'[r][k] = ready[r][k] /\ next'[r] = next[r] /\ end'[r] = end[r] /\ highest'[r] = op[r].through
        BY <1>5, <1>9, <3>1
      <4>4. ready'[r][k].through <= highest'[r]
        <5>1. ready[r][k].through \in Int /\ ready[r][k].through <= highest[r]
          BY <1>10, <3>1, <4>1
        <5>2. ready[r][k].through <= op[r].through
          BY <1>31, <5>1
        <5> QED
          BY <4>3, <5>2
      <4>5. \A j \in DOMAIN ready'[r] : j < k => ready'[r][j].through <= ready'[r][k].after
        BY <1>9, <4>1, <4>2, <4>3
      <4> QED
        BY <4>1, <4>3, <4>4, <4>5
    <3>2. CASE k = Len(ready[r]) + 1
      <4>1. ready'[r][k] = b
        BY <1>9, <3>2
      <4>2. \A j \in DOMAIN ready[r] : ready[r][j].through <= highest[r]
        BY <1>1 DEF Local, BlocksInv
      <4>3. \A j \in DOMAIN ready'[r] : j < k => j \in DOMAIN ready[r]
        BY <1>2, <1>9, <3>2
      <4>4. next[r] <= highest[r] + 1 /\ (end[r] = 1 \/ end[r] <= highest[r] + 1)
        BY <1>1, <1>6 DEF Local, BlocksInv
      <4>5. next'[r] = next[r] /\ end'[r] = end[r] /\ highest'[r] = op[r].through
        BY <1>5
      <4>6. next[r] <= op[r].after + 1 /\ end[r] <= op[r].after + 1
        BY ONLY <1>31, <4>4
      <4>7. ASSUME NEW j \in DOMAIN ready'[r], j < k PROVE ready'[r][j].through <= op[r].after
        <5>1. j \in DOMAIN ready[r] /\ ready'[r][j] = ready[r][j] /\ ready[r][j].through \in Int /\ ready[r][j].through <= highest[r]
          BY <1>9, <1>10, <4>2, <4>3, <4>7
        <5> QED
          BY <1>2, <1>3, <5>1
      <4> QED
        BY <1>31, <1>8, <4>1, <4>5, <4>6, <4>7
    <3> QED
      BY <1>2, <1>9, <2>1, <3>1, <3>2
  <2>2. /\ pc'[r] \notin Early /\ next'[r] <= highest'[r] + 1
        /\ end'[r] = 1 \/ (end'[r] <= highest'[r] + 1 /\ next'[r] <= end'[r])
        /\ \A e \in ids'[r] : e.id < next'[r]
        /\ Len(ready'[r]) <= ReadyBlocks'
    <3>1. /\ next[r] <= highest[r] + 1 /\ (end[r] = 1 \/ (end[r] <= highest[r] + 1 /\ next[r] <= end[r]))
          /\ \A e \in ids[r] : e.id < next[r]
      BY <1>1, <1>6 DEF Local, BlocksInv
    <3>2. /\ pc'[r] = pc[r] /\ next'[r] = next[r] /\ end'[r] = end[r] /\ highest'[r] = op[r].through /\ ids'[r] = ids[r]
          /\ ReadyBlocks' = ReadyBlocks /\ Len(ready'[r]) = Len(ready[r]) + 1
      BY <1>5, <1>7, <1>9 DEF SameSite
    <3>3. next[r] <= op[r].through + 1 /\ (end[r] = 1 \/ (end[r] <= op[r].through + 1 /\ next[r] <= end[r]))
      BY ONLY <1>31, <3>1
    <3>4. Len(ready[r]) + 1 <= ReadyBlocks
      BY <1>2, <1>3
    <3> QED
      BY <1>6, <3>1, <3>2, <3>3, <3>4
  <2> QED
    BY <2>1, <2>2 DEF BlocksInv
<1>14. OpInv(r)'
  BY <1>1, <1>5, <1>7 DEF Local, OpInv, SameSite, NoOp
<1>15. StartInv(r)'
  BY <1>1, <1>5, <1>6, <1>7, <1>11 DEF Local, StartInv, Starting, Early, Pcs
<1>16. SharedInv' /\ AloneInv'
  <2>1. Own(r)' \subseteq Own(r)
    <3>1. ASSUME NEW i \in Own(r)' PROVE i \in Own(r)
      <4>1. i \in Id /\ op'[r].st = "none"
        BY <1>5, <1>7, <3>1 DEF Own, Held, SameSite, NoOp
      <4>2. CASE i >= next[r] /\ i < end[r]
        BY <4>1, <4>2 DEF Own, Held
      <4>3. CASE \E k \in DOMAIN ready'[r] : i > ready'[r][k].after /\ i <= ready'[r][k].through
        <5>1. PICK k \in DOMAIN ready'[r] : i > ready'[r][k].after /\ i <= ready'[r][k].through
          BY <4>3
        <5>2. CASE k \in DOMAIN ready[r]
          BY <1>9, <4>1, <5>1, <5>2 DEF Own, Held
        <5>3. CASE k = Len(ready[r]) + 1
          <6>1. op[r].after < i /\ i <= op[r].through
            BY <1>2, <1>8, <1>9, <4>1, <5>1, <5>3 DEF Id
          <6> QED
            BY <4>1, <6>1 DEF Own
        <5> QED
          BY <1>2, <1>9, <5>1, <5>2, <5>3
      <4> QED
        BY <1>5, <3>1, <4>1, <4>2, <4>3 DEF Own, Held
    <3> QED
      BY <3>1
  <2>2. tampers = 0 => highest'[r] <= hw'
    <3>1. op[r].through \in Own(r)
      BY <1>2, <1>3 DEF Own, Id
    <3> QED
      BY <1>1, <1>5, <3>1 DEF SharedInv, HighWaterCovers
  <2>3. /\ snap'[r] \subseteq snap[r] /\ hw' >= hw /\ next'[r] >= next[r] /\ pc'[r] \notin Early /\ op'[r].st # "read"
        /\ ids'[r] = ids[r] /\ data' = data /\ tampers' = tampers /\ ghost'[r] = ghost[r]
    BY <1>2, <1>5, <1>6 DEF NoOp
  <2> QED
    BY <1>4, <1>5, <1>6, <1>7, <1>11, <1>12, <2>1, <2>2, <2>3, QuietStep DEF Early
<1> QED
  BY <1>4, <1>12, <1>13, <1>14, <1>15, <1>16, Assemble

LEMMA MakeReadyKeeps ==
    ASSUME TemplateInv, NEW r \in Receiver, MakeReady(r)
    PROVE  TemplateInv'
<1>1. TypesInv /\ Local(r) /\ op[r].st = "landed"
  BY DEF TemplateInv, MakeReady
<1>2. hw \in Mark /\ hw \in Int /\ hw >= hw /\ marker[r] \in Mark
  BY <1>1, Typed DEF TypesInv
<1>3. UNCHANGED <<hw, data, fixed, snap, ghost, starts, tampers>>
  BY DEF MakeReady
<1>4. CASE op' = [op EXCEPT ![r] = NoOp] /\ UNCHANGED <<marker, startup, range, blocks, ledger, refiller>>
  <2>1. pc[r] \notin Early
    BY <1>1 DEF Local, OpInv, Filling, Stopped, Early
  <2>2. refiller' = [refiller EXCEPT ![r] = refiller'[r]] /\ refiller'[r] = refiller[r] /\ refiller[r] \in {"off", "idle", "filling", "stopped"}
    BY <1>1, <1>4 DEF TypesInv
  <2> QED
    BY <1>2, <1>3, <1>4, <2>1, <2>2, DropsKeeps
<1>5. CASE /\ op' = [op EXCEPT ![r] = NoOp] /\ Records(r, op[r].through)
           /\ highest' = [highest EXCEPT ![r] = Max({@, op[r].through})]
           /\ ready' = [ready EXCEPT ![r] = Append(@, [after |-> op[r].after, through |-> op[r].through])]
           /\ UNCHANGED <<startup, range, ledger, refiller>>
  BY <1>1, <1>3, <1>5, ReadyKeeps
<1>6. CASE ledger[r] /\ Abandons(r, FALSE) /\ (UNCHANGED marker \/ Records(r, op[r].through))
  <2>1. op[r].through \in 0..MaxId /\ op[r].through \in Int /\ marker[r] \in Int /\ highest[r] \in Nat /\ highest[r] <= marker[r] /\ MaxId \in Nat
    BY <1>1, <1>6, Typed DEF OpType, Local, StartInv
  <2>2. Max({marker[r], op[r].through}) = (IF marker[r] >= op[r].through THEN marker[r] ELSE op[r].through)
    BY <2>1, MaxOfTwo
  <2>3. CASE Records(r, op[r].through)
    <3>1. marker' = [marker EXCEPT ![r] = marker'[r]] /\ marker'[r] = (IF marker[r] >= op[r].through THEN marker[r] ELSE op[r].through)
      BY <1>1, <1>6, <2>2, <2>3 DEF Records, TypesInv
    <3>2. marker[r] # Absent /\ marker'[r] >= marker[r] /\ marker'[r] \in Mark
      BY <1>2, <2>1, <3>1 DEF Mark, Absent
    <3> QED
      BY <1>2, <1>3, <1>6, <3>1, <3>2, AbandonsKeeps
  <2>4. CASE UNCHANGED marker
    BY <1>2, <1>3, <1>6, <2>4, AbandonsKeeps
  <2> QED
    BY <1>6, <2>3, <2>4
<1> QED
  BY <1>4, <1>5, <1>6 DEF MakeReady
-----------------------------------------------------------------------------
(* Taking a block, and issuing from it.                                    *)

\* Every ready block reaches above what was issued, so the first is taken whole.
LEMMA TakesFirst ==
    ASSUME TypesInv, NEW r \in Receiver, BlocksInv(r), Reaching(r) # {}
    PROVE  /\ 1 \in DOMAIN ready[r] /\ Takes(r).after = ready[r][1].after /\ Takes(r).through = ready[r][1].through
           /\ Takes(r).left \in Seq(BlockType) /\ Len(Takes(r).left) = Len(ready[r]) - 1
           /\ \A k \in DOMAIN Takes(r).left : k + 1 \in DOMAIN ready[r] /\ Takes(r).left[k] = ready[r][k + 1] /\ k \in Nat /\ k >= 1
<1>1. ready[r] \in Seq(BlockType) /\ Len(ready[r]) \in Nat /\ next[r] \in Int /\ DOMAIN ready[r] = 1..Len(ready[r])
  BY Typed
<1>2. ASSUME NEW k \in DOMAIN ready[r]
      PROVE  ready[r][k].after \in Int /\ ready[r][k].through \in Int /\ next[r] <= ready[r][k].after + 1 /\ ready[r][k].after < ready[r][k].through
  <2>1. ready[r][k] \in BlockType
    BY <1>1, <1>2
  <2>2. next[r] <= ready[r][k].after + 1 /\ ready[r][k].after < ready[r][k].through
    BY <1>2 DEF BlocksInv
  <2> QED
    BY <2>1, <2>2, BlockNumbers
<1>3. \A k \in DOMAIN ready[r] : ready[r][k].through >= next[r]
  BY <1>1, <1>2
<1>4. Reaching(r) = DOMAIN ready[r]
  BY <1>3 DEF Reaching
<1>5. 1 \in DOMAIN ready[r]
  BY <1>1, <1>4
<1>6. Min(Reaching(r)) = 1
  <2>1. Reaching(r) \in SUBSET Nat
    BY <1>1, <1>4
  <2>2. Min(Reaching(r)) \in Reaching(r) /\ \A y \in Reaching(r) : Min(Reaching(r)) <= y
    BY <2>1, LeastExists
  <2> QED
    BY <1>1, <1>4, <1>5, <2>2
<1>7. Max({ready[r][1].after, next[r] - 1}) = ready[r][1].after
  <2>1. ready[r][1].after \in Int /\ next[r] <= ready[r][1].after + 1
    BY <1>2, <1>5
  <2> QED
    BY <1>1, <2>1, MaxOfTwo
<1>8. Takes(r) = [after |-> ready[r][1].after, through |-> ready[r][1].through, left |-> SubSeq(ready[r], 2, Len(ready[r]))]
  <2>1. Takes(r) = [after |-> Max({ready[r][1].after, next[r] - 1}), through |-> ready[r][1].through,
                    left |-> SubSeq(ready[r], 1 + 1, Len(ready[r]))]
    BY <1>6, Zenon DEF Takes
  <2>2. 1 + 1 = 2
    OBVIOUS
  <2> QED
    BY <1>7, <2>1, <2>2, Zenon
<1>9. Takes(r).left = SubSeq(ready[r], 2, Len(ready[r])) /\ Takes(r).after = ready[r][1].after /\ Takes(r).through = ready[r][1].through
  BY <1>8
<1>10. /\ SubSeq(ready[r], 2, Len(ready[r])) \in Seq(BlockType)
       /\ Len(SubSeq(ready[r], 2, Len(ready[r]))) = Len(ready[r]) - 1
       /\ DOMAIN SubSeq(ready[r], 2, Len(ready[r])) = 1..(Len(ready[r]) - 1)
       /\ \A k \in 1..(Len(ready[r]) - 1) : SubSeq(ready[r], 2, Len(ready[r]))[k] = ready[r][k + 1]
  BY <1>1, <1>5
<1> QED
  BY <1>1, <1>5, <1>9, <1>10

\* What is left once the first block is taken, with its first id issued or not.
LEMMA TakenBlocks ==
    ASSUME TypesInv, NEW r \in Receiver, Local(r), Only(r), Reaching(r) # {}, pc[r] \notin Early, pc'[r] \notin Early,
           next'[r] \in {Takes(r).after + 1, Takes(r).after + 2}, end'[r] = Takes(r).through + 1,
           ready'[r] = Takes(r).left, highest'[r] = highest[r], op'[r] = op[r],
           ids'[r] = ids[r] \/ (next'[r] = Takes(r).after + 2 /\ ids'[r] = ids[r] \cup {Entry(r, Takes(r).after + 1)})
    PROVE  /\ next'[r] \in 1..(MaxId + 1) /\ end'[r] \in 1..(MaxId + 1) /\ ready'[r] \in Seq(BlockType)
           /\ next[r] <= Takes(r).after + 1 /\ Takes(r).after + 1 <= next'[r]
           /\ Takes(r).after \in Int /\ Takes(r).after + 1 \in Own(r) /\ Own(r)' \subseteq Own(r)
           /\ next'[r] = Takes(r).after + 2 => Takes(r).after + 1 \notin Own(r)'
           /\ BlocksInv(r)' /\ Len(ready'[r]) < Len(ready[r])
<1> DEFINE a == Takes(r).after
           t == Takes(r).through
<1>1. BlocksInv(r) /\ OpInv(r) /\ SameSite
  BY OnlyKeeps DEF Local
<1>2. /\ 1 \in DOMAIN ready[r] /\ a = ready[r][1].after /\ t = ready[r][1].through
      /\ Takes(r).left \in Seq(BlockType) /\ Len(Takes(r).left) = Len(ready[r]) - 1
      /\ \A k \in DOMAIN Takes(r).left : k + 1 \in DOMAIN ready[r] /\ Takes(r).left[k] = ready[r][k + 1] /\ k \in Nat /\ k >= 1
  BY <1>1, TakesFirst
<1>3. ASSUME NEW k \in DOMAIN ready[r]
      PROVE  ready[r][k].after \in Int /\ ready[r][k].through \in Int /\ ready[r][k].after >= 0 /\ ready[r][k].through <= MaxId
  <2>1. ready[r][k] \in BlockType
    BY <1>3, Typed
  <2> QED
    BY <2>1, BlockNumbers
<1>4. /\ a \in Int /\ t \in Int /\ a >= 0 /\ t <= MaxId /\ a < t /\ t <= highest[r] /\ next[r] <= a + 1
      /\ next[r] \in Int /\ highest[r] \in Int /\ MaxId \in Nat /\ Len(ready[r]) \in Nat /\ ReadyBlocks \in Nat
  <2>1. ready[r][1].after < ready[r][1].through /\ ready[r][1].through <= highest[r] /\ next[r] <= ready[r][1].after + 1
    BY <1>1, <1>2 DEF BlocksInv
  <2>2. next[r] \in Int /\ highest[r] \in Int /\ MaxId \in Nat /\ Len(ready[r]) \in Nat /\ ReadyBlocks \in Nat
    BY Typed
  <2> QED
    BY <1>2, <1>3, <2>1, <2>2
<1>41. a \in Int /\ t \in Int /\ a >= 0 /\ a < t /\ t <= highest[r] /\ highest[r] \in Int /\ next[r] <= a + 1 /\ next[r] \in Int
  BY ONLY <1>4
<1>42. next'[r] \in Int /\ next'[r] <= t + 1 /\ a + 1 <= next'[r] /\ end'[r] = t + 1 /\ highest'[r] = highest[r]
  <2>1. next'[r] \in {a + 1, a + 2}
    OBVIOUS
  <2>2. next'[r] \in Int /\ next'[r] <= t + 1 /\ a + 1 <= next'[r]
    BY ONLY <1>41, <2>1
  <2> QED
    BY <2>2
<1>5. ASSUME NEW k \in DOMAIN ready'[r]
      PROVE  /\ ready'[r][k] = ready[r][k + 1] /\ k + 1 \in DOMAIN ready[r] /\ k \in Nat
             /\ t <= ready[r][k + 1].after /\ ready[r][k + 1].after < ready[r][k + 1].through
             /\ ready[r][k + 1].through <= highest[r]
             /\ ready[r][k + 1].after \in Int
  <2>1. ready'[r][k] = ready[r][k + 1] /\ k + 1 \in DOMAIN ready[r] /\ k \in Nat /\ 1 < k + 1 /\ 1 \in DOMAIN ready[r]
    BY <1>2, <1>5
  <2> QED
    BY <1>1, <1>2, <1>3, <2>1 DEF BlocksInv
<1>6. BlocksInv(r)'
  <2>1. ASSUME NEW k \in DOMAIN ready'[r]
        PROVE  /\ ready'[r][k].after < ready'[r][k].through /\ ready'[r][k].through <= highest'[r]
               /\ next'[r] <= ready'[r][k].after + 1 /\ end'[r] <= ready'[r][k].after + 1
               /\ \A j \in DOMAIN ready'[r] : j < k => ready'[r][j].through <= ready'[r][k].after
    <3>2. next'[r] <= ready'[r][k].after + 1 /\ end'[r] <= ready'[r][k].after + 1
      <4>1. ready'[r][k].after = ready[r][k + 1].after /\ t <= ready[r][k + 1].after /\ ready[r][k + 1].after \in Int
        BY <1>5, <2>1
      <4> QED
        BY ONLY <1>41, <1>42, <4>1
    <3>3. ASSUME NEW j \in DOMAIN ready'[r], j < k PROVE ready'[r][j].through <= ready'[r][k].after
      <4>1. ready'[r][j] = ready[r][j + 1] /\ ready'[r][k] = ready[r][k + 1] /\ j + 1 < k + 1 /\ j + 1 \in DOMAIN ready[r] /\ k + 1 \in DOMAIN ready[r]
        BY <1>5, <2>1, <3>3
      <4> QED
        BY <1>1, <4>1 DEF BlocksInv
    <3> QED
      BY <1>5, <2>1, <3>2, <3>3
  <2>2. next'[r] <= highest'[r] + 1 /\ end'[r] <= highest'[r] + 1 /\ next'[r] <= end'[r]
    BY ONLY <1>41, <1>42
  <2>3. \A e \in ids'[r] : e.id < next'[r]
    <3>1. \A e \in ids[r] : e.id < next[r] /\ e.id \in Int
      BY <1>1, Typed DEF BlocksInv, EntryType
    <3>2. Entry(r, a + 1).id = a + 1
      BY DEF Entry
    <3> QED
      BY <1>4, <3>1, <3>2
  <2>4. Len(ready'[r]) <= ReadyBlocks'
    BY <1>1, <1>2, <1>4 DEF BlocksInv, SameSite
  <2> QED
    BY <2>1, <2>2, <2>3, <2>4 DEF BlocksInv
<1>7. /\ next'[r] \in 1..(MaxId + 1) /\ end'[r] \in 1..(MaxId + 1) /\ ready'[r] \in Seq(BlockType)
      /\ next[r] <= a + 1 /\ a + 1 <= next'[r] /\ Len(ready'[r]) < Len(ready[r])
  <2>1. next'[r] \in 1..(MaxId + 1) /\ end'[r] \in 1..(MaxId + 1)
    BY ONLY <1>4, <1>42
  <2>2. ready'[r] \in Seq(BlockType) /\ Len(ready'[r]) < Len(ready[r])
    BY <1>2, <1>4
  <2>3. next[r] <= a + 1 /\ a + 1 <= next'[r]
    BY <1>4
  <2> QED
    BY <2>1, <2>2, <2>3
<1>8. a + 1 \in Own(r)
  <2>1. a + 1 \in Id
    BY <1>4 DEF Id
  <2>2. a + 1 > ready[r][1].after /\ a + 1 <= ready[r][1].through
    BY <1>2, <1>4
  <2> QED
    BY <1>2, <2>1, <2>2 DEF Own, Held
<1>9. Own(r)' \subseteq Own(r)
  <2>1. ASSUME NEW i \in Own(r)' PROVE i \in Own(r)
    <3>1. i \in Id /\ i \in Int
      BY <1>1, <1>4, <2>1 DEF Own, Held, SameSite, Id
    <3>2. CASE i >= next'[r] /\ i < end'[r]
      <4>1. i > a /\ i <= t
        BY ONLY <1>41, <1>42, <3>1, <3>2
      <4> QED
        BY <1>2, <3>1, <4>1 DEF Own, Held
    <3>3. CASE \E k \in DOMAIN ready'[r] : i > ready'[r][k].after /\ i <= ready'[r][k].through
      BY <1>5, <3>1, <3>3 DEF Own, Held
    <3>4. CASE op[r].st = "landed" /\ op[r].after < i /\ i <= op[r].through
      BY <3>1, <3>4 DEF Own
    <3> QED
      BY <2>1, <3>2, <3>3, <3>4 DEF Own, Held
  <2> QED
    BY <2>1
<1>10. ASSUME next'[r] = a + 2, a + 1 \in Own(r)' PROVE FALSE
  <2>1. CASE a + 1 >= next'[r]
    BY <1>4, <1>10, <2>1
  <2>2. CASE \E k \in DOMAIN ready'[r] : a + 1 > ready'[r][k].after
    <3>1. PICK k \in DOMAIN ready'[r] : a + 1 > ready'[r][k].after
      BY <2>2
    <3>2. ready'[r][k].after \in Int /\ t <= ready'[r][k].after
      BY <1>5, <3>1
    <3> QED
      BY ONLY <1>41, <3>1, <3>2
  <2>3. CASE op[r].st = "landed" /\ op[r].after < a + 1
    <3>1. highest[r] <= op[r].after /\ op[r].after \in Int
      BY <1>1, <2>3, Typed DEF OpInv, OpType
    <3> QED
      BY <1>4, <2>3, <3>1
  <2> QED
    BY <1>10, <2>1, <2>2, <2>3 DEF Own, Held
<1> QED
  BY <1>4, <1>6, <1>7, <1>8, <1>9, <1>10

\* A start or a refiller goes on to its next step.
LEMMA GoesOnKeeps ==
    ASSUME TemplateInv, NEW r \in Receiver, pc' = [pc EXCEPT ![r] = pc'[r]], refiller' = [refiller EXCEPT ![r] = refiller'[r]],
           \/ pc[r] \in {"fill1", "fill2"} /\ pc'[r] = "filled" /\ refiller'[r] = refiller[r] /\ op[r] = NoOp
           \/ pc[r] = "refilling" /\ pc'[r] = "replay" /\ refiller'[r] = refiller[r] /\ op[r] = NoOp
           \/ refiller[r] = "filling" /\ refiller'[r] = "idle" /\ pc'[r] = pc[r] /\ op[r] = NoOp
           \/ pc[r] = "replay" /\ pc'[r] = "refilling" /\ refiller'[r] = refiller[r]
           \/ pc[r] = "running" /\ refiller'[r] = (IF refiller[r] = "idle" THEN "filling" ELSE refiller[r]) /\ pc'[r] = pc[r],
           UNCHANGED <<hw, data, fixed, disk, trust, seen, range, blocks, ledger, op, ghost, bounds>>
    PROVE  TemplateInv'
<1>1. TypesInv /\ Local(r) /\ SharedInv /\ AloneInv
  BY DEF TemplateInv
<1>2. Only(r)
  BY <1>1 DEF TypesInv, Only, fixed, disk, range, blocks, bounds
<1>3. /\ trust'[r] = trust[r] /\ seen'[r] = seen[r] /\ ids'[r] = ids[r] /\ next'[r] = next[r]
      /\ end'[r] = end[r] /\ ready'[r] = ready[r] /\ highest'[r] = highest[r]
      /\ ledger'[r] = ledger[r] /\ op'[r] = op[r] /\ ghost'[r] = ghost[r] /\ marker'[r] = marker[r]
      /\ snap'[r] = snap[r] /\ starts'[r] = starts[r] /\ hw' = hw /\ data' = data
      /\ tampers' = tampers
  BY <1>1 DEF TypesInv, disk, range, blocks, bounds
<1>4. pc[r] \notin Early /\ pc'[r] \notin Early /\ pc[r] # "down" /\ pc'[r] \in Pcs
      /\ refiller'[r] \in {"off", "idle", "filling", "stopped"}
  <2>1. pc[r] \in Pcs /\ refiller[r] \in {"off", "idle", "filling", "stopped"}
    BY <1>1 DEF TypesInv
  <2> QED
    BY <1>1, <2>1 DEF Local, OpInv, Early, Pcs
<1>5. SameSite /\ site' = site /\ r \in site.receivers
  BY <1>1, <1>2, <1>4, OnlyKeeps DEF Only, Local, StartInv
<1>6. TypesInv'
  BY <1>1, <1>2, <1>3, <1>4, TypesFrom DEF TypesInv
<1>7. BlocksInv(r)'
  BY <1>1, <1>3, <1>4, <1>5 DEF Local, BlocksInv, SameSite
<1>8. OpInv(r)'
  BY <1>1, <1>3, <1>5 DEF Local, OpInv, SameSite, Reservation, Filling, Stopped, NoOp
<1>9. StartInv(r)'
  BY <1>1, <1>3, <1>5 DEF Local, StartInv, Starting, Early, Pcs
<1>10. SharedInv' /\ AloneInv'
  <2>1. Own(r)' = Own(r)
    BY <1>1, <1>2, <1>3, SameOwn
  <2>2. tampers = 0 => highest[r] <= hw /\ (~ Conditional /\ op[r].st = "read" => op[r].prior = hw)
    BY <1>1, <1>4 DEF SharedInv, HighWaterCovers
  <2>3. hw' >= hw /\ next'[r] >= next[r]
    BY <1>1, <1>3, Typed
  <2> QED
    BY <1>2, <1>3, <1>4, <1>5, <1>6, <2>1, <2>2, <2>3, QuietStep DEF Early
<1> QED
  BY <1>2, <1>6, <1>7, <1>8, <1>9, <1>10, Assemble

LEMMA TakesKeeps ==
    ASSUME TemplateInv, NEW r \in Receiver, pc[r] = "fill1", Reaching(r) # {}, op[r] = NoOp,
           next' = [next EXCEPT ![r] = Takes(r).after + 1], end' = [end EXCEPT ![r] = Takes(r).through + 1],
           ready' = [ready EXCEPT ![r] = Takes(r).left], Goes(r, "fill2"),
           UNCHANGED <<hw, data, fixed, disk, trust, seen, ids, highest, ledger, refiller, op, ghost, bounds>>
    PROVE  TemplateInv'
<1>1. TypesInv /\ Local(r) /\ SharedInv /\ AloneInv
  BY DEF TemplateInv
<1>2. Only(r)
  BY <1>1 DEF TypesInv, Only, Goes, fixed, disk, bounds
<1>3. /\ pc'[r] = "fill2" /\ trust'[r] = trust[r] /\ seen'[r] = seen[r] /\ ids'[r] = ids[r]
      /\ next'[r] = Takes(r).after + 1 /\ end'[r] = Takes(r).through + 1 /\ ready'[r] = Takes(r).left
      /\ highest'[r] = highest[r] /\ ledger'[r] = ledger[r] /\ refiller'[r] = refiller[r]
      /\ op'[r] = op[r] /\ ghost'[r] = ghost[r] /\ marker'[r] = marker[r] /\ snap'[r] = snap[r]
      /\ starts'[r] = starts[r] /\ hw' = hw /\ data' = data /\ tampers' = tampers
  BY <1>1 DEF TypesInv, Goes, disk, bounds
<1>4. pc[r] \notin Early /\ pc'[r] \notin Early /\ pc[r] # "down" /\ pc'[r] \in Pcs
  BY <1>3 DEF Early, Pcs
<1>5. SameSite /\ site' = site /\ r \in site.receivers
  BY <1>1, <1>2, <1>4, OnlyKeeps DEF Only, Local, StartInv
<1>6. /\ next'[r] \in 1..(MaxId + 1) /\ end'[r] \in 1..(MaxId + 1) /\ ready'[r] \in Seq(BlockType)
      /\ next[r] <= Takes(r).after + 1 /\ Own(r)' \subseteq Own(r) /\ BlocksInv(r)'
  BY <1>1, <1>2, <1>3, <1>4, TakenBlocks
<1>7. TypesInv'
  BY <1>1, <1>2, <1>3, <1>4, <1>6, TypesFrom DEF TypesInv
<1>8. OpInv(r)'
  BY <1>1, <1>3, <1>5 DEF Local, OpInv, SameSite, NoOp
<1>9. StartInv(r)'
  BY <1>1, <1>3, <1>5 DEF Local, StartInv, Starting, Early, Pcs
<1>10. SharedInv' /\ AloneInv'
  <2>1. tampers = 0 => highest[r] <= hw
    BY <1>1, <1>4 DEF SharedInv, HighWaterCovers
  <2>2. hw' >= hw /\ next'[r] >= next[r] /\ op'[r].st # "read"
    BY <1>1, <1>3, <1>6, Typed DEF NoOp
  <2> QED
    BY <1>2, <1>3, <1>4, <1>5, <1>6, <1>7, <2>1, <2>2, QuietStep DEF Early
<1> QED
  BY <1>2, <1>6, <1>7, <1>8, <1>9, <1>10, Assemble

LEMMA FillDoneKeeps ==
    ASSUME TemplateInv, NEW r \in Receiver, FillDone(r)
    PROVE  TemplateInv'
<1>1. TypesInv /\ op[r] = NoOp /\ UNCHANGED <<hw, data, fixed, disk, trust, seen, ids, highest, ledger, op, ghost, bounds>>
  BY DEF TemplateInv, FillDone
<1>2. CASE /\ pc[r] = "fill1" /\ Reaching(r) # {}
           /\ next' = [next EXCEPT ![r] = Takes(r).after + 1]
           /\ end' = [end EXCEPT ![r] = Takes(r).through + 1]
           /\ ready' = [ready EXCEPT ![r] = Takes(r).left]
           /\ Goes(r, "fill2") /\ UNCHANGED refiller
  BY <1>1, <1>2, TakesKeeps
<1>3. CASE UNCHANGED <<next, end, ready>> /\ ((pc[r] \in {"fill1", "fill2"} /\ Goes(r, "filled")) \/ (pc[r] = "refilling" /\ Goes(r, "replay"))) /\ UNCHANGED refiller
  <2>1. pc' = [pc EXCEPT ![r] = pc'[r]] /\ refiller' = [refiller EXCEPT ![r] = refiller'[r]] /\ refiller'[r] = refiller[r]
        /\ ((pc[r] \in {"fill1", "fill2"} /\ pc'[r] = "filled") \/ (pc[r] = "refilling" /\ pc'[r] = "replay"))
    BY <1>1, <1>3 DEF TypesInv, Goes
  <2> QED
    BY <1>1, <1>3, <2>1, GoesOnKeeps DEF range, blocks
<1>4. CASE refiller[r] = "filling" /\ refiller' = [refiller EXCEPT ![r] = "idle"] /\ UNCHANGED <<pc, next, end, ready>>
  <2>1. pc' = [pc EXCEPT ![r] = pc'[r]] /\ refiller' = [refiller EXCEPT ![r] = refiller'[r]] /\ refiller'[r] = "idle" /\ pc'[r] = pc[r]
    BY <1>1, <1>4 DEF TypesInv
  <2> QED
    BY <1>1, <1>4, <2>1, GoesOnKeeps DEF range, blocks
<1> QED
  BY <1>2, <1>3, <1>4 DEF FillDone

\* An id that is a receiver's to issue becomes a template's.
LEMMA IssueShared ==
    ASSUME TemplateInv, NEW r \in Receiver, Only(r), TypesInv', r \in site.receivers, pc[r] \notin Early, pc'[r] \notin Early,
           NEW i \in Own(r), i \in Int, next[r] <= i, i < next'[r], next[r] <= next'[r],
           ids'[r] = ids[r] \cup {Entry(r, i)}, Own(r)' \subseteq Own(r), i \notin Own(r)',
           hw' = hw, data' = data, tampers' = tampers, marker'[r] = marker[r], snap'[r] = snap[r],
           highest'[r] = highest[r], op'[r] = op[r], ghost'[r] = ghost[r]
    PROVE  SharedInv' /\ AloneInv'
<1> DEFINE f == Entry(r, i)
<1>1. TypesInv /\ SharedInv /\ AloneInv /\ Keeps(r) /\ SameSite
  BY OnlyKeeps DEF TemplateInv
<1>2. f.id = i /\ hw \in Int /\ next[r] \in Int /\ next'[r] \in Int /\ \A e \in Known : e.id \in Int
  <2>1. next'[r] \in 1..(MaxId + 1) /\ MaxId \in Nat
    BY <1>1, Typed DEF TypesInv, SameSite
  <2> QED
    BY <1>1, <2>1, Typed, KnownTyped DEF Entry
<1>3. Known' \subseteq Known \cup {f}
  <2>1. data \subseteq Known /\ ids[r] \subseteq Known /\ (marker[r] # Absent => snap[r] \subseteq Known)
    BY KnownIs
  <2> QED
    BY <1>1, <2>1, KnownGrows
<1>4. SharedInv'
  <2> SUFFICES ASSUME tampers = 0 PROVE HighWaterCovers'
    BY DEF SharedInv
  <2>1. HighWaterCovers
    BY <1>1 DEF SharedInv
  <2>2. i <= hw /\ \A e \in Known : e.id # i
    BY <2>1 DEF HighWaterCovers
  <2>3. Unique(Known)' /\ \A e \in Known' : e.id <= hw'
    BY <1>2, <1>3, <2>1, <2>2 DEF HighWaterCovers, Unique
  <2>4. \A s \in Receiver : Own(s)' \subseteq Own(s)
    BY <1>1, OwnStays
  <2>5. \A s, t \in Receiver : s # t => Own(s)' \cap Own(t)' = {}
    BY <2>1, <2>4 DEF HighWaterCovers
  <2>6. ASSUME NEW s \in Receiver, NEW j \in Own(s)' PROVE j <= hw' /\ \A e \in Known' : e.id # j
    <3>1. j \in Own(s) /\ j <= hw /\ \A e \in Known : e.id # j
      BY <2>1, <2>4, <2>6 DEF HighWaterCovers
    <3>2. j # i
      <4>1. CASE s = r
        BY <2>6, <4>1
      <4>2. CASE s # r
        BY <2>1, <3>1, <4>2 DEF HighWaterCovers
      <4> QED
        BY <4>1, <4>2
    <3> QED
      BY <1>2, <1>3, <3>1, <3>2
  <2>7. \A s \in Receiver : pc'[s] \notin Early => highest'[s] <= hw'
    BY <1>1, <2>1 DEF HighWaterCovers, Keeps
  <2>8. \A s \in Receiver : op'[s] = op[s]
    BY <1>1 DEF Keeps
  <2>9. hw' # Absent
    BY <2>1 DEF HighWaterCovers
  <2> QED
    BY <1>1, <2>1, <2>3, <2>5, <2>6, <2>7, <2>8, <2>9 DEF HighWaterCovers, SameSite
<1>5. AloneInv'
  <2> SUFFICES ASSUME NEW s \in Receiver, site'.receivers = {s}, ~ blind' PROVE MarkerCovers(s)'
    BY DEF AloneInv, MarkerCovers
  <2>1. s = r /\ site.receivers = {r} /\ ~ blind
    BY DEF Only
  <2>2. MarkerCovers(r)
    BY <1>1, <2>1 DEF AloneInv
  <2>3. \A e \in Known \cup snap[r] : e.id < next[r] /\ e.id \in Int
    BY <1>1, <2>1, <2>2, EntryIds DEF MarkerCovers
  <2>4. Unique(Known \cup snap[r])'
    BY <1>2, <1>3, <2>1, <2>2, <2>3 DEF MarkerCovers, Unique
  <2>5. \A e \in Known' \cup snap'[r] : e.id < next'[r]
    BY <1>2, <1>3, <2>3
  <2> QED
    BY <2>1, <2>2, <2>4, <2>5 DEF MarkerCovers, Early
<1> QED
  BY <1>4, <1>5

LEMMA MintsNext ==
    ASSUME TemplateInv, NEW r \in Receiver, pc[r] \in {"replay", "running"}, next[r] < end[r], Issues(r, next[r]),
           next' = [next EXCEPT ![r] = @ + 1],
           UNCHANGED <<pc, end, ready, refiller, hw, data, fixed, disk, trust, seen, highest, ledger, op, ghost, bounds>>
    PROVE  TemplateInv'
<1>1. TypesInv /\ Local(r) /\ SharedInv /\ AloneInv
  BY DEF TemplateInv
<1>2. Only(r)
  BY <1>1 DEF TypesInv, Only, Issues, fixed, disk, bounds
<1>3. /\ pc'[r] = pc[r] /\ trust'[r] = trust[r] /\ seen'[r] = seen[r]
      /\ ids'[r] = ids[r] \cup {Entry(r, next[r])} /\ next'[r] = next[r] + 1 /\ end'[r] = end[r]
      /\ ready'[r] = ready[r] /\ highest'[r] = highest[r] /\ ledger'[r] = ledger[r]
      /\ refiller'[r] = refiller[r] /\ op'[r] = op[r] /\ ghost'[r] = ghost[r]
      /\ marker'[r] = marker[r] /\ snap'[r] = snap[r] /\ starts'[r] = starts[r] /\ hw' = hw
      /\ data' = data /\ tampers' = tampers
  BY <1>1 DEF TypesInv, Issues, disk, bounds
<1>4. pc[r] \notin Early /\ pc'[r] \notin Early /\ pc[r] # "down"
  BY <1>3 DEF Early
<1>5. SameSite /\ site' = site /\ r \in site.receivers
  BY <1>1, <1>2, <1>4, OnlyKeeps DEF Only, Local, StartInv
<1>6. /\ next[r] \in Int /\ next[r] >= 1 /\ end[r] \in Int /\ end[r] <= MaxId + 1 /\ MaxId \in Nat /\ highest[r] \in Int
      /\ starts[r] \in Nat /\ ready[r] \in Seq(BlockType) /\ ids[r] \subseteq EntryType
      /\ end[r] <= highest[r] + 1 /\ hw \in Int
  BY <1>1, Typed DEF Local, BlocksInv
<1>7. Entry(r, next[r]) \in EntryType /\ Entry(r, next[r]).id = next[r]
  BY <1>6 DEF Entry, EntryType
<1>8. TypesInv'
  <2>1. next'[r] \in 1..(MaxId + 1) /\ ids'[r] \subseteq EntryType
    BY <1>3, <1>6, <1>7
  <2> QED
    BY <1>1, <1>2, <1>3, <2>1, TypesFrom DEF TypesInv
<1>9. ASSUME NEW k \in DOMAIN ready[r] PROVE ready[r][k].after \in Int /\ end[r] <= ready[r][k].after + 1 /\ next[r] + 1 <= ready[r][k].after + 1
  <2>1. ready[r][k] \in BlockType
    BY <1>6, <1>9
  <2>2. end[r] <= ready[r][k].after + 1
    BY <1>1, <1>9 DEF Local, BlocksInv
  <2>3. ready[r][k].after \in Int
    BY <1>1, <2>1, BlockNumbers
  <2>4. next[r] < end[r]
    OBVIOUS
  <2> QED
    BY ONLY <1>6, <2>2, <2>3, <2>4
<1>10. BlocksInv(r)'
  <2>1. \A e \in ids'[r] : e.id < next'[r]
    <3>1. \A e \in ids[r] : e.id \in Int /\ e.id < next[r]
      BY <1>1, <1>6 DEF Local, BlocksInv, EntryType
    <3> QED
      BY <1>3, <1>6, <1>7, <3>1
  <2>2. next'[r] <= highest'[r] + 1 /\ end'[r] <= highest'[r] + 1 /\ next'[r] <= end'[r]
    BY <1>3, <1>6
  <2>3. \A k \in DOMAIN ready'[r] : next'[r] <= ready'[r][k].after + 1
    BY <1>3, <1>9
  <2> QED
    BY <1>1, <1>3, <1>4, <1>5, <2>1, <2>2, <2>3 DEF Local, BlocksInv, SameSite
<1>11. OpInv(r)'
  BY <1>1, <1>3, <1>5 DEF Local, OpInv, SameSite, Reservation, Filling, Stopped
<1>12. StartInv(r)'
  BY <1>1, <1>3, <1>5 DEF Local, StartInv, Starting, Early, Pcs
<1>13. next[r] \in Own(r)
  BY <1>6 DEF Own, Held, Id
<1>14. Own(r)' \subseteq Own(r)
  <2>1. ASSUME NEW i \in Own(r)' PROVE i \in Own(r)
    <3>1. i \in Id /\ i \in Int
      BY <1>5, <1>6, <2>1 DEF Own, Held, SameSite, Id
    <3>2. i >= next'[r] => i >= next[r]
      BY <1>3, <1>6, <3>1
    <3> QED
      BY <1>3, <2>1, <3>1, <3>2 DEF Own, Held
  <2> QED
    BY <2>1
<1>15. ASSUME next[r] \in Own(r)' PROVE FALSE
  <2>1. CASE next[r] >= next'[r]
    BY <1>3, <1>6, <2>1
  <2>2. CASE \E k \in DOMAIN ready[r] : next[r] > ready[r][k].after
    BY <1>6, <1>9, <2>2
  <2>3. CASE op[r].st = "landed" /\ op[r].after < next[r]
    <3>1. highest[r] <= op[r].after /\ op[r].after \in Int
      BY <1>1, <2>3, Typed DEF Local, OpInv, OpType
    <3> QED
      BY <1>6, <2>3, <3>1
  <2> QED
    BY <1>3, <1>15, <2>1, <2>2, <2>3 DEF Own, Held
<1>16. SharedInv' /\ AloneInv'
  <2>1. next[r] <= next[r] /\ next[r] < next'[r] /\ next[r] <= next'[r]
    BY <1>3, <1>6
  <2> QED
    BY <1>2, <1>3, <1>4, <1>5, <1>6, <1>8, <1>13, <1>14, <1>15, <2>1, IssueShared
<1> QED
  BY <1>2, <1>8, <1>10, <1>11, <1>12, <1>16, Assemble

LEMMA MintsFirst ==
    ASSUME TemplateInv, NEW r \in Receiver, pc[r] \in {"replay", "running"}, Reaching(r) # {},
           Issues(r, Takes(r).after + 1), next' = [next EXCEPT ![r] = Takes(r).after + 2],
           end' = [end EXCEPT ![r] = Takes(r).through + 1], ready' = [ready EXCEPT ![r] = Takes(r).left], Requested(r),
           UNCHANGED <<pc, hw, data, fixed, disk, trust, seen, highest, ledger, op, ghost, bounds>>
    PROVE  TemplateInv'
<1>1. TypesInv /\ Local(r) /\ SharedInv /\ AloneInv
  BY DEF TemplateInv
<1>2. Only(r)
  BY <1>1 DEF TypesInv, Only, Issues, Requested, fixed, disk, bounds
<1>3. /\ pc'[r] = pc[r] /\ trust'[r] = trust[r] /\ seen'[r] = seen[r]
      /\ ids'[r] = ids[r] \cup {Entry(r, Takes(r).after + 1)} /\ next'[r] = Takes(r).after + 2
      /\ end'[r] = Takes(r).through + 1 /\ ready'[r] = Takes(r).left /\ highest'[r] = highest[r]
      /\ ledger'[r] = ledger[r]
      /\ refiller'[r] = (IF refiller[r] = "idle" THEN "filling" ELSE refiller[r]) /\ op'[r] = op[r]
      /\ ghost'[r] = ghost[r] /\ marker'[r] = marker[r] /\ snap'[r] = snap[r]
      /\ starts'[r] = starts[r] /\ hw' = hw /\ data' = data /\ tampers' = tampers
  BY <1>1 DEF TypesInv, Issues, Requested, disk, bounds
<1>4. pc[r] \notin Early /\ pc'[r] \notin Early /\ pc[r] # "down"
  BY <1>3 DEF Early
<1>5. SameSite /\ site' = site /\ r \in site.receivers
  BY <1>1, <1>2, <1>4, OnlyKeeps DEF Only, Local, StartInv
<1>6. /\ next'[r] \in 1..(MaxId + 1) /\ end'[r] \in 1..(MaxId + 1) /\ ready'[r] \in Seq(BlockType)
      /\ next[r] <= Takes(r).after + 1 /\ Takes(r).after + 1 <= next'[r]
      /\ Takes(r).after \in Int /\ Takes(r).after + 1 \in Own(r) /\ Own(r)' \subseteq Own(r)
      /\ Takes(r).after + 1 \notin Own(r)' /\ BlocksInv(r)' /\ Len(ready'[r]) < Len(ready[r])
  BY <1>1, <1>2, <1>3, <1>4, TakenBlocks
<1>7. /\ next[r] \in Int /\ MaxId \in Nat /\ starts[r] \in Nat /\ ids[r] \subseteq EntryType /\ Len(ready[r]) \in Nat
      /\ Takes(r).after + 1 \in 1..MaxId /\ ReadyBlocks \in Nat
  BY <1>1, <1>6, Typed DEF Own, Held, Id
<1>8. Entry(r, Takes(r).after + 1) \in EntryType
  BY <1>7 DEF Entry, EntryType
<1>9. TypesInv'
  <2>1. ids'[r] \subseteq EntryType /\ refiller'[r] \in {"off", "idle", "filling", "stopped"}
    BY <1>1, <1>3, <1>7, <1>8 DEF TypesInv
  <2> QED
    BY <1>1, <1>2, <1>3, <1>6, <2>1, TypesFrom DEF TypesInv
<1>10. OpInv(r)'
  <2>1. Len(ready[r]) < ReadyBlocks => Len(ready'[r]) < ReadyBlocks
    <3>1. Len(ready'[r]) \in Nat
      BY <1>6
    <3> QED
      BY <1>6, <1>7, <3>1
  <2>2. Filling(r) => Filling(r)'
    BY <1>3 DEF Filling
  <2>3. Stopped(r) => Stopped(r)'
    BY <1>3 DEF Stopped
  <2>4. refiller'[r] = "off" <=> refiller[r] = "off"
    BY <1>3
  <2>5. /\ op'[r] = op[r] /\ highest'[r] = highest[r] /\ ghost'[r] = ghost[r] /\ pc'[r] = pc[r] /\ ReadyBlocks' = ReadyBlocks
        /\ Conditional' = Conditional
    BY <1>3, <1>5 DEF SameSite
  <2> QED
    BY <1>1, <2>1, <2>2, <2>3, <2>4, <2>5 DEF Local, OpInv, Reservation
<1>11. StartInv(r)'
  BY <1>1, <1>3, <1>5 DEF Local, StartInv, Starting, Early, Pcs
<1>12. SharedInv' /\ AloneInv'
  <2>1. Takes(r).after + 1 < next'[r] /\ next[r] <= next'[r] /\ Takes(r).after + 1 \in Int
    BY <1>3, <1>6, <1>7
  <2> QED
    BY <1>2, <1>3, <1>4, <1>5, <1>6, <1>9, <2>1, IssueShared
<1> QED
  BY <1>2, <1>6, <1>9, <1>10, <1>11, <1>12, Assemble

LEMMA MintKeeps ==
    ASSUME TemplateInv, NEW r \in Receiver, Mint(r)
    PROVE  TemplateInv'
<1>1. TypesInv /\ Local(r) /\ pc[r] \in {"replay", "running"}
      /\ UNCHANGED <<hw, data, fixed, disk, trust, seen, highest, ledger, op, ghost, bounds>>
  BY DEF TemplateInv, Mint
<1>2. CASE /\ next[r] < end[r] /\ Issues(r, next[r]) /\ next' = [next EXCEPT ![r] = @ + 1]
           /\ UNCHANGED <<pc, end, ready, refiller>>
  BY <1>1, <1>2, MintsNext
<1>3. CASE /\ next[r] >= end[r] /\ Reaching(r) # {} /\ Issues(r, Takes(r).after + 1)
           /\ next' = [next EXCEPT ![r] = Takes(r).after + 2] /\ end' = [end EXCEPT ![r] = Takes(r).through + 1]
           /\ ready' = [ready EXCEPT ![r] = Takes(r).left] /\ Requested(r) /\ UNCHANGED pc
  BY <1>1, <1>3, MintsFirst
<1>4. CASE /\ next[r] >= end[r] /\ Reaching(r) = {} /\ ready' = [ready EXCEPT ![r] = <<>>]
           /\ IF pc[r] = "replay" THEN After(r) < MaxId /\ Goes(r, "refilling") /\ UNCHANGED refiller
              ELSE Requested(r) /\ UNCHANGED pc
           /\ UNCHANGED range
  <2>1. ready[r] = <<>>
    <3>1. ready[r] \in Seq(BlockType) /\ next[r] \in Int
      BY <1>1, Typed
    <3>2. ASSUME NEW k \in DOMAIN ready[r] PROVE FALSE
      <4>1. ready[r][k] \in BlockType
        BY <3>1, <3>2
      <4>2. next[r] <= ready[r][k].after + 1 /\ ready[r][k].after < ready[r][k].through
        BY <1>1, <3>2 DEF Local, BlocksInv
      <4>3. ready[r][k].through >= next[r]
        BY <1>1, <3>1, <4>1, <4>2, BlockNumbers
      <4> QED
        BY <1>4, <3>2, <4>3 DEF Reaching
    <3>3. Len(ready[r]) = 0
      <4>1. Len(ready[r]) \in Nat /\ DOMAIN ready[r] = 1..Len(ready[r])
        BY <3>1
      <4> QED
        BY <3>2, <4>1
    <3> QED
      BY <3>1, <3>3
  <2>2. ready' = ready
    BY <1>1, <1>4, <2>1 DEF TypesInv
  <2>3. /\ pc' = [pc EXCEPT ![r] = pc'[r]] /\ refiller' = [refiller EXCEPT ![r] = refiller'[r]]
        /\ \/ pc[r] = "replay" /\ pc'[r] = "refilling" /\ refiller'[r] = refiller[r]
           \/ pc[r] = "running" /\ refiller'[r] = (IF refiller[r] = "idle" THEN "filling" ELSE refiller[r]) /\ pc'[r] = pc[r]
    BY <1>1, <1>4 DEF TypesInv, Goes, Requested
  <2> QED
    BY <1>1, <1>4, <2>2, <2>3, GoesOnKeeps DEF blocks
<1> QED
  BY <1>2, <1>3, <1>4 DEF Mint
-----------------------------------------------------------------------------
(* The invariant, and what it is for.                                      *)

LEMMA TamperKeeps ==
    ASSUME TemplateInv, Tamper
    PROVE  TemplateInv'
<1>1. TypesInv /\ \A r \in Receiver : Local(r)
  BY DEF TemplateInv
<1>2. /\ blind' = blind /\ site' = site /\ old' = old /\ data' = data /\ marker' = marker /\ snap' = snap /\ pc' = pc /\ trust' = trust
      /\ seen' = seen /\ ids' = ids /\ next' = next /\ end' = end /\ ready' = ready /\ highest' = highest
      /\ ledger' = ledger /\ refiller' = refiller /\ op' = op /\ ghost' = ghost /\ starts' = starts
  BY DEF Tamper, fixed, disk, startup, range, blocks
<1>3. SameSite
  BY <1>2, SiteStays
<1>4. tampers' \in 0..MaxTampers /\ tampers' # 0 /\ hw' \in Mark
  <2>1. tampers \in 0..MaxTampers /\ MaxTampers \in Nat /\ MaxId \in Nat /\ hw \in Mark
    BY <1>1, SiteNumbers DEF TypesInv
  <2>2. tampers < MaxTampers /\ tampers' = tampers + 1 /\ hw' \in {Absent} \cup 0..(hw - 1)
    BY DEF Tamper
  <2>3. hw' \in Mark
    BY <2>1, <2>2 DEF Mark, Absent
  <2> QED
    BY <2>1, <2>2, <2>3
<1>5. TypesInv'
  BY <1>1, <1>2, <1>3, <1>4 DEF TypesInv, SameSite
<1>6. ASSUME NEW r \in Receiver PROVE Local(r)'
  <2>1. BlocksInv(r)'
    BY <1>1, <1>2, <1>3 DEF Local, BlocksInv, SameSite
  <2>2. OpInv(r)'
    BY <1>1, <1>2, <1>3 DEF Local, OpInv, SameSite, Filling, Stopped
  <2>3. StartInv(r)'
    BY <1>1, <1>2 DEF Local, StartInv
  <2> QED
    BY <2>1, <2>2, <2>3 DEF Local
<1>7. SharedInv'
  BY <1>4 DEF SharedInv
<1>8. AloneInv'
  <2>1. Known' = Known
    BY <1>2 DEF Known
  <2> QED
    BY <1>2, <1>4, <2>1 DEF TemplateInv, AloneInv, MarkerCovers, Unique
<1> QED
  BY <1>5, <1>6, <1>7, <1>8 DEF TemplateInv

LEMMA TemplateStart ==
    ASSUME Init
    PROVE  TemplateInv
<1>1. site \in Sites
  BY DEF Init
<1>2. MaxId \in Nat /\ MaxId > 0 /\ ReadyBlocks \in Nat /\ MaxTampers \in Nat /\ Legacy \subseteq 1..MaxId
  BY <1>1, SiteNumbers
<1>3. NoOp \in OpType /\ NoOp.st = "none"
  BY <1>2 DEF NoOp, OpType
<1>4. snap \in [Receiver -> SUBSET EntryType] /\ old \in 0..MaxId
  <2>1. ASSUME NEW e \in [id : Legacy, by : Receiver, inc : {0}] PROVE e \in EntryType
    <3>1. e.id \in Legacy /\ e.by \in Receiver /\ e.inc = 0 /\ e = [id |-> e.id, by |-> e.by, inc |-> e.inc]
      BY <2>1
    <3>2. e.id \in 1..MaxId /\ e.inc \in Nat
      <4>1. e.id \in 1..MaxId
        BY <1>2, <3>1, Zenon
      <4>2. 0 \in Nat
        OBVIOUS
      <4> QED
        BY <3>1, <4>1, <4>2, Zenon
    <3> QED
      BY <3>1, <3>2 DEF EntryType
  <2>2. snap \in [Receiver -> SUBSET [id : Legacy, by : Receiver, inc : {0}]] /\ old \in {0} \cup Legacy
    BY DEF Init
  <2>3. old \in 0..MaxId
    BY <1>2, <2>2
  <2> QED
    BY <2>1, <2>2, <2>3
<1>5. TypesInv
  <2>1. /\ hw \in Mark /\ marker \in [Receiver -> Mark] /\ data \subseteq EntryType /\ seen \in [Receiver -> Mark]
        /\ next \in [Receiver -> 1..(MaxId + 1)] /\ end \in [Receiver -> 1..(MaxId + 1)]
        /\ highest \in [Receiver -> 0..MaxId]
        /\ tampers \in 0..MaxTampers
    BY <1>2 DEF Init, Mark
  <2>2. /\ pc \in [Receiver -> Pcs] /\ trust \in [Receiver -> {"none", "Seated", "Bootstrap", "PredatesHighWater"}]
        /\ ids \in [Receiver -> SUBSET EntryType] /\ ready \in [Receiver -> Seq(BlockType)]
        /\ ledger \in [Receiver -> BOOLEAN]
        /\ refiller \in [Receiver -> {"off", "idle", "filling", "stopped"}] /\ op \in [Receiver -> OpType]
        /\ ghost \in [Receiver -> OpType] /\ starts \in [Receiver -> Nat]
    BY <1>3 DEF Init, Pcs
  <2>3. blind \in BOOLEAN
    BY DEF Init
  <2> QED
    BY <1>1, <1>4, <2>1, <2>2, <2>3 DEF TypesInv
<1>6. ASSUME NEW r \in Receiver PROVE Local(r)
  <2>1. /\ pc[r] = "down" /\ trust[r] = "none" /\ ids[r] = {} /\ next[r] = 1 /\ end[r] = 1 /\ ready[r] = <<>>
        /\ highest[r] = 0
        /\ ledger[r] = FALSE /\ refiller[r] = "off" /\ op[r] = NoOp /\ ghost[r] = NoOp /\ marker[r] = Absent
    BY DEF Init
  <2>2. \A e \in snap[r] : e.by = r /\ e.inc = 0
    BY DEF Init
  <2>3. BlocksInv(r)
    BY <1>2, <2>1 DEF BlocksInv, Early
  <2>4. OpInv(r)
    BY <1>3, <2>1 DEF OpInv
  <2>5. StartInv(r)
    BY <2>1, <2>2 DEF StartInv, Starting, Pcs
  <2> QED
    BY <2>3, <2>4, <2>5 DEF Local
<1>7. Known = {}
  <2>1. ASSUME NEW e \in Known PROVE FALSE
    BY <2>1, KnownIs DEF Init, Early
  <2> QED
    BY <2>1
<1>8. \A r \in Receiver : Own(r) = {}
  <2>1. ASSUME NEW r \in Receiver, NEW i \in Own(r) PROVE FALSE
    <3>1. next[r] = 1 /\ end[r] = 1 /\ ready[r] = <<>> /\ op[r].st = "none"
      BY <1>3 DEF Init
    <3> QED
      BY <1>2, <2>1, <3>1 DEF Own, Held, Id
  <2> QED
    BY <2>1
<1>9. SharedInv
  <2>1. hw = Absent /\ data = {} /\ \A r \in Receiver : pc[r] \in Early /\ marker[r] = Absent /\ ghost[r] = NoOp /\ op[r] = NoOp
    BY DEF Init, Early
  <2> QED
    BY <1>3, <1>7, <1>8, <2>1 DEF SharedInv, HighWaterCovers, Unique
<1>10. AloneInv
  <2> SUFFICES ASSUME NEW r \in Receiver PROVE MarkerCovers(r)
    BY DEF AloneInv
  <2>1. hw = Absent /\ pc[r] = "down" /\ marker[r] = Absent
    BY DEF Init
  <2>2. Unique(snap[r])
    <3>1. \A e \in snap[r] : e \in EntryType /\ e.by = r /\ e.inc = 0
      BY <1>4 DEF Init
    <3> QED
      BY <3>1 DEF Unique, EntryType
  <2> QED
    BY <1>7, <2>1, <2>2 DEF MarkerCovers, Unique, Early
<1> QED
  BY <1>5, <1>6, <1>9, <1>10 DEF TemplateInv

LEMMA TemplateStep ==
    ASSUME TemplateInv, [Next]_vars
    PROVE  TemplateInv'
<1>1. CASE Tamper
  BY <1>1, TamperKeeps
<1>2. ASSUME NEW r \in Receiver, Starts(r) PROVE TemplateInv'
  BY <1>2, DecideKeeps, SeatKeeps, CreateKeeps, SeatRootKeeps, FinishReplayKeeps, SealRemovesKeeps, SealMarksKeeps DEF Starts
<1>3. ASSUME NEW r \in Receiver, Reserves(r) PROVE TemplateInv'
  BY <1>3, ReserveReadKeeps, ReserveWriteKeeps, MakeReadyKeeps, FillDoneKeeps DEF Reserves
<1>4. ASSUME NEW r \in Receiver, Runs(r) PROVE TemplateInv'
  BY <1>4, MintKeeps, PublishKeeps, SnapshotKeeps, ShutdownKeeps, ReleasedKeeps, GhostWriteKeeps DEF Runs
<1>5. ASSUME NEW r \in Receiver, Crash(r) PROVE TemplateInv'
  BY <1>5, CrashKeeps
<1>6. CASE UNCHANGED vars
  <2>1. /\ site' = site /\ old' = old /\ data' = data /\ marker' = marker /\ snap' = snap /\ pc' = pc /\ trust' = trust
        /\ seen' = seen /\ ids' = ids /\ next' = next /\ end' = end /\ ready' = ready /\ highest' = highest
        /\ ledger' = ledger /\ refiller' = refiller /\ op' = op /\ ghost' = ghost /\ starts' = starts
        /\ hw' = hw /\ tampers' = tampers /\ blind' = blind
    BY <1>6 DEF vars, fixed, disk, startup, range, blocks, bounds
  <2>2. SameSite
    BY <2>1, SiteStays
  <2>3. TypesInv'
    BY <2>1, <2>2 DEF TemplateInv, TypesInv, SameSite
  <2>4. ASSUME NEW r \in Receiver PROVE Local(r)' /\ Own(r)' = Own(r)
    <3>1. BlocksInv(r)' /\ Own(r)' = Own(r)
      BY <2>1, <2>2 DEF TemplateInv, Local, BlocksInv, SameSite, Own, Held
    <3>2. OpInv(r)'
      BY <2>1, <2>2 DEF TemplateInv, Local, OpInv, SameSite, Filling, Stopped
    <3>3. StartInv(r)'
      BY <2>1 DEF TemplateInv, Local, StartInv
    <3> QED
      BY <3>1, <3>2, <3>3 DEF Local
  <2>5. Known' = Known
    BY <2>1 DEF Known
  <2>6. SharedInv'
    BY <2>1, <2>2, <2>4, <2>5 DEF TemplateInv, SharedInv, HighWaterCovers, Unique, SameSite
  <2>7. AloneInv'
    BY <2>1, <2>5 DEF TemplateInv, AloneInv, MarkerCovers, Unique
  <2> QED
    BY <2>3, <2>4, <2>6, <2>7 DEF TemplateInv
<1> QED
  BY <1>1, <1>2, <1>3, <1>4, <1>5, <1>6 DEF Next

LEMMA TemplateHolds == Spec => []TemplateInv
<1>1. Init => TemplateInv
  BY TemplateStart
<1>2. TemplateInv /\ [Next]_vars => TemplateInv'
  BY TemplateStep
<1> QED
  BY <1>1, <1>2, PTL DEF Spec

\* Two templates never share an id: at a site where nobody tampers with the
\* high-water, and at one with a single receiver even if somebody does, as long
\* as no start missed a rollback because its root had no marker yet.
THEOREM IdsAreUnique == Spec => []OneTemplatePerId
<1>1. TemplateInv => OneTemplatePerId
  <2> SUFFICES ASSUME TemplateInv, ~ blind PROVE \A e, f \in Exposed : e.id = f.id => e = f
    BY DEF OneTemplatePerId
  <2>1. TypesInv /\ SharedInv /\ AloneInv
    BY DEF TemplateInv
  <2>2. Unique(Known)
    <3>1. tampers = 0 \/ \E r \in Receiver : site.receivers = {r}
      <4>1. MaxTampers = 0 => tampers = 0
        BY <2>1 DEF TypesInv
      <4> QED
        BY <2>1, <4>1, SiteNumbers DEF TypesInv
    <3> QED
      BY <2>1, <3>1 DEF SharedInv, HighWaterCovers, AloneInv, MarkerCovers, Unique
  <2>3. ASSUME NEW e \in Exposed PROVE e \in Known
    <3>1. e \in data \/ \E s \in Receiver : pc[s] \in {"replay", "running"} /\ e \in ids[s]
      BY <2>3 DEF Exposed, Publishes
    <3> QED
      BY <3>1, KnownIs DEF Early
  <2> QED
    BY <2>2, <2>3 DEF Unique
<1> QED
  BY <1>1, TemplateHolds, PTL

\* Once the ledger keeps the marker current, the marker covers every id that
\* the receiver can still issue.
THEOREM MarkersCover == Spec => []MarkerCoversUsable
<1>1. TemplateInv => MarkerCoversUsable
  <2> SUFFICES ASSUME TemplateInv, NEW r \in Receiver, ledger[r]
               PROVE  marker[r] >= end[r] - 1 /\ \A k \in DOMAIN ready[r] : marker[r] >= ready[r][k].through
    BY DEF MarkerCoversUsable
  <2>1. TypesInv /\ Local(r)
    BY DEF TemplateInv
  <2>2. highest[r] <= marker[r] /\ highest[r] \in Nat /\ marker[r] \in Int /\ end[r] \in Int /\ ready[r] \in Seq(BlockType)
    BY <2>1, Typed DEF Local, StartInv
  <2>3. end[r] = 1 \/ end[r] <= highest[r] + 1
    BY <2>1 DEF Local, BlocksInv
  <2>4. ASSUME NEW k \in DOMAIN ready[r] PROVE marker[r] >= ready[r][k].through
    <3>1. ready[r][k] \in BlockType /\ ready[r][k].through <= highest[r]
      BY <2>1, <2>2, <2>4 DEF Local, BlocksInv
    <3>2. ready[r][k].through \in Int
      BY <2>1, <3>1, BlockNumbers
    <3> QED
      BY <2>2, <3>1, <3>2
  <2> QED
    BY <2>2, <2>3, <2>4
<1> QED
  BY <1>1, TemplateHolds, PTL

\* What a receiver can issue is reserved: below the high-water as long as it is
\* left alone, and in no other receiver's hands.
THEOREM BlocksAreReserved == Spec => []ReserveInv
<1>1. TemplateInv => TypeOK
  <2> SUFFICES ASSUME TemplateInv PROVE TypeOK
    OBVIOUS
  <2>1. TypesInv /\ \A r \in Receiver : Local(r)
    BY DEF TemplateInv
  <2>2. ASSUME NEW r \in Receiver
        PROVE  /\ end[r] - 1 <= highest[r] \/ end[r] = 1
               /\ next[r] \in 1..(MaxId + 1) /\ end[r] \in 1..(MaxId + 1)
               /\ Len(ready[r]) <= ReadyBlocks
               /\ op[r].st # "none" => Filling(r) \/ Stopped(r)
               /\ refiller[r] = "off" <=> pc[r] \notin {"sealing", "removed", "running", "stopping"}
    <3>1. end[r] - 1 <= highest[r] \/ end[r] = 1
      BY <2>1, Typed DEF Local, BlocksInv
    <3> QED
      BY <2>1, <3>1 DEF TypesInv, Local, BlocksInv, OpInv
  <2> QED
    BY <2>1, <2>2 DEF TypeOK, TypesInv
<1>2. TemplateInv => UsableIsReserved
  <2> SUFFICES ASSUME TemplateInv, tampers = 0, hw # Absent, NEW r \in Receiver, pc[r] \notin {"down", "decided", "scanned"}
               PROVE  end[r] - 1 <= hw /\ \A k \in DOMAIN ready[r] : ready[r][k].through <= hw
    BY DEF UsableIsReserved
  <2>1. TypesInv /\ Local(r) /\ highest[r] <= hw
    BY DEF TemplateInv, SharedInv, HighWaterCovers, Early
  <2>2. hw \in Int /\ hw >= 0 /\ highest[r] \in Int /\ end[r] \in Int /\ ready[r] \in Seq(BlockType)
    BY <2>1, Typed
  <2>3. end[r] = 1 \/ end[r] <= highest[r] + 1
    BY <2>1 DEF Local, BlocksInv
  <2>4. ASSUME NEW k \in DOMAIN ready[r] PROVE ready[r][k].through <= hw
    <3>1. ready[r][k] \in BlockType /\ ready[r][k].through <= highest[r]
      BY <2>1, <2>2, <2>4 DEF Local, BlocksInv
    <3>2. ready[r][k].through \in Int
      BY <2>1, <3>1, BlockNumbers
    <3> QED
      BY <2>1, <2>2, <3>1, <3>2
  <2> QED
    BY <2>1, <2>2, <2>3, <2>4
<1>3. TemplateInv => BlocksAreDisjoint
  <2> SUFFICES ASSUME TemplateInv, NEW r \in Receiver, NEW s \in Receiver, r # s PROVE Held(r) \cap Held(s) = {}
    BY DEF BlocksAreDisjoint
  <2>1. TypesInv /\ SharedInv /\ Local(r) /\ Local(s)
    BY DEF TemplateInv
  <2>2. CASE tampers = 0
    BY <2>1, <2>2 DEF SharedInv, HighWaterCovers, Own
  <2>3. CASE tampers # 0
    <3>1. PICK t \in Receiver : site.receivers = {t}
      <4>1. MaxTampers # 0
        BY <2>1, <2>3 DEF TypesInv
      <4> QED
        BY <2>1, <4>1, SiteNumbers DEF TypesInv
    <3>2. ASSUME NEW u \in Receiver, u # t, Local(u), NEW i \in Held(u) PROVE FALSE
      <4>1. pc[u] = "down"
        BY <3>1, <3>2 DEF Local, StartInv
      <4>2. end[u] = 1 /\ ready[u] = <<>> /\ next[u] \in Int /\ MaxId \in Nat
        BY <2>1, <3>2, <4>1, Typed DEF Local, BlocksInv, Early
      <4> QED
        BY <3>2, <4>2 DEF Held, Id
    <3> QED
      BY <2>1, <3>2
  <2> QED
    BY <2>2, <2>3
<1>4. TemplateInv => ReserveInv
  BY <1>1, <1>2, <1>3 DEF ReserveInv
<1> QED
  BY <1>4, TemplateHolds, PTL
=============================================================================
