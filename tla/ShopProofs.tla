------------------------------ MODULE ShopProofs -----------------------------
(***************************************************************************)
(* Theorems about the administration's tables, for every number of rows    *)
(* and requests, all values, and every MaxDepth: an inductive invariant of *)
(* each part, and the properties of the composition that follow.           *)
(***************************************************************************)
EXTENDS Shop, TLAPS

(* A part that does not run does not change: each is as if it were alone. *)
LEMMA PartsRunAlone ==
  ShopSpec => Spec /\ Pricing!Spec /\ Tags!Spec /\ Shops!Spec
<1>1. ShopInit => Init /\ Pricing!Init /\ Tags!Init /\ Shops!Init
  BY DEF ShopInit
<1>2. [ShopNext]_shopVars =>
        [Next]_vars /\ [Pricing!Next]_(Pricing!vars) /\ [Tags!Next]_(Tags!vars)
          /\ [Shops!Next]_(Shops!vars)
  BY DEF ShopNext, shopVars, pricingVars, tagVars, contactVars, Pricing!vars, Tags!vars, Shops!vars
<1>3. QED
  BY <1>1, <1>2, PTL DEF ShopSpec, Spec, Pricing!Spec, Tags!Spec, Shops!Spec

-----------------------------------------------------------------------------
(* Categories and the products in them.                                      *)

Work == {Idle} \cup Request \cup Walk \cup Set

(* A category that was found in an area is in it still, or gone. *)
Known(c, scope) == c \in Categories /\ category[c].scope \in {scope, "gone"}

(* The rows that a request refers to at each of its stages. *)
Refers(w) ==
  /\ w.at \in {"parent", "count", "drop", "write", "walk", "set"} => Known(w.id, w.scope)
  /\ w.at \in {"insert", "move", "walk", "set"} => Known(w.to, w.scope)
  /\ w.at = "parent" => w.to \in Categories
  /\ w.at = "create" => w.to = None \/ Known(w.to, w.scope)
  /\ w.at = "write" => w.to = None
  /\ w.at = "move" => w.id \in Products /\ product[w.id].scope = w.scope

(* Every member of S but c has its parent in S. *)
Upward(S, c) == \A x \in S \ {c} : \E y \in S : IsChild(x, y)

(* What a walk that nothing overtook has found out: it stays in every set that contains *)
(* the new parent and its ancestors below the category, so once it has left the tree at *)
(* the root there is no such set.                                                       *)
Sound(w) ==
  \A S \in SUBSET Categories :
    /\ w.at = "walk" /\ ~w.overtaken /\ w.to \in S /\ Upward(S, w.id) => w.current \in S
    /\ w.at = "set" /\ ~w.overtaken /\ ~w.deep /\ w.to \in S => ~Upward(S, w.id)

RefersInv == \A p \in Requests : Refers(req[p])
SoundInv  == \A p \in Requests : Sound(req[p])

TreeInv == TypeOK /\ ReferencesIntact /\ RefersInv /\ SoundInv /\ CycleNeedsRace

(* A request's stage says which of the records it is. *)
LEMMA WorkShape ==
  ASSUME NEW w \in Work
  PROVE  /\ w.at = "idle" => w = Idle
         /\ w.at \in {"create", "insert", "parent", "write", "count", "drop", "move"}
              => w \in Request
         /\ w.at = "walk" => w \in Walk
         /\ w.at = "set" => w \in Set
BY DEF Work, Idle, Request, Walk, Set

LEMMA RequestTyped ==
  ASSUME TreeInv, NEW p \in Requests
  PROVE  req[p] \in Work /\ Refers(req[p]) /\ Sound(req[p])
BY DEF TreeInv, TypeOK, Work, RefersInv, SoundInv

LEMMA IdleIsSound == Idle \in Work /\ Refers(Idle) /\ Sound(Idle)
BY DEF Work, Idle, Refers, Sound

LEMMA PlainIsSound ==
  ASSUME NEW w \in Request
  PROVE  w \in Work /\ Sound(w)
BY DEF Work, Request, Sound

(* A step of one request that leaves the tables alone. *)
LEMMA PutKeeps ==
  ASSUME TreeInv, NEW p \in Requests, NEW w \in Work, Refers(w), Sound(w), Put(p, w),
         UNCHANGED <<category, product, raced, tooDeep>>
  PROVE  TreeInv'
<1>1. /\ req' \in [Requests -> Work]
      /\ req'[p] = w
      /\ \A q \in Requests : q # p => req'[q] = req[q]
  BY RequestTyped DEF TreeInv, TypeOK, Put, Work
<1>2. TypeOK'
  BY <1>1 DEF TreeInv, TypeOK, Work
<1>3. \A x, y \in Categories : IsChild(x, y)' <=> IsChild(x, y)
  BY DEF IsChild, Exists
<1>4. ReferencesIntact'
  BY DEF TreeInv, ReferencesIntact, Exists
<1>5. CycleNeedsRace'
  BY <1>3 DEF TreeInv, CycleNeedsRace, HasCycle
<1>6. \A q \in Requests : Refers(req'[q]) /\ Sound(req'[q])
  BY <1>1, RequestTyped
<1>7. RefersInv'
  BY <1>6 DEF RefersInv, Refers, Known
<1>8. SoundInv'
  BY <1>3, <1>6 DEF SoundInv, Sound, Upward
<1>9. QED
  BY <1>2, <1>4, <1>5, <1>7, <1>8 DEF TreeInv

LEMMA TreeInit == Init => TreeInv
<1> SUFFICES ASSUME Init PROVE TreeInv
  OBVIOUS
<1>1. TypeOK
  BY DEF Init, TypeOK
<1>2. \A c, d \in Categories : ~IsChild(c, d)
  BY NoneIsNoScope DEF Init, IsChild, Exists, Unused
<1>3. CycleNeedsRace
  BY <1>2 DEF CycleNeedsRace, HasCycle
<1>4. ReferencesIntact
  BY NoneIsNoScope DEF Init, ReferencesIntact, Exists, Unused
<1>5. RefersInv /\ SoundInv
  BY IdleIsSound DEF Init, RefersInv, SoundInv
<1>6. QED
  BY <1>1, <1>3, <1>4, <1>5 DEF TreeInv

-----------------------------------------------------------------------------
(* The steps that read.                                                      *)

(* What is found in an area is known to be there. *)
LEMMA FoundIsKnown ==
  ASSUME NEW c \in Categories, NEW s, Fits(c, s)
  PROVE  Known(c, s)
BY DEF Fits, Known

LEMMA ExistingIsKnown ==
  ASSUME TypeOK, NEW c \in Categories, Exists(c)
  PROVE  Known(c, category[c].scope) /\ category[c].scope \in Scopes
BY DEF Exists, Known

LEMMA BeginKeeps ==
  ASSUME TreeInv, NEW p \in Requests,
         \/ \E s \in Scopes, c \in Categories \cup {None} : BeginCreate(p, s, c)
         \/ \E c \in Categories : BeginDelete(p, c) \/ Detach(p, c)
         \/ \E c, d \in Categories, s \in Scopes : BeginMove(p, c, s, d)
         \/ \E s \in Scopes, c \in Categories : BeginInsert(p, s, c)
         \/ \E x \in Products, c \in Categories : BeginReassign(p, x, c)
  PROVE  TreeInv'
<1>1. ASSUME NEW s \in Scopes, NEW c \in Categories \cup {None}, BeginCreate(p, s, c)
      PROVE  TreeInv'
  <2> DEFINE w == [at |-> "create", scope |-> s, id |-> None, to |-> c]
  <2>1. w \in Request
    BY DEF Request
  <2>2. Refers(w)
    BY <1>1, FoundIsKnown DEF BeginCreate, Refers
  <2>3. QED
    BY <1>1, <2>1, <2>2, PlainIsSound, PutKeeps DEF BeginCreate
<1>2. ASSUME NEW c \in Categories, BeginDelete(p, c)
      PROVE  TreeInv'
  <2> DEFINE w == [at |-> "count", scope |-> category[c].scope, id |-> c, to |-> None]
  <2>1. w \in Request /\ Refers(w)
    BY <1>2, ExistingIsKnown DEF TreeInv, BeginDelete, Request, Refers
  <2>2. QED
    BY <1>2, <2>1, PlainIsSound, PutKeeps DEF BeginDelete
<1>3. ASSUME NEW c \in Categories, Detach(p, c)
      PROVE  TreeInv'
  <2> DEFINE w == [at |-> "write", scope |-> category[c].scope, id |-> c, to |-> None]
  <2>1. w \in Request /\ Refers(w)
    BY <1>3, ExistingIsKnown DEF TreeInv, Detach, Request, Refers
  <2>2. QED
    BY <1>3, <2>1, PlainIsSound, PutKeeps DEF Detach
<1>4. ASSUME NEW c \in Categories, NEW d \in Categories, NEW s \in Scopes, BeginMove(p, c, s, d)
      PROVE  TreeInv'
  <2> DEFINE w == [at |-> "parent", scope |-> s, id |-> c, to |-> d]
  <2>1. w \in Request /\ Refers(w)
    BY <1>4, FoundIsKnown DEF BeginMove, Finds, Request, Refers
  <2>2. QED
    BY <1>4, <2>1, PlainIsSound, PutKeeps DEF BeginMove
<1>5. ASSUME NEW s \in Scopes, NEW c \in Categories, BeginInsert(p, s, c)
      PROVE  TreeInv'
  <2> DEFINE w == [at |-> "insert", scope |-> s, id |-> None, to |-> c]
  <2>1. w \in Request /\ Refers(w)
    BY <1>5, FoundIsKnown DEF BeginInsert, Request, Refers
  <2>2. QED
    BY <1>5, <2>1, PlainIsSound, PutKeeps DEF BeginInsert
<1>6. ASSUME NEW x \in Products, NEW c \in Categories, BeginReassign(p, x, c)
      PROVE  TreeInv'
  <2> DEFINE w == [at |-> "move", scope |-> product[x].scope, id |-> x, to |-> c]
  <2>1. product[x] \in Product
    BY <1>6 DEF BeginReassign, TreeInv, TypeOK
  <2>2. w \in Request /\ Refers(w)
    BY <1>6, <2>1, FoundIsKnown DEF BeginReassign, Request, Refers, Product
  <2>3. QED
    BY <1>6, <2>2, PlainIsSound, PutKeeps DEF BeginReassign
<1>7. QED
  BY <1>1, <1>2, <1>3, <1>4, <1>5, <1>6

LEMMA CountKeeps == ASSUME TreeInv, NEW p \in Requests, CountUses(p) PROVE TreeInv'
<1>1. req[p] \in Request /\ Refers(req[p]) /\ req[p].at = "count"
  BY WorkShape, RequestTyped DEF CountUses
<1>2. CASE Put(p, Idle)
  BY <1>2, IdleIsSound, PutKeeps DEF CountUses
<1>3. CASE Put(p, [req[p] EXCEPT !.at = "drop"])
  <2> DEFINE w == [req[p] EXCEPT !.at = "drop"]
  <2>1. w \in Request /\ w.at = "drop" /\ w.id = req[p].id /\ w.scope = req[p].scope
    BY <1>1 DEF Request
  <2>2. Refers(w)
    BY <1>1, <2>1 DEF Refers
  <2> HIDE DEF w
  <2>3. QED
    BY <1>3, <2>1, <2>2, PlainIsSound, PutKeeps DEF CountUses, w
<1>4. QED
  BY <1>2, <1>3 DEF CountUses

LEMMA CheckParentKeeps == ASSUME TreeInv, NEW p \in Requests, CheckParent(p) PROVE TreeInv'
<1>1. req[p] \in Request /\ Refers(req[p]) /\ req[p].at = "parent"
  BY WorkShape, RequestTyped DEF CheckParent
<1> DEFINE w == [at |-> "walk", scope |-> req[p].scope, id |-> req[p].id, to |-> req[p].to,
                 current |-> req[p].to, depth |-> 0, overtaken |-> FALSE]
<1>2. CASE Put(p, Idle)
  BY <1>2, IdleIsSound, PutKeeps DEF CheckParent
<1>3. CASE Fits(req[p].to, req[p].scope) /\ Put(p, w)
  <2>1. req[p].id \in Categories /\ req[p].to \in Categories /\ req[p].scope \in Scopes
    BY <1>1 DEF Refers, Known, Request
  <2>2. w \in Walk
    BY <2>1, DepthIsNumber DEF Walk
  <2>3. Refers(w)
    BY <1>1, <1>3, <2>1, FoundIsKnown DEF Refers
  <2>4. Sound(w)
    BY DEF Sound
  <2>5. QED
    BY <1>3, <2>2, <2>3, <2>4, PutKeeps DEF CheckParent, Work
<1>4. QED
  BY <1>2, <1>3 DEF CheckParent

(* One step up changes two fields of the walk. *)
LEMMA StepUp ==
  ASSUME NEW w \in Walk, NEW c \in Categories \cup {None}, w.depth # MaxDepth
  PROVE  LET n == [w EXCEPT !.current = c, !.depth = @ + 1] IN
         /\ n \in Walk /\ n.at = "walk" /\ n.overtaken = w.overtaken
         /\ n.id = w.id /\ n.to = w.to /\ n.scope = w.scope /\ n.current = c
<1> DEFINE n == [w EXCEPT !.current = c, !.depth = @ + 1]
<1>1. w.depth \in 0..MaxDepth /\ w.depth + 1 \in 0..MaxDepth
  BY DepthIsNumber DEF Walk
<1>2. QED
  BY <1>1 DEF Walk

(* The walk goes up from a category of every set that it has to stay in; if it has left *)
(* the tree there is no such set.                                                       *)
LEMMA WalkUpKeeps == ASSUME TreeInv, NEW p \in Requests, WalkUp(p) PROVE TreeInv'
<1>1. req[p] \in Walk /\ Refers(req[p]) /\ Sound(req[p]) /\ req[p].at = "walk"
  BY WorkShape, RequestTyped DEF WalkUp
<1> DEFINE done == [at |-> "set", scope |-> req[p].scope, id |-> req[p].id, to |-> req[p].to,
                    deep |-> req[p].depth = MaxDepth /\ req[p].current # None,
                    overtaken |-> req[p].overtaken]
           next == [req[p] EXCEPT !.current = ParentOf(req[p].current), !.depth = @ + 1]
<1>2. CASE Put(p, Idle)
  BY <1>2, IdleIsSound, PutKeeps DEF WalkUp
<1>3. CASE WalkOver(req[p]) /\ Put(p, done)
  <2>1. done \in Set
    BY <1>1 DEF Walk, Set
  <2>2. Refers(done)
    BY <1>1 DEF Refers
  <2>3. ASSUME NEW S \in SUBSET Categories,
               ~done.overtaken, ~done.deep, done.to \in S, Upward(S, done.id)
        PROVE  FALSE
    <3>1. req[p].current \in S
      BY <1>1, <2>3 DEF Sound
    <3>2. req[p].current = None
      BY <1>3, <2>3 DEF WalkOver
    <3>3. QED
      BY <3>1, <3>2, NoneIsNoId
  <2>4. Sound(done)
    BY <2>3 DEF Sound
  <2>5. QED
    BY <1>3, <2>1, <2>2, <2>4, PutKeeps DEF WalkUp, Work
<1>4. CASE ~WalkOver(req[p]) /\ req[p].current # req[p].id /\ Put(p, next)
  <2>1. req[p].current \in Categories /\ req[p].depth \in 0..MaxDepth /\ req[p].depth # MaxDepth
    BY <1>1, <1>4 DEF Walk, WalkOver
  <2>2. ParentOf(req[p].current) \in Categories \cup {None}
    BY <2>1 DEF ParentOf, Exists, TreeInv, TypeOK, Category, Unused, Gone
  <2>3. /\ next \in Walk /\ next.at = "walk" /\ next.overtaken = req[p].overtaken
        /\ next.id = req[p].id /\ next.to = req[p].to /\ next.scope = req[p].scope
        /\ next.current = ParentOf(req[p].current)
    BY <1>1, <2>1, <2>2, StepUp
  <2> HIDE DEF next
  <2>4. Refers(next)
    BY <1>1, <2>3 DEF Refers
  <2>5. ASSUME NEW S \in SUBSET Categories,
               ~next.overtaken, next.to \in S, Upward(S, next.id)
        PROVE  next.current \in S
    <3>1. req[p].current \in S \ {req[p].id}
      BY <1>1, <1>4, <2>3, <2>5 DEF Sound
    <3>2. PICK y \in S : IsChild(req[p].current, y)
      BY <2>3, <2>5, <3>1 DEF Upward
    <3>3. QED
      BY <2>3, <3>2 DEF IsChild, ParentOf
  <2>6. Sound(next)
    BY <2>3, <2>5 DEF Sound
  <2>7. QED
    BY <1>4, <2>3, <2>4, <2>6, PutKeeps DEF WalkUp, Work, next
<1>5. QED
  BY <1>2, <1>3, <1>4 DEF WalkUp

LEMMA FailKeeps == ASSUME TreeInv, NEW p \in Requests, Fail(p) PROVE TreeInv'
BY IdleIsSound, PutKeeps DEF Fail

-----------------------------------------------------------------------------
(* The steps that write.                                                     *)

(* What a step that writes does to the requests: its own ends, and it may overtake walks. *)
Rest(q) ==
  \/ req'[q] \in {req[q], Idle}
  \/ req[q].at \in {"walk", "set"} /\ req'[q] = [req[q] EXCEPT !.overtaken = TRUE]

(* A category's row keeps its area until it goes. *)
AreasKept ==
  \A c \in Categories :
    category[c].scope = None \/ category'[c].scope \in {category[c].scope, "gone"}

LEMMA OvertakenShape ==
  ASSUME NEW w \in Work, w.at \in {"walk", "set"}
  PROVE  LET n == [w EXCEPT !.overtaken = TRUE] IN
         /\ n \in Work /\ n.overtaken
         /\ n.at = w.at /\ n.id = w.id /\ n.to = w.to /\ n.scope = w.scope
<1>1. w \in Walk \/ w \in Set
  BY WorkShape
<1>2. CASE w \in Walk
  BY <1>2 DEF Walk, Work
<1>3. CASE w \in Set
  BY <1>3 DEF Set, Work
<1>4. QED
  BY <1>1, <1>2, <1>3

LEMMA RestTyped ==
  ASSUME TreeInv, NEW q \in Requests, Rest(q)
  PROVE  /\ req'[q] \in Work
         /\ req'[q].at \in {"walk", "set"} => req'[q].overtaken \/ req'[q] = req[q]
<1>1. CASE req'[q] = Idle
  BY <1>1, IdleIsSound DEF Idle
<1>2. CASE req'[q] = req[q]
  BY <1>2, RequestTyped
<1>3. CASE req[q].at \in {"walk", "set"} /\ req'[q] = [req[q] EXCEPT !.overtaken = TRUE]
  BY <1>3, RequestTyped, OvertakenShape
<1>4. QED
  BY <1>1, <1>2, <1>3 DEF Rest

LEMMA RefersKept ==
  ASSUME TreeInv, AreasKept, \A q \in Requests : Rest(q),
         \A q \in Requests : req'[q] = req[q] /\ req[q].at = "move" =>
           product'[req[q].id].scope = product[req[q].id].scope
  PROVE  RefersInv'
<1> SUFFICES ASSUME NEW q \in Requests PROVE Refers(req[q])'
  BY DEF RefersInv
<1>1. req[q] \in Work /\ Refers(req[q])
  BY RequestTyped
<1>2. ASSUME NEW c \in Categories, NEW s \in Scopes, category[c].scope \in {s, "gone"}
      PROVE  category'[c].scope \in {s, "gone"}
  BY <1>2, NoneIsNoScope DEF AreasKept
<1>3. req[q].at # "idle" => req[q].scope \in Scopes
  BY <1>1 DEF Request, Walk, Set, Work, Idle
<1>4. CASE req'[q] = Idle
  BY <1>4 DEF Refers, Idle
<1>5. CASE req'[q] = req[q]
  <2>1. req[q].at = "idle" \/ req[q].at # "idle"
    OBVIOUS
  <2>2. QED
    BY <1>1, <1>2, <1>3, <1>5, <2>1 DEF Refers, Known
<1>6. CASE req[q].at \in {"walk", "set"} /\ req'[q] = [req[q] EXCEPT !.overtaken = TRUE]
  <2>1. /\ req'[q].at = req[q].at /\ req'[q].id = req[q].id /\ req'[q].to = req[q].to
        /\ req'[q].scope = req[q].scope
    BY <1>1, <1>6, OvertakenShape
  <2>2. QED
    BY <1>1, <1>2, <1>3, <1>6, <2>1 DEF Refers, Known
<1>7. QED
  BY <1>4, <1>5, <1>6 DEF Rest

(* Without a new parent there is no new cycle, and no walk has to start again. *)
LEMMA FewerChildren ==
  ASSUME TreeInv, \A x, y \in Categories : IsChild(x, y)' => IsChild(x, y),
         \A q \in Requests : Rest(q)
  PROVE  /\ SoundInv'
         /\ HasCycle' => HasCycle
<1>1. ASSUME NEW q \in Requests PROVE Sound(req[q])'
  <2>1. /\ req'[q] \in Work
        /\ req'[q].at \in {"walk", "set"} => req'[q].overtaken \/ req'[q] = req[q]
        /\ Sound(req[q])
    BY <1>1, RestTyped, RequestTyped
  <2>2. ASSUME NEW S \in SUBSET Categories, NEW c, Upward(S, c)' PROVE Upward(S, c)
    BY <2>2 DEF Upward
  <2>3. CASE req'[q].at \in {"walk", "set"} /\ req'[q] = req[q]
    BY <2>1, <2>2, <2>3 DEF Sound, Upward
  <2>4. CASE req'[q].at \notin {"walk", "set"} \/ req'[q].overtaken
    BY <2>4 DEF Sound
  <2>5. QED
    BY <2>1, <2>3, <2>4
<1>2. QED
  BY <1>1 DEF SoundInv, HasCycle

LEMMA FinishShape ==
  ASSUME TreeInv, NEW p \in Requests, Put(p, Idle)
  PROVE  /\ req' \in [Requests -> Work]
         /\ \A q \in Requests : Rest(q)
         /\ \A q \in Requests : req'[q] \in {req[q], Idle}
BY RequestTyped, IdleIsSound DEF Put, TreeInv, TypeOK, Work, Rest

(* A new category is nobody's parent, and its own parent exists. *)
LEMMA CreateKeeps ==
  ASSUME TreeInv, NEW p \in Requests, NEW c \in Categories, Create(p, c)
  PROVE  TreeInv'
<1> DEFINE row == [scope |-> req[p].scope, parent |-> req[p].to]
<1>1. req[p] \in Request /\ Refers(req[p]) /\ req[p].at = "create"
  BY WorkShape, RequestTyped DEF Create
<1>2. /\ category[c] = Unused /\ row \in Category
      /\ category' \in [Categories -> Category \cup {Unused, Gone}]
      /\ category'[c] = row
      /\ \A d \in Categories : d # c => category'[d] = category[d]
  BY <1>1 DEF Create, NewId, TreeInv, TypeOK, Category, Request
<1>3. /\ req' \in [Requests -> Work] /\ \A q \in Requests : Rest(q)
      /\ \A q \in Requests : req'[q] \in {req[q], Idle}
  BY FinishShape DEF Create
<1>4. AreasKept
  BY <1>2 DEF AreasKept, Unused
<1>5. RefersInv'
  BY <1>3, <1>4, RefersKept DEF Create
<1>6. ~Exists(c) /\ \A s \in Scopes : ~Known(c, s)
  BY <1>2, NoneIsNoScope DEF Exists, Known, Unused
<1>7. req[p].to = None
        \/ (req[p].to \in Categories \ {c} /\ Exists(req[p].to)
            /\ category[req[p].to].scope = req[p].scope)
  <2>1. req[p].scope \in Scopes
    BY <1>1 DEF Request
  <2>2. CASE req[p].to # None
    BY <1>1, <1>6, <2>1, <2>2 DEF Create, Refers, Known, Exists, Scopes
  <2>3. QED
    BY <2>2
<1>8. \A x \in Categories : ~IsChild(x, c)
  <2> SUFFICES ASSUME NEW x \in Categories, IsChild(x, c) PROVE FALSE
    OBVIOUS
  <2>1. Exists(x) /\ category[c].scope = category[x].scope
    BY NoneIsNoId DEF IsChild, TreeInv, ReferencesIntact
  <2>2. QED
    BY <1>6, <2>1 DEF Exists
<1>9. \A x, y \in Categories : x # c /\ IsChild(x, y)' => IsChild(x, y) /\ y # c
  BY <1>2, <1>8 DEF IsChild, Exists
<1>10. ReferencesIntact'
  <2>1. ASSUME NEW d \in Categories, Exists(d)', category'[d].parent # None
        PROVE  category'[category'[d].parent].scope = category'[d].scope
    <3>1. CASE d = c
      BY <1>2, <1>7, <2>1, <3>1
    <3>2. CASE d # c
      <4>1. Exists(d) /\ category[d].parent # None /\ category'[d] = category[d]
        BY <1>2, <2>1, <3>2 DEF Exists
      <4>2. category[category[d].parent].scope = category[d].scope
        BY <4>1 DEF TreeInv, ReferencesIntact
      <4>3. category[d].parent \in Categories
        BY <4>1 DEF TreeInv, TypeOK, Category, Unused, Gone
      <4>4. category[d].parent # c
        BY <1>8, <4>1 DEF IsChild
      <4>5. QED
        BY <1>2, <4>1, <4>2, <4>3, <4>4
    <3>3. QED
      BY <3>1, <3>2
  <2>2. ASSUME NEW x \in Products, product'[x] # NoRow
        PROVE  category'[product'[x].category].scope = product'[x].scope
    <3>1. product' = product
      BY DEF Create
    <3>2. product[x] \in Product /\ category[product[x].category].scope = product[x].scope
      BY <2>2, <3>1 DEF TreeInv, TypeOK, ReferencesIntact
    <3>3. product[x].category # c
      BY <1>6, <3>2 DEF Exists, Product
    <3>4. QED
      BY <1>2, <3>1, <3>2, <3>3 DEF Product
  <2>3. QED
    BY <2>1, <2>2 DEF ReferencesIntact
<1>11. ASSUME NEW q \in Requests PROVE Sound(req[q])'
  <2>1. CASE req'[q] = Idle
    BY <2>1 DEF Sound, Idle
  <2>2. CASE req'[q] = req[q]
    <3>1. ASSUME NEW S \in SUBSET Categories, req[q].at \in {"walk", "set"}, req[q].to \in S,
                 Upward(S, req[q].id)'
          PROVE  /\ S \ {c} \in SUBSET Categories /\ req[q].to \in S \ {c}
                 /\ Upward(S \ {c}, req[q].id)
      <4>1. Known(req[q].to, req[q].scope) /\ req[q].scope \in Scopes
        BY <3>1, RequestTyped, WorkShape DEF Refers, Walk, Set
      <4>2. req[q].to # c
        BY <1>6, <4>1
      <4>3. Upward(S \ {c}, req[q].id)
        BY <1>9, <2>2, <3>1 DEF Upward
      <4>4. QED
        BY <3>1, <4>2, <4>3
    <3>2. Sound(req[q])
      BY RequestTyped
    <3>3. QED
      BY <2>2, <3>1, <3>2 DEF Sound
  <2>3. QED
    BY <1>3, <2>1, <2>2
<1>12. HasCycle' => HasCycle
  <2> SUFFICES ASSUME NEW S \in SUBSET Categories, S # {},
                      \A x \in S : \E y \in S : IsChild(x, y)'
               PROVE  HasCycle
    BY DEF HasCycle
  <2> DEFINE T == S \ {c}
  <2>1. T # {}
    <3>1. CASE c \in S
      <4>1. PICK y \in S : IsChild(c, y)'
        BY <3>1
      <4>2. y = req[p].to
        BY <1>2, <4>1 DEF IsChild
      <4>3. QED
        BY <1>7, <4>2, NoneIsNoId
    <3>2. QED
      BY <3>1
  <2>2. \A x \in T : \E y \in T : IsChild(x, y)
    BY <1>9
  <2>3. QED
    BY <2>1, <2>2 DEF HasCycle
<1>13. TypeOK'
  BY <1>2, <1>3 DEF Create, TreeInv, TypeOK, Work
<1>14. QED
  BY <1>5, <1>10, <1>11, <1>12, <1>13 DEF TreeInv, SoundInv, CycleNeedsRace, Create

(* Nothing refers to a category that goes. *)
LEMMA DeleteKeeps ==
  ASSUME TreeInv, NEW p \in Requests, Delete(p)
  PROVE  TreeInv'
<1> DEFINE c == req[p].id
<1>1. c \in Categories
  BY RequestTyped DEF Delete, Refers, Known
<1>2. /\ category' \in [Categories -> Category \cup {Unused, Gone}]
      /\ category'[c] = Gone
      /\ \A d \in Categories : d # c => category'[d] = category[d]
  BY <1>1 DEF Delete, TreeInv, TypeOK
<1>3. /\ req' \in [Requests -> Work] /\ \A q \in Requests : Rest(q)
      /\ \A q \in Requests : req'[q] \in {req[q], Idle}
  BY FinishShape DEF Delete
<1>4. AreasKept
  BY <1>2 DEF AreasKept, Gone
<1>5. RefersInv'
  BY <1>3, <1>4, RefersKept DEF Delete
<1>6. category'[c].scope \notin Scopes
  BY <1>2 DEF Gone, Scopes
<1>7. \A x, y \in Categories : IsChild(x, y)' => IsChild(x, y)
  BY <1>2, <1>6 DEF IsChild, Exists
<1>8. ReferencesIntact'
  <2>1. ASSUME NEW d \in Categories, Exists(d)', category'[d].parent # None
        PROVE  category'[category'[d].parent].scope = category'[d].scope
    <3>1. d # c /\ category'[d] = category[d] /\ Exists(d)
      BY <1>2, <1>6, <2>1 DEF Exists
    <3>2. category[d].parent \in Categories
      BY <2>1, <3>1 DEF TreeInv, TypeOK, Category, Unused, Gone
    <3>3. category[d].parent # c
      BY <3>1 DEF Delete, RestrictsDelete, Children
    <3>4. QED
      BY <1>2, <2>1, <3>1, <3>2, <3>3 DEF TreeInv, ReferencesIntact
  <2>2. ASSUME NEW x \in Products, product'[x] # NoRow
        PROVE  category'[product'[x].category].scope = product'[x].scope
    <3>1. product' = product
      BY DEF Delete
    <3>2. product[x] \in Product /\ category[product[x].category].scope = product[x].scope
      BY <2>2, <3>1 DEF TreeInv, TypeOK, ReferencesIntact
    <3>3. product[x].category # c
      BY DEF Delete, RestrictsDelete, Uses
    <3>4. QED
      BY <1>2, <3>1, <3>2, <3>3 DEF Product
  <2>3. QED
    BY <2>1, <2>2 DEF ReferencesIntact
<1>9. TypeOK'
  BY <1>2, <1>3 DEF Delete, TreeInv, TypeOK, Work
<1>10. QED
  BY <1>3, <1>5, <1>7, <1>8, <1>9, FewerChildren DEF TreeInv, CycleNeedsRace, Delete

(* A cycle that a write closes goes through the category and its new parent: the set that *)
(* a finished walk has excluded.  Every other walk is overtaken.                          *)
LEMMA MoveKeeps ==
  ASSUME TreeInv, NEW p \in Requests, Move(p)
  PROVE  TreeInv'
<1> DEFINE c == req[p].id
           d == req[p].to
<1>1. /\ c \in Categories /\ Known(c, req[p].scope) /\ req[p].scope \in Scopes
      /\ d = None \/ d \in Categories
      /\ req[p].at = "set" => req[p] \in Set /\ Known(d, req[p].scope) /\ Sound(req[p])
      /\ req[p].at = "write" => d = None
  BY RequestTyped, WorkShape DEF Move, Refers, Known, Request, Set
<1>2. category[c] \in Category /\ category[c].scope \in Scopes
  BY <1>1 DEF Move, Exists, TreeInv, TypeOK, Unused, Gone, Category
<1>3. /\ category' \in [Categories -> Category \cup {Unused, Gone}]
      /\ category'[c].scope = category[c].scope /\ category'[c].parent = d
      /\ \A x \in Categories : x # c => category'[x] = category[x]
      /\ \A x \in Categories : category'[x].scope = category[x].scope
  <2> DEFINE row == [category[c] EXCEPT !.parent = d]
  <2>1. row \in Category /\ row.scope = category[c].scope /\ row.parent = d
    BY <1>1, <1>2 DEF Category
  <2>2. category' = [category EXCEPT ![c] = row]
    BY DEF Move
  <2> HIDE DEF row
  <2>3. QED
    BY <1>1, <2>1, <2>2 DEF TreeInv, TypeOK
<1>4. \A q \in Requests :
        /\ req'[q] = Overtake(p, q) /\ Rest(q)
        /\ req'[q] \in Work
        /\ req'[q].at \in {"walk", "set"} => req'[q].overtaken
  <2>1. ASSUME NEW q \in Requests
        PROVE  /\ req'[q] = Overtake(p, q) /\ Rest(q)
               /\ req'[q].at \in {"walk", "set"} => req'[q].overtaken
    <3>1. req'[q] = Overtake(p, q)
      BY DEF Move
    <3>2. CASE q = p
      BY <3>1, <3>2 DEF Overtake, Rest, Idle
    <3>3. CASE q # p /\ req[q].at \in {"walk", "set"}
      BY <3>1, <3>3, RequestTyped, OvertakenShape DEF Overtake, Rest
    <3>4. CASE q # p /\ req[q].at \notin {"walk", "set"}
      BY <3>1, <3>4 DEF Overtake, Rest
    <3>5. QED
      BY <3>1, <3>2, <3>3, <3>4
  <2>2. QED
    BY <2>1, RestTyped
<1>5. RefersInv'
  BY <1>3, <1>4, RefersKept DEF Move, AreasKept
<1>6. SoundInv'
  BY <1>4 DEF SoundInv, Sound
<1>7. ReferencesIntact'
  <2>1. ASSUME NEW x \in Categories, Exists(x)', category'[x].parent # None
        PROVE  category'[category'[x].parent].scope = category'[x].scope
    <3>1. CASE x = c
      <4>1. d \in Categories /\ category[d].scope \in Scopes /\ Known(d, req[p].scope)
        BY <1>1, <1>3, <2>1, <3>1 DEF Move, Exists
      <4>2. category[d].scope = req[p].scope /\ category[c].scope = req[p].scope
        BY <1>1, <1>2, <4>1 DEF Known, Scopes
      <4>3. QED
        BY <1>3, <3>1, <4>1, <4>2
    <3>2. CASE x # c
      <4>1. Exists(x) /\ category'[x] = category[x]
        BY <1>3, <2>1, <3>2 DEF Exists
      <4>2. category[x].parent \in Categories
        BY <2>1, <4>1 DEF TreeInv, TypeOK, Category, Unused, Gone
      <4>3. QED
        BY <1>3, <2>1, <4>1, <4>2 DEF TreeInv, ReferencesIntact
    <3>3. QED
      BY <3>1, <3>2
  <2>2. ASSUME NEW x \in Products, product'[x] # NoRow
        PROVE  category'[product'[x].category].scope = product'[x].scope
    BY <1>3, <2>2 DEF Move, TreeInv, TypeOK, ReferencesIntact, Product
  <2>3. QED
    BY <2>1, <2>2 DEF ReferencesIntact
<1>8. \A x, y \in Categories : IsChild(x, y)' => IsChild(x, y) \/ (x = c /\ y = d)
  BY <1>3 DEF IsChild, Exists
<1>9. CycleNeedsRace'
  <2> SUFFICES ASSUME NEW S \in SUBSET Categories, S # {},
                      \A x \in S : \E y \in S : IsChild(x, y)', ~raced', ~tooDeep'
               PROVE  FALSE
    BY DEF CycleNeedsRace, HasCycle
  <2>1. ~raced /\ ~tooDeep
    BY DEF Move
  <2>2. PICK x \in S : \A y \in S : ~IsChild(x, y)
    BY <2>1 DEF TreeInv, CycleNeedsRace, HasCycle
  <2>3. x = c /\ d \in S
    BY <1>8, <2>2
  <2>4. Upward(S, c)
    BY <1>8 DEF Upward
  <2>5. req[p].at = "set" /\ ~req[p].overtaken /\ ~req[p].deep
    BY <1>1, <2>3, NoneIsNoId DEF Move
  <2>6. QED
    BY <1>1, <2>3, <2>4, <2>5 DEF Sound
<1>10. TypeOK'
  <2>1. req' \in [Requests -> Work]
    BY <1>4 DEF Move
  <2>2. raced' \in BOOLEAN /\ tooDeep' \in BOOLEAN
    BY DEF Move, TreeInv, TypeOK
  <2>3. QED
    BY <1>3, <2>1, <2>2 DEF Move, TreeInv, TypeOK, Work
<1>11. QED
  BY <1>5, <1>6, <1>7, <1>9, <1>10 DEF TreeInv

(* A product's row gets a category of its area, or goes. *)
LEMMA ProductKeeps ==
  ASSUME TreeInv, NEW x \in Products, NEW row \in Product \cup {NoRow},
         row # NoRow => category[row.category].scope = row.scope,
         product' = [product EXCEPT ![x] = row],
         req' \in [Requests -> Work], \A q \in Requests : req'[q] \in {req[q], Idle},
         \A q \in Requests : req'[q] = req[q] /\ req[q].at = "move" /\ req[q].id = x =>
           row.scope = product[x].scope,
         UNCHANGED <<category, raced, tooDeep>>
  PROVE  TreeInv'
<1>1. \A q \in Requests : Rest(q)
  BY DEF Rest
<1>2. AreasKept
  BY DEF AreasKept
<1>3. /\ product' \in [Products -> Product \cup {NoRow}]
      /\ product'[x] = row
      /\ \A y \in Products : y # x => product'[y] = product[y]
  BY DEF TreeInv, TypeOK
<1>4. \A q \in Requests : req'[q] = req[q] /\ req[q].at = "move" =>
        product'[req[q].id].scope = product[req[q].id].scope
  BY <1>3, RequestTyped DEF Refers
<1>5. RefersInv'
  BY <1>1, <1>2, <1>4, RefersKept
<1>6. \A c, d \in Categories : IsChild(c, d)' => IsChild(c, d)
  BY DEF IsChild, Exists
<1>7. ReferencesIntact'
  BY <1>3 DEF TreeInv, ReferencesIntact, Exists
<1>8. TypeOK'
  BY <1>3 DEF TreeInv, TypeOK, Work
<1>9. QED
  BY <1>1, <1>5, <1>6, <1>7, <1>8, FewerChildren DEF TreeInv, CycleNeedsRace

LEMMA InsertKeeps ==
  ASSUME TreeInv, NEW p \in Requests, NEW x \in Products, Insert(p, x)
  PROVE  TreeInv'
<1> DEFINE row == [scope |-> req[p].scope, category |-> req[p].to]
<1>1. /\ req[p].scope \in Scopes /\ Known(req[p].to, req[p].scope)
  BY RequestTyped, WorkShape DEF Insert, Refers, Request
<1>2. row \in Product /\ category[row.category].scope = row.scope
  BY <1>1 DEF Insert, Known, Exists, Product, Scopes
<1>3. \A q \in Requests : req[q].at = "move" => req[q].id # x
  <2> SUFFICES ASSUME NEW q \in Requests, req[q].at = "move", req[q].id = x PROVE FALSE
    OBVIOUS
  <2>1. req[q].scope \in Scopes /\ product[x].scope = req[q].scope
    BY RequestTyped, WorkShape DEF Refers, Request
  <2>2. QED
    BY <2>1, NoneIsNoScope DEF Insert, NoRow
<1>4. req' \in [Requests -> Work] /\ \A q \in Requests : req'[q] \in {req[q], Idle}
  BY FinishShape DEF Insert
<1>5. product' = [product EXCEPT ![x] = row] /\ UNCHANGED <<category, raced, tooDeep>>
  BY DEF Insert
<1> HIDE DEF row
<1>6. QED
  BY <1>2, <1>3, <1>4, <1>5, ProductKeeps

LEMMA ReassignKeeps ==
  ASSUME TreeInv, NEW p \in Requests, Reassign(p)
  PROVE  TreeInv'
<1> DEFINE x == req[p].id
           row == [product[x] EXCEPT !.category = req[p].to]
<1>1. /\ req[p].scope \in Scopes /\ Known(req[p].to, req[p].scope)
      /\ x \in Products /\ product[x].scope = req[p].scope
  BY RequestTyped, WorkShape DEF Reassign, Refers, Request
<1>2. product[x] \in Product
  BY <1>1 DEF Reassign, TreeInv, TypeOK
<1>3. row \in Product /\ row.scope = product[x].scope /\ row.category = req[p].to
  BY <1>1, <1>2 DEF Product, Known
<1>4. category[row.category].scope = row.scope
  BY <1>1, <1>3 DEF Reassign, Known, Exists, Scopes
<1>5. product' = [product EXCEPT ![x] = row] /\ UNCHANGED <<category, raced, tooDeep>>
  BY DEF Reassign
<1>6. req' \in [Requests -> Work] /\ \A q \in Requests : req'[q] \in {req[q], Idle}
  BY FinishShape DEF Reassign
<1> HIDE DEF x, row
<1>7. QED
  BY <1>1, <1>3, <1>4, <1>5, <1>6, ProductKeeps

LEMMA DeleteProductKeeps ==
  ASSUME TreeInv, NEW x \in Products, DeleteProduct(x)
  PROVE  TreeInv'
<1>1. req' \in [Requests -> Work] /\ \A q \in Requests : req'[q] \in {req[q], Idle}
  BY DEF DeleteProduct, TreeInv, TypeOK, Work
<1>2. QED
  BY <1>1, ProductKeeps DEF DeleteProduct

-----------------------------------------------------------------------------
LEMMA TreeNext == TreeInv /\ [Next]_vars => TreeInv'
<1> SUFFICES ASSUME TreeInv, [Next]_vars PROVE TreeInv'
  OBVIOUS
<1>1. CASE UNCHANGED vars
  <2>1. \A x, y \in Categories : IsChild(x, y)' => IsChild(x, y)
    BY <1>1 DEF vars, IsChild, Exists
  <2>2. (\A q \in Requests : Rest(q)) /\ AreasKept
    BY <1>1 DEF vars, Rest, AreasKept
  <2>3. RefersInv'
    BY <1>1, <2>2, RefersKept DEF vars
  <2>4. TypeOK' /\ ReferencesIntact'
    BY <1>1 DEF vars, TreeInv, TypeOK, ReferencesIntact, Exists
  <2>5. QED
    BY <1>1, <2>1, <2>2, <2>3, <2>4, FewerChildren DEF TreeInv, CycleNeedsRace, vars
<1>2. ASSUME NEW p \in Requests, NEW s \in Scopes, NEW c \in Categories \cup {None},
             BeginCreate(p, s, c)
      PROVE  TreeInv'
  BY <1>2, BeginKeeps
<1>3. ASSUME NEW p \in Requests, NEW c \in Categories,
             Create(p, c) \/ BeginDelete(p, c) \/ Detach(p, c)
      PROVE  TreeInv'
  BY <1>3, BeginKeeps, CreateKeeps
<1>4. ASSUME NEW p \in Requests, NEW c \in Categories, NEW d \in Categories, NEW s \in Scopes,
             BeginMove(p, c, s, d)
      PROVE  TreeInv'
  BY <1>4, BeginKeeps
<1>5. ASSUME NEW p \in Requests, NEW s \in Scopes, NEW c \in Categories, BeginInsert(p, s, c)
      PROVE  TreeInv'
  BY <1>5, BeginKeeps
<1>6. ASSUME NEW p \in Requests, NEW x \in Products, Insert(p, x) PROVE TreeInv'
  BY <1>6, InsertKeeps
<1>7. ASSUME NEW p \in Requests, NEW x \in Products, NEW c \in Categories,
             BeginReassign(p, x, c)
      PROVE  TreeInv'
  BY <1>7, BeginKeeps
<1>8. ASSUME NEW p \in Requests,
             CountUses(p) \/ Delete(p) \/ CheckParent(p) \/ WalkUp(p) \/ Move(p)
      PROVE  TreeInv'
  BY <1>8, CountKeeps, DeleteKeeps, CheckParentKeeps, WalkUpKeeps, MoveKeeps
<1>9. ASSUME NEW p \in Requests, Reassign(p) \/ Fail(p) PROVE TreeInv'
  BY <1>9, ReassignKeeps, FailKeeps
<1>10. ASSUME NEW x \in Products, DeleteProduct(x) PROVE TreeInv'
  BY <1>10, DeleteProductKeeps
<1>11. QED
  BY <1>1, <1>2, <1>3, <1>4, <1>5, <1>6, <1>7, <1>8, <1>9, <1>10 DEF Next

(* Areas are never mixed and nothing is orphaned: the checks outside a transaction and the *)
(* foreign keys together are enough, whatever is deleted in between.                       *)
THEOREM AreasNeverMix == ShopSpec => []ReferencesIntact
<1>1. TreeInv => ReferencesIntact
  BY DEF TreeInv
<1>2. QED
  BY <1>1, PartsRunAlone, TreeInit, TreeNext, PTL DEF Spec

(* assertNoCycle keeps the hierarchy free of cycles, unless a concurrent move overtakes its *)
(* walk or the walk ends at MaxDepth.                                                       *)
THEOREM WalkPreventsCycles == ShopSpec => []CycleNeedsRace
<1>1. TreeInv => CycleNeedsRace
  BY DEF TreeInv
<1>2. QED
  BY <1>1, PartsRunAlone, TreeInit, TreeNext, PTL DEF Spec

-----------------------------------------------------------------------------
(* Prices of shop products.                                                  *)

(* What a request has found out by its stage: the pricing of a new row, and of the patch over *)
(* the row that it has read, which is the row as it is unless another request wrote it since. *)
Founded(w, rows) ==
  /\ w.at = "insert" => Pricing!Priced(w.row)
  /\ w.at \in {"sku", "write"} /\ ~w.stale => w.read = rows[w.id]
  /\ w.at = "write" => Pricing!Priced(Pricing!Merge(w.read, w.patch))

PriceWork == {Pricing!Idle} \cup Pricing!Insert \cup Pricing!Update

PriceInv ==
  Pricing!TypeOK /\ SaleNeedsRace /\ \A p \in Requests : Founded(work[p], shopProduct)

LEMMA WorkStages ==
  ASSUME NEW w \in PriceWork
  PROVE  /\ w.at = "idle" => w = Pricing!Idle
         /\ w.at = "insert" => w \in Pricing!Insert
         /\ w.at \in {"sku", "write"} => w \in Pricing!Update
         /\ w # Pricing!Idle => w.at # "idle"
BY DEF PriceWork, Pricing!Idle, Pricing!Insert, Pricing!Update

(* A patch laid over a row makes a row. *)
LEMMA MergeIsRow ==
  ASSUME NEW row \in Pricing!Row, NEW patch \in Patches
  PROVE  Pricing!Merge(row, patch) \in Pricing!Row
<1>1. \A f \in DOMAIN patch : patch[f] \in Pricing!Values[f]
  BY PricingConstants DEF Pricing!BodiesAreRows
<1>2. \A f \in Pricing!Fields : row[f] \in Pricing!Values[f]
  BY DEF Pricing!Fields, Pricing!Row, Pricing!Values
<1>3. \A f \in Pricing!Fields : Pricing!Merge(row, patch)[f] \in Pricing!Values[f]
  BY <1>1, <1>2 DEF Pricing!Merge
<1>4. Pricing!Merge(row, patch) =
        [price |-> Pricing!Merge(row, patch).price, sale |-> Pricing!Merge(row, patch).sale,
         starts |-> Pricing!Merge(row, patch).starts, ends |-> Pricing!Merge(row, patch).ends,
         sku |-> Pricing!Merge(row, patch).sku]
  BY DEF Pricing!Merge, Pricing!Fields
<1>5. QED
  BY <1>3, <1>4 DEF Pricing!Fields, Pricing!Row, Pricing!Values

LEMMA PriceInit == Pricing!Init => PriceInv
<1> SUFFICES ASSUME Pricing!Init PROVE PriceInv
  OBVIOUS
<1>1. Pricing!TypeOK
  BY DEF Pricing!Init, Pricing!TypeOK
<1>2. SaleNeedsRace
  BY DEF Pricing!Init, SaleNeedsRace, Pricing!SaleNeedsRace
<1>3. \A p \in Requests : Founded(work[p], shopProduct)
  BY DEF Pricing!Init, Founded, Pricing!Idle
<1>4. QED
  BY <1>1, <1>2, <1>3 DEF PriceInv

(* A request goes on, and no row changes. *)
LEMMA PutPriceKeeps ==
  ASSUME PriceInv, NEW p \in Requests, NEW w \in PriceWork, Founded(w, shopProduct),
         Pricing!Put(p, w), UNCHANGED <<shopProduct, lostUpdate>>
  PROVE  PriceInv'
<1>1. work' = [work EXCEPT ![p] = w] /\ work \in [Requests -> PriceWork]
  BY DEF Pricing!Put, PriceInv, Pricing!TypeOK, PriceWork
<1>2. Pricing!TypeOK'
  BY <1>1 DEF PriceInv, Pricing!TypeOK, PriceWork
<1>3. \A q \in Requests : work'[q] = IF q = p THEN w ELSE work[q]
  BY <1>1
<1>4. \A q \in Requests : Founded(work'[q], shopProduct)
  BY <1>3 DEF PriceInv
<1>5. SaleNeedsRace'
  BY DEF PriceInv, SaleNeedsRace, Pricing!SaleNeedsRace
<1>6. QED
  BY <1>2, <1>4, <1>5 DEF PriceInv

LEMMA IdleIsFounded == Pricing!Idle \in PriceWork /\ Founded(Pricing!Idle, shopProduct)
BY DEF PriceWork, Pricing!Idle, Founded

LEMMA BeginPriceKeeps ==
  ASSUME PriceInv, NEW p \in Requests,
         \/ \E row \in Bodies : Pricing!BeginCreate(p, row)
         \/ \E x \in ShopIds, patch \in Patches : Pricing!BeginUpdate(p, x, patch)
  PROVE  PriceInv'
<1>1. CASE \E row \in Bodies : Pricing!BeginCreate(p, row)
  <2>1. PICK row \in Bodies : Pricing!BeginCreate(p, row)
    BY <1>1
  <2> DEFINE w == [at |-> "insert", row |-> row]
  <2>2. w \in PriceWork /\ Founded(w, shopProduct)
    BY <2>1 DEF PriceWork, Pricing!Insert, Founded, Pricing!BeginCreate
  <2>3. Pricing!Put(p, w) /\ UNCHANGED <<shopProduct, lostUpdate>>
    BY <2>1 DEF Pricing!BeginCreate
  <2> HIDE DEF w
  <2>4. QED
    BY <2>2, <2>3, PutPriceKeeps
<1>2. CASE \E x \in ShopIds, patch \in Patches : Pricing!BeginUpdate(p, x, patch)
  <2>1. PICK x \in ShopIds, patch \in Patches : Pricing!BeginUpdate(p, x, patch)
    BY <1>2
  <2>2. shopProduct[x] \in Pricing!Row
    BY <2>1 DEF PriceInv, Pricing!TypeOK, Pricing!BeginUpdate
  <2> DEFINE w == [at |-> "sku", id |-> x, patch |-> patch, read |-> shopProduct[x],
                   stale |-> FALSE]
  <2>3. w \in PriceWork /\ Founded(w, shopProduct)
    BY <2>2 DEF PriceWork, Pricing!Update, Founded
  <2>4. Pricing!Put(p, w) /\ UNCHANGED <<shopProduct, lostUpdate>>
    BY <2>1 DEF Pricing!BeginUpdate
  <2> HIDE DEF w
  <2>5. QED
    BY <2>3, <2>4, PutPriceKeeps
<1>3. QED
  BY <1>1, <1>2

LEMMA CheckPriceKeeps ==
  ASSUME PriceInv, NEW p \in Requests, Pricing!CheckUpdate(p) PROVE PriceInv'
<1>1. /\ work[p] \in Pricing!Update /\ work[p].at = "sku" /\ Founded(work[p], shopProduct)
  BY WorkStages DEF PriceInv, Pricing!TypeOK, PriceWork, Pricing!CheckUpdate
<1> DEFINE w == [work[p] EXCEPT !.at = "write"]
<1>2. /\ w \in PriceWork /\ w.at = "write" /\ w.read = work[p].read /\ w.patch = work[p].patch
      /\ w.id = work[p].id /\ w.stale = work[p].stale
  BY <1>1 DEF PriceWork, Pricing!Update
<1>3. UNCHANGED <<shopProduct, lostUpdate>>
  BY DEF Pricing!CheckUpdate
<1>4. CASE Pricing!Put(p, Pricing!Idle)
  BY <1>3, <1>4, IdleIsFounded, PutPriceKeeps
<1>5. CASE Pricing!Put(p, w) /\ Pricing!Accepts(work[p].read, work[p].patch)
  <2> HIDE DEF w
  <2>1. Founded(w, shopProduct)
    BY <1>1, <1>2, <1>5 DEF Founded, Pricing!Accepts
  <2>2. QED
    BY <1>2, <1>3, <1>5, <2>1, PutPriceKeeps
<1>6. QED
  BY <1>4, <1>5 DEF Pricing!CheckUpdate

(* A new row, of a price that was checked. *)
LEMMA CreatePriceKeeps ==
  ASSUME PriceInv, NEW p \in Requests, NEW x \in ShopIds, Pricing!Create(p, x) PROVE PriceInv'
<1>1. work[p] \in Pricing!Insert /\ Founded(work[p], shopProduct) /\ work[p].at = "insert"
  BY WorkStages DEF PriceInv, Pricing!TypeOK, PriceWork, Pricing!Create
<1>2. work[p].row \in Pricing!Row /\ Pricing!Priced(work[p].row)
  BY <1>1, PricingConstants DEF Pricing!Insert, Pricing!BodiesAreRows, Founded
<1>3. /\ shopProduct' = [shopProduct EXCEPT ![x] = work[p].row] /\ UNCHANGED lostUpdate
      /\ work' = [work EXCEPT ![p] = Pricing!Idle] /\ shopProduct[x] = Pricing!NoRow
  BY DEF Pricing!Create, Pricing!Put
<1>4. Pricing!TypeOK'
  BY <1>2, <1>3, IdleIsFounded DEF PriceInv, Pricing!TypeOK, PriceWork
<1>5. SaleNeedsRace'
  BY <1>2, <1>3 DEF PriceInv, Pricing!TypeOK, SaleNeedsRace, Pricing!SaleNeedsRace
<1>6. ASSUME NEW q \in Requests PROVE Founded(work'[q], shopProduct')
  <2>1. CASE q = p
    BY <1>3, <2>1 DEF PriceInv, Pricing!TypeOK, Founded, Pricing!Idle
  <2>2. CASE q # p
    <3>1. work'[q] = work[q] /\ Founded(work[q], shopProduct) /\ work[q] \in PriceWork
      BY <1>3, <2>2 DEF PriceInv, Pricing!TypeOK, PriceWork
    <3>2. CASE work[q].at \in {"sku", "write"} /\ ~work[q].stale
      <4>1. work[q] \in Pricing!Update /\ work[q].read = shopProduct[work[q].id]
        BY <3>1, <3>2, WorkStages DEF Founded
      <4>2. work[q].read \in Pricing!Row /\ work[q].id \in ShopIds
        BY <4>1 DEF Pricing!Update
      <4>3. Pricing!NoRow \notin Pricing!Row
        BY PricingConstants DEF Pricing!NoRow, Pricing!Row, Pricing!NoneIsNoValue
      <4>4. work[q].id # x
        BY <1>3, <4>1, <4>2, <4>3
      <4>5. shopProduct'[work[q].id] = shopProduct[work[q].id]
        BY <1>3, <4>2, <4>4 DEF PriceInv, Pricing!TypeOK
      <4>6. QED
        BY <3>1, <4>5 DEF Founded
    <3>3. CASE ~(work[q].at \in {"sku", "write"} /\ ~work[q].stale)
      BY <3>1, <3>3 DEF Founded
    <3>4. QED
      BY <3>2, <3>3
  <2>3. QED
    BY <2>1, <2>2
<1>7. QED
  BY <1>4, <1>5, <1>6 DEF PriceInv

(* A patch is written: what was checked is what is written, unless the row had changed. *)
LEMMA WritePriceKeeps ==
  ASSUME PriceInv, NEW p \in Requests, Pricing!WriteUpdate(p) PROVE PriceInv'
<1> DEFINE x == work[p].id
           row == Pricing!Merge(shopProduct[x], work[p].patch)
<1>1. work[p] \in Pricing!Update /\ Founded(work[p], shopProduct) /\ work[p].at = "write"
  BY WorkStages DEF PriceInv, Pricing!TypeOK, PriceWork, Pricing!WriteUpdate
<1>2. /\ x \in ShopIds /\ work[p].patch \in Patches /\ work[p].stale \in BOOLEAN
      /\ shopProduct[x] \in Pricing!Row
  BY <1>1 DEF Pricing!Update, PriceInv, Pricing!TypeOK, Pricing!WriteUpdate
<1>3. row \in Pricing!Row
  BY <1>2, MergeIsRow
<1>4. ~work[p].stale => Pricing!Priced(row)
  BY <1>1 DEF Founded
<1>5. /\ shopProduct' = [shopProduct EXCEPT ![x] = row]
      /\ work' = [q \in Requests |->
                   IF q = p THEN Pricing!Idle
                   ELSE IF work[q].at \in {"sku", "write"} /\ work[q].id = x
                        THEN [work[q] EXCEPT !.stale = TRUE] ELSE work[q]]
      /\ lostUpdate' = IF work[p].stale THEN lostUpdate \cup {x} ELSE lostUpdate
  BY DEF Pricing!WriteUpdate, Pricing!Overtake
<1> HIDE DEF x, row
<1>6. ASSUME NEW q \in Requests
      PROVE  work'[q] \in PriceWork /\ Founded(work'[q], shopProduct')
  <2>1. work[q] \in PriceWork /\ Founded(work[q], shopProduct)
    BY DEF PriceInv, Pricing!TypeOK, PriceWork
  <2>2. CASE q = p
    BY <1>5, <2>2 DEF Founded, Pricing!Idle, PriceWork
  <2>3. CASE q # p /\ work[q].at \in {"sku", "write"} /\ work[q].id = x
    <3>1. work[q] \in Pricing!Update
      BY <2>1, <2>3, WorkStages
    <3> DEFINE w == [work[q] EXCEPT !.stale = TRUE]
    <3>2. /\ w \in PriceWork /\ w.stale = TRUE /\ w.at = work[q].at /\ w.read = work[q].read
          /\ w.patch = work[q].patch
      BY <3>1 DEF Pricing!Update, PriceWork
    <3>3. work'[q] = w
      BY <1>5, <2>3
    <3> HIDE DEF w
    <3>4. QED
      BY <2>1, <2>3, <3>2, <3>3 DEF Founded
  <2>4. CASE q # p /\ ~(work[q].at \in {"sku", "write"} /\ work[q].id = x)
    <3>1. work'[q] = work[q]
      BY <1>5, <2>4
    <3>2. work[q].at \in {"sku", "write"} => shopProduct'[work[q].id] = shopProduct[work[q].id]
      <4>1. work[q].at \in {"sku", "write"} => work[q].id \in ShopIds /\ work[q].id # x
        BY <2>1, <2>4, WorkStages DEF Pricing!Update
      <4>2. QED
        BY <1>5, <4>1 DEF PriceInv, Pricing!TypeOK
    <3>3. QED
      BY <2>1, <3>1, <3>2 DEF Founded
  <2>5. QED
    BY <2>2, <2>3, <2>4
<1>7. Pricing!TypeOK'
  <2>1. work' \in [Requests -> PriceWork]
    BY <1>5, <1>6
  <2>2. shopProduct' \in [ShopIds -> Pricing!Row \cup {Pricing!NoRow}]
    BY <1>2, <1>3, <1>5 DEF PriceInv, Pricing!TypeOK
  <2>3. lostUpdate' \in SUBSET ShopIds
    BY <1>2, <1>5 DEF PriceInv, Pricing!TypeOK
  <2>4. QED
    BY <2>1, <2>2, <2>3 DEF Pricing!TypeOK, PriceWork
<1>8. SaleNeedsRace'
  <2>1. SUFFICES ASSUME NEW y \in ShopIds \ lostUpdate'
                 PROVE  shopProduct'[y] = Pricing!NoRow \/ Pricing!Priced(shopProduct'[y])
    BY DEF SaleNeedsRace, Pricing!SaleNeedsRace
  <2>2. CASE y = x
    BY <1>2, <1>4, <1>5, <2>2 DEF PriceInv, Pricing!TypeOK
  <2>3. CASE y # x
    BY <1>5, <2>3 DEF PriceInv, Pricing!TypeOK, SaleNeedsRace, Pricing!SaleNeedsRace
  <2>4. QED
    BY <2>2, <2>3
<1>9. QED
  BY <1>6, <1>7, <1>8 DEF PriceInv

LEMMA DeletePriceKeeps ==
  ASSUME PriceInv, NEW x \in ShopIds, Pricing!Delete(x) PROVE PriceInv'
<1>1. /\ shopProduct' = [shopProduct EXCEPT ![x] = Pricing!NoRow]
      /\ lostUpdate' = lostUpdate \ {x} /\ UNCHANGED work
      /\ \A p \in Requests : ~(work[p].at \in {"sku", "write"} /\ work[p].id = x)
  BY DEF Pricing!Delete
<1>2. Pricing!TypeOK'
  BY <1>1 DEF PriceInv, Pricing!TypeOK
<1>3. SaleNeedsRace'
  BY <1>1 DEF PriceInv, Pricing!TypeOK, SaleNeedsRace, Pricing!SaleNeedsRace
<1>4. ASSUME NEW q \in Requests PROVE Founded(work[q], shopProduct')
  <2>1. work[q] \in PriceWork /\ Founded(work[q], shopProduct)
    BY DEF PriceInv, Pricing!TypeOK, PriceWork
  <2>2. work[q].at \in {"sku", "write"} => work[q].id \in ShopIds /\ work[q].id # x
    BY <1>1, <2>1, WorkStages DEF Pricing!Update
  <2>3. work[q].at \in {"sku", "write"} => shopProduct'[work[q].id] = shopProduct[work[q].id]
    BY <1>1, <2>2 DEF PriceInv, Pricing!TypeOK
  <2>4. QED
    BY <2>1, <2>3 DEF Founded
<1>5. QED
  BY <1>1, <1>2, <1>3, <1>4 DEF PriceInv

LEMMA PriceNext == PriceInv /\ [Pricing!Next]_(Pricing!vars) => PriceInv'
<1> SUFFICES ASSUME PriceInv, [Pricing!Next]_(Pricing!vars) PROVE PriceInv'
  OBVIOUS
<1>1. CASE UNCHANGED Pricing!vars
  BY <1>1 DEF Pricing!vars, PriceInv, Pricing!TypeOK, SaleNeedsRace, Pricing!SaleNeedsRace
<1>2. ASSUME NEW p \in Requests, NEW row \in Bodies, Pricing!BeginCreate(p, row) PROVE PriceInv'
  BY <1>2, BeginPriceKeeps
<1>3. ASSUME NEW p \in Requests, NEW x \in ShopIds, Pricing!Create(p, x) PROVE PriceInv'
  BY <1>3, CreatePriceKeeps
<1>4. ASSUME NEW p \in Requests, NEW x \in ShopIds, NEW patch \in Patches,
             Pricing!BeginUpdate(p, x, patch)
      PROVE  PriceInv'
  BY <1>4, BeginPriceKeeps
<1>5. ASSUME NEW p \in Requests, Pricing!CheckUpdate(p) PROVE PriceInv'
  BY <1>5, CheckPriceKeeps
<1>6. ASSUME NEW p \in Requests, Pricing!WriteUpdate(p) PROVE PriceInv'
  BY <1>6, WritePriceKeeps
<1>7. ASSUME NEW p \in Requests, Pricing!Fail(p) PROVE PriceInv'
  BY <1>7, IdleIsFounded, PutPriceKeeps DEF Pricing!Fail
<1>8. ASSUME NEW x \in ShopIds, Pricing!Delete(x) PROVE PriceInv'
  BY <1>8, DeletePriceKeeps
<1>9. QED
  BY <1>1, <1>2, <1>3, <1>4, <1>5, <1>6, <1>7, <1>8 DEF Pricing!Next

(* The pricing rules relate fields that requests patch one at a time: they are broken only    *)
(* when a patch is written over a row that changed after the patch was checked against it.    *)
THEOREM PricingNeedsRace == ShopSpec => []SaleNeedsRace
<1>1. PriceInv => SaleNeedsRace
  BY DEF PriceInv
<1>2. QED
  BY <1>1, PartsRunAlone, PriceInit, PriceNext, PTL DEF Pricing!Spec

-----------------------------------------------------------------------------
(* Tags.                                                                     *)

Ensured == [at : Tags!Stages, name : Names, answer : Slugs \cup {None}]

(* What a call knows by its stage: after the refusal of its insert, and after any answer, the *)
(* tag is there, and nothing takes it away.                                                   *)
Tagged(c, tags) ==
  /\ c.at \in {"find", "create", "again", "ok"} => SlugOf[c.name] \in Slugs
  /\ c.at \in {"again", "ok"} => tags[SlugOf[c.name]] # None
  /\ c.at = "ok" => c.answer = SlugOf[c.name]
  /\ c.at # "error"

TagInv == Tags!TypeOK /\ \A p \in Requests : Tagged(call[p], catalogTag)

LEMMA TagInit == Tags!Init => TagInv
BY DEF Tags!Init, TagInv, Tags!TypeOK, Tagged, Tags!NoCall

(* A call goes on, whatever it does to the tags but remove one. *)
LEMMA CallKeeps ==
  ASSUME TagInv, NEW p \in Requests, NEW c \in Ensured, call' = [call EXCEPT ![p] = c],
         catalogTag' \in [Slugs -> Names \cup {None}],
         \A s \in Slugs : catalogTag[s] # None => catalogTag'[s] # None,
         Tagged(c, catalogTag')
  PROVE  TagInv'
<1>1. Tags!TypeOK'
  BY DEF TagInv, Tags!TypeOK, Ensured
<1>2. \A q \in Requests : call'[q] = IF q = p THEN c ELSE call[q]
  BY DEF TagInv, Tags!TypeOK
<1>3. \A q \in Requests : Tagged(call[q], catalogTag) => Tagged(call[q], catalogTag')
  BY DEF Tagged
<1>4. \A q \in Requests : Tagged(call'[q], catalogTag')
  BY <1>2, <1>3 DEF TagInv
<1>5. QED
  BY <1>1, <1>4 DEF TagInv

LEMMA EnsureKeeps ==
  ASSUME TagInv, NEW p \in Requests, NEW name \in Names, Tags!Ensure(p, name) PROVE TagInv'
<1> DEFINE c == [at |-> IF SlugOf[name] = None THEN "refused" ELSE "find",
                 name |-> name, answer |-> None]
<1>1. c \in Ensured /\ Tagged(c, catalogTag)
  BY TagConstants DEF Ensured, Tags!Stages, Tagged, Tags!SlugsAreSlugs
<1>2. call' = [call EXCEPT ![p] = c] /\ UNCHANGED catalogTag
  BY DEF Tags!Ensure
<1>3. catalogTag \in [Slugs -> Names \cup {None}]
  BY DEF TagInv, Tags!TypeOK
<1> HIDE DEF c
<1>4. QED
  BY <1>1, <1>2, <1>3, CallKeeps

LEMMA LookKeeps ==
  ASSUME TagInv, NEW p \in Requests, Tags!Find(p) \/ Tags!CreateTag(p) \/ Tags!FindAgain(p)
  PROVE  TagInv'
<1> DEFINE s == SlugOf[call[p].name]
           answered == [at |-> "ok", name |-> call[p].name, answer |-> s]
<1>1. /\ call[p] \in Ensured \cup {Tags!NoCall} /\ Tagged(call[p], catalogTag)
      /\ call[p].at \in {"find", "create", "again"}
  BY DEF TagInv, Tags!TypeOK, Ensured, Tags!Find, Tags!CreateTag, Tags!FindAgain
<1>2. call[p] \in Ensured
  BY <1>1 DEF Tags!NoCall
<1>3. s \in Slugs /\ s # None /\ call[p].name \in Names /\ call[p].name # None
  BY <1>1, <1>2, TagConstants DEF Tagged, Ensured, Tags!SlugsAreSlugs
<1>4. catalogTag \in [Slugs -> Names \cup {None}]
  BY DEF TagInv, Tags!TypeOK
<1>5. answered \in Ensured
  BY <1>3 DEF Ensured, Tags!Stages
<1>6. ASSUME NEW stage \in {"create", "again"}
      PROVE  [call[p] EXCEPT !.at = stage] \in Ensured
  BY <1>2 DEF Ensured, Tags!Stages
<1>7. CASE Tags!Find(p)
  <2>1. CASE catalogTag[s] # None
    <3>1. call' = [call EXCEPT ![p] = answered] /\ UNCHANGED catalogTag
      BY <1>7, <2>1 DEF Tags!Find, Tags!Answer, Tags!Slug
    <3>2. Tagged(answered, catalogTag)
      BY <1>3, <2>1 DEF Tagged
    <3> HIDE DEF answered
    <3>3. QED
      BY <1>4, <1>5, <3>1, <3>2, CallKeeps
  <2>2. CASE catalogTag[s] = None
    <3> DEFINE c == [call[p] EXCEPT !.at = "create"]
    <3>1. call' = [call EXCEPT ![p] = c] /\ UNCHANGED catalogTag
      BY <1>7, <2>2 DEF Tags!Find, Tags!Goto, Tags!Slug
    <3>2. c \in Ensured /\ Tagged(c, catalogTag)
      BY <1>2, <1>3, <1>6 DEF Tagged, Ensured
    <3> HIDE DEF c
    <3>3. QED
      BY <1>4, <3>1, <3>2, CallKeeps
  <2>3. QED
    BY <2>1, <2>2
<1>8. CASE Tags!CreateTag(p)
  <2>1. CASE catalogTag[s] = None
    <3>1. /\ call' = [call EXCEPT ![p] = answered]
          /\ catalogTag' = [catalogTag EXCEPT ![s] = call[p].name]
      BY <1>8, <2>1 DEF Tags!CreateTag, Tags!Answer, Tags!Slug
    <3>2. /\ catalogTag' \in [Slugs -> Names \cup {None}] /\ catalogTag'[s] # None
          /\ \A t \in Slugs : catalogTag[t] # None => catalogTag'[t] # None
      BY <1>3, <1>4, <3>1
    <3>3. Tagged(answered, catalogTag')
      BY <1>3, <3>2 DEF Tagged
    <3> HIDE DEF answered
    <3>4. QED
      BY <1>5, <3>1, <3>2, <3>3, CallKeeps
  <2>2. CASE catalogTag[s] # None
    <3> DEFINE c == [call[p] EXCEPT !.at = "again"]
    <3>1. call' = [call EXCEPT ![p] = c] /\ UNCHANGED catalogTag
      BY <1>8, <2>2 DEF Tags!CreateTag, Tags!Goto, Tags!Slug, Tags!AfterConflict
    <3>2. c \in Ensured /\ Tagged(c, catalogTag)
      BY <1>2, <1>3, <1>6, <2>2 DEF Tagged, Ensured
    <3> HIDE DEF c
    <3>3. QED
      BY <1>4, <3>1, <3>2, CallKeeps
  <2>3. QED
    BY <2>1, <2>2
<1>9. CASE Tags!FindAgain(p)
  <2>1. catalogTag[s] # None
    BY <1>1, <1>9 DEF Tagged, Tags!FindAgain
  <2>2. call' = [call EXCEPT ![p] = answered] /\ UNCHANGED catalogTag
    BY <1>9, <2>1 DEF Tags!FindAgain, Tags!Answer, Tags!Slug
  <2>3. Tagged(answered, catalogTag)
    BY <1>3, <2>1 DEF Tagged
  <2> HIDE DEF answered
  <2>4. QED
    BY <1>4, <1>5, <2>2, <2>3, CallKeeps
<1>10. QED
  BY <1>7, <1>8, <1>9

LEMMA TagNext == TagInv /\ [Tags!Next]_(Tags!vars) => TagInv'
<1> SUFFICES ASSUME TagInv, [Tags!Next]_(Tags!vars) PROVE TagInv'
  OBVIOUS
<1>1. CASE UNCHANGED Tags!vars
  BY <1>1 DEF Tags!vars, TagInv, Tags!TypeOK
<1>2. ASSUME NEW p \in Requests, NEW name \in Names, Tags!Ensure(p, name) PROVE TagInv'
  BY <1>2, EnsureKeeps
<1>3. ASSUME NEW p \in Requests, Tags!Find(p) \/ Tags!CreateTag(p) \/ Tags!FindAgain(p)
      PROVE  TagInv'
  BY <1>3, LookKeeps
<1>4. QED
  BY <1>1, <1>2, <1>3 DEF Tags!Next

(* Whoever else creates the same tag at the same time, every call with a usable name is       *)
(* answered with the tag of its slug, and none ends in the error of the unique constraint.    *)
THEOREM TagsAreShared == ShopSpec => []EnsureIsIdempotent
<1>1. TagInv => EnsureIsIdempotent
  BY DEF TagInv, Tagged, EnsureIsIdempotent, Tags!EnsureIsIdempotent, Tags!Slug
<1>2. QED
  BY <1>1, PartsRunAlone, TagInit, TagNext, PTL DEF Tags!Spec

-----------------------------------------------------------------------------
(* Cities, stores and hours.                                                 *)

AnyJob == {Shops!Idle} \cup Shops!Job
Updating(j) == j.at \in {"begin"} \cup Shops!InTransaction
Locked(j)   == j.at \in Shops!InTransaction /\ j.row
Holding(j)  == j.at \in {"insertHours", "commit"} /\ j.deleted # {}

(* A store has its city and one week of hours. *)
Whole(s) == store[s] # None => city[store[s]] # None /\ \E w \in Weeks : hours[s] = {w}

(* What a request refers to by its stage.  Its store is there.  The row lock, if it takes it, *)
(* keeps the city that the store is about to have, through the foreign key.  The rows that    *)
(* its deleteMany sees are the store's hours, unless another one without a common row lock    *)
(* committed first: then they are none.                                                       *)
Holds(j) ==
  /\ j.at \in {"count", "dropCity", "newStore"} => j.city \in Cities
  /\ j.at = "newStore" => j.week \in Weeks
  /\ Updating(j) => j.store \in Stores /\ store[j.store] # None
  /\ j.at = "begin" => j.deleted = {}
  /\ j.at \in {"tx", "deleteHours", "insertHours"} => j.week \in Weeks
  /\ Updating(j) /\ j.city # None => j.row
  /\ Locked(j) /\ j.city # None => city[j.city] # None
  /\ j.at \in {"deleteHours", "insertHours"} =>
       j.deleted = hours[j.store] \/ (j.raced /\ j.deleted = {})
  /\ j.at = "commit" /\ j.week # None => j.deleted = hours[j.store]

OneLock == \A p, q \in Requests :
  Locked(job[p]) /\ Locked(job[q]) /\ job[p].store = job[q].store => p = q

(* The rows that one request deleted are locked: nobody else deletes or replaces them. *)
OneHolder == \A p, q \in Requests :
  Holding(job[p]) /\ Holding(job[q]) /\ job[p].store = job[q].store => p = q

StoreInv ==
  /\ Shops!TypeOK /\ ~collided /\ OneLock /\ OneHolder
  /\ \A s \in Stores : Whole(s)
  /\ \A p \in Requests : Holds(job[p])

LEMMA StoreInit == Shops!Init => StoreInv
<1> SUFFICES ASSUME Shops!Init PROVE StoreInv
  OBVIOUS
<1>1. Shops!TypeOK /\ ~collided
  BY DEF Shops!Init, Shops!TypeOK
<1>2. \A p \in Requests : job[p].at = "idle"
  BY DEF Shops!Init, Shops!Idle
<1>3. OneLock /\ OneHolder /\ \A p \in Requests : Holds(job[p])
  BY <1>2 DEF OneLock, OneHolder, Locked, Holding, Updating, Holds, Shops!InTransaction
<1>4. \A s \in Stores : Whole(s)
  BY DEF Shops!Init, Whole
<1>5. QED
  BY <1>1, <1>3, <1>4 DEF StoreInv

LEMMA JobShape ==
  ASSUME StoreInv, NEW p \in Requests
  PROVE  /\ job[p] \in AnyJob /\ Holds(job[p])
         /\ job[p].at # "idle" => job[p] \in Shops!Job
BY DEF StoreInv, Shops!TypeOK, AnyJob, Shops!Idle

LEMMA IdleHolds ==
  /\ Shops!Idle \in AnyJob /\ Holds(Shops!Idle)
  /\ ~Updating(Shops!Idle) /\ ~Locked(Shops!Idle) /\ ~Holding(Shops!Idle)
BY DEF AnyJob, Shops!Idle, Holds, Updating, Locked, Holding, Shops!InTransaction

(* A request goes on, and no row changes; it has the locks it had, or takes free ones. *)
LEMMA PutJobKeeps ==
  ASSUME StoreInv, NEW p \in Requests, NEW j \in AnyJob, Holds(j), Shops!Put(p, j),
         UNCHANGED <<city, store, hours, collided>>,
         Locked(j) => \/ Locked(job[p]) /\ job[p].store = j.store
                      \/ Shops!LockedBy(j.store) = {},
         Holding(j) => \/ Holding(job[p]) /\ job[p].store = j.store
                       \/ Shops!HoursHeldBy(j.store) \subseteq {p}
  PROVE  StoreInv'
<1>1. job' = [job EXCEPT ![p] = j] /\ job \in [Requests -> AnyJob]
  BY DEF Shops!Put, StoreInv, Shops!TypeOK, AnyJob
<1>2. \A q \in Requests : job'[q] = IF q = p THEN j ELSE job[q]
  BY <1>1
<1>3. Shops!TypeOK'
  BY <1>1 DEF StoreInv, Shops!TypeOK, AnyJob
<1>4. OneLock'
  <2>1. ASSUME NEW q \in Requests, q # p, Locked(j), Locked(job[q]), job[q].store = j.store
        PROVE  FALSE
    <3>1. CASE Locked(job[p]) /\ job[p].store = j.store
      BY <2>1, <3>1 DEF StoreInv, OneLock
    <3>2. CASE Shops!LockedBy(j.store) = {}
      BY <2>1, <3>2 DEF Shops!LockedBy, Shops!Updates, Locked
    <3>3. QED
      BY <2>1, <3>1, <3>2
  <2>2. QED
    BY <1>2, <2>1 DEF StoreInv, OneLock, Locked
<1>5. OneHolder'
  <2>1. ASSUME NEW q \in Requests, q # p, Holding(j), Holding(job[q]), job[q].store = j.store
        PROVE  FALSE
    <3>1. CASE Holding(job[p]) /\ job[p].store = j.store
      BY <2>1, <3>1 DEF StoreInv, OneHolder
    <3>2. CASE Shops!HoursHeldBy(j.store) \subseteq {p}
      BY <2>1, <3>2 DEF Shops!HoursHeldBy, Shops!Updates, Holding
    <3>3. QED
      BY <2>1, <3>1, <3>2
  <2>2. QED
    BY <1>2, <2>1 DEF StoreInv, OneHolder, Holding
<1>6. \A q \in Requests : Holds(job'[q])
  BY <1>2 DEF StoreInv
<1>7. (\A q \in Requests : Holds(job[q]))'
  BY <1>6 DEF Holds
<1>8. (\A s \in Stores : Whole(s))'
  BY DEF StoreInv, Whole
<1>9. QED
  BY <1>3, <1>4, <1>5, <1>7, <1>8 DEF StoreInv

(* Rows change; the requests under way still find what they hold, and take no new locks. *)
LEMMA RowsKeep ==
  ASSUME StoreInv, UNCHANGED collided, job' \in [Requests -> AnyJob],
         city' \in [Cities -> CityNames \cup {None}],
         store' \in [Stores -> Cities \cup {None}], hours' \in [Stores -> SUBSET Weeks],
         \A s \in Stores : Whole(s)', \A p \in Requests : Holds(job[p])',
         \A p \in Requests : Locked(job'[p]) => Locked(job[p]) /\ job'[p].store = job[p].store,
         \A p \in Requests : Holding(job'[p]) => Holding(job[p]) /\ job'[p].store = job[p].store
  PROVE  StoreInv'
<1>1. Shops!TypeOK'
  BY DEF StoreInv, Shops!TypeOK, AnyJob
<1>2. OneLock'
  BY DEF StoreInv, OneLock, Locked
<1>3. OneHolder'
  BY DEF StoreInv, OneHolder, Holding
<1>4. QED
  BY <1>1, <1>2, <1>3 DEF StoreInv

LEMMA CityKeeps ==
  ASSUME StoreInv, NEW c \in Cities, NEW n \in CityNames,
         Shops!CreateCity(c, n) \/ Shops!RenameCity(c, n)
  PROVE  StoreInv'
<1>1. /\ city' = [city EXCEPT ![c] = n] /\ UNCHANGED <<store, hours, job, collided>>
      /\ n # None
  BY ContactConstants DEF Shops!CreateCity, Shops!RenameCity, Shops!NoneIsNoId
<1>2. /\ city' \in [Cities -> CityNames \cup {None}]
      /\ \A d \in Cities : city[d] # None => city'[d] # None
  BY <1>1 DEF StoreInv, Shops!TypeOK
<1>3. /\ store' \in [Stores -> Cities \cup {None}] /\ hours' \in [Stores -> SUBSET Weeks]
  BY <1>1 DEF StoreInv, Shops!TypeOK
<1>4. \A s \in Stores : Whole(s)'
  BY <1>1, <1>2 DEF StoreInv, Shops!TypeOK, Whole
<1>5. ASSUME NEW p \in Requests PROVE Holds(job[p])'
  <2>1. job[p] \in AnyJob /\ Holds(job[p])
    BY JobShape
  <2>2. Locked(job[p]) /\ job[p].city # None => job[p].city \in Cities
    BY <2>1 DEF AnyJob, Shops!Idle, Shops!Job, Locked, Shops!InTransaction
  <2>3. QED
    BY <1>1, <1>2, <2>1, <2>2 DEF Holds, Updating, Locked
<1>6. job' \in [Requests -> AnyJob]
  BY <1>1 DEF StoreInv, Shops!TypeOK, AnyJob
<1>7. QED
  BY <1>1, <1>2, <1>3, <1>4, <1>5, <1>6, RowsKeep

(* A request ends with a write; the others still find what they hold. *)
LEMMA FinishJobKeeps ==
  ASSUME StoreInv, NEW p \in Requests, Shops!Put(p, Shops!Idle), UNCHANGED collided,
         city' \in [Cities -> CityNames \cup {None}],
         store' \in [Stores -> Cities \cup {None}], hours' \in [Stores -> SUBSET Weeks],
         \A s \in Stores : Whole(s)',
         \A q \in Requests : q # p /\ job'[q] = job[q] => Holds(job[q])'
  PROVE  StoreInv'
<1>1. job' = [job EXCEPT ![p] = Shops!Idle] /\ job \in [Requests -> AnyJob]
  BY DEF Shops!Put, StoreInv, Shops!TypeOK, AnyJob
<1>2. \A q \in Requests : job'[q] = IF q = p THEN Shops!Idle ELSE job[q]
  BY <1>1
<1>3. job' \in [Requests -> AnyJob]
  BY <1>1, IdleHolds
<1>4. ASSUME NEW q \in Requests
      PROVE  /\ Locked(job'[q]) => Locked(job[q]) /\ job'[q].store = job[q].store
             /\ Holding(job'[q]) => Holding(job[q]) /\ job'[q].store = job[q].store
  BY <1>2, IdleHolds
<1>5. ASSUME NEW q \in Requests PROVE Holds(job[q])'
  <2>1. CASE q = p
    <3>1. job'[q] = Shops!Idle
      BY <1>2, <2>1
    <3>2. QED
      BY <3>1 DEF Holds, Shops!Idle, Updating, Locked, Shops!InTransaction
  <2>2. CASE q # p
    BY <1>2, <2>2 DEF StoreInv
  <2>3. QED
    BY <2>1, <2>2
<1>6. QED
  BY <1>3, <1>4, <1>5, RowsKeep

LEMMA BeginJobKeeps ==
  ASSUME StoreInv, NEW p \in Requests,
         \/ \E c \in Cities : Shops!BeginDeleteCity(p, c)
         \/ \E c \in Cities, w \in Weeks : Shops!BeginCreateStore(p, c, w)
         \/ \E s \in Stores, c \in Cities \cup {None}, w \in Weeks \cup {None}, row \in BOOLEAN :
              Shops!BeginUpdateStore(p, s, c, w, row)
  PROVE  StoreInv'
<1>1. UNCHANGED <<city, store, hours, collided>>
  BY DEF Shops!BeginDeleteCity, Shops!BeginCreateStore, Shops!BeginUpdateStore
<1>2. ASSUME NEW at \in {"count", "newStore", "begin"}, NEW c \in Cities \cup {None},
             NEW s \in Stores \cup {None}, NEW w \in Weeks \cup {None}, NEW row \in BOOLEAN,
             at = "begin" => s \in Stores /\ store[s] # None /\ (c # None => row), at # "begin" => c \in Cities,
             at = "newStore" => w \in Weeks, Shops!Put(p, Shops!TheJob(at, c, s, w, row))
      PROVE  StoreInv'
  <2> DEFINE j == Shops!TheJob(at, c, s, w, row)
  <2>1. /\ j \in AnyJob /\ j.at = at /\ j.city = c /\ j.store = s /\ j.week = w
        /\ j.deleted = {}
    BY DEF AnyJob, Shops!TheJob, Shops!Job
  <2>2. c # None => j.row \/ at # "begin"
    BY <1>2 DEF Shops!TheJob
  <2>3. Holds(j) /\ ~Locked(j) /\ ~Holding(j)
    BY <1>2, <2>1, <2>2 DEF Holds, Updating, Locked, Holding, Shops!InTransaction
  <2>4. Shops!Put(p, j)
    BY <1>2
  <2> HIDE DEF j
  <2>5. QED
    BY <1>1, <2>1, <2>3, <2>4, PutJobKeeps
<1>3. CASE \E c \in Cities : Shops!BeginDeleteCity(p, c)
  BY <1>2, <1>3 DEF Shops!BeginDeleteCity
<1>4. CASE \E c \in Cities, w \in Weeks : Shops!BeginCreateStore(p, c, w)
  BY <1>2, <1>4 DEF Shops!BeginCreateStore
<1>5. CASE \E s \in Stores, c \in Cities \cup {None}, w \in Weeks \cup {None}, row \in BOOLEAN :
              Shops!BeginUpdateStore(p, s, c, w, row)
  BY <1>2, <1>5 DEF Shops!BeginUpdateStore
<1>6. QED
  BY <1>3, <1>4, <1>5

LEMMA CountStoresKeeps ==
  ASSUME StoreInv, NEW p \in Requests, Shops!CountStores(p) PROVE StoreInv'
<1>1. job[p] \in Shops!Job /\ job[p].at = "count" /\ Holds(job[p])
  BY JobShape DEF Shops!CountStores
<1>2. UNCHANGED <<city, store, hours, collided>>
  BY DEF Shops!CountStores
<1>3. CASE Shops!Put(p, Shops!Idle)
  BY <1>2, <1>3, IdleHolds, PutJobKeeps
<1> DEFINE j == [job[p] EXCEPT !.at = "dropCity"]
<1>4. CASE Shops!Put(p, j)
  <2>1. j \in AnyJob /\ j.at = "dropCity" /\ j.city = job[p].city
    BY <1>1 DEF AnyJob, Shops!Job
  <2> HIDE DEF j
  <2>2. Holds(j) /\ ~Locked(j) /\ ~Holding(j)
    BY <1>1, <2>1 DEF Holds, Updating, Locked, Holding, Shops!InTransaction
  <2>3. QED
    BY <1>2, <1>4, <2>1, <2>2, PutJobKeeps
<1>5. QED
  BY <1>3, <1>4 DEF Shops!CountStores

(* A city goes only if no store has it, or is about to. *)
LEMMA DeleteCityKeeps ==
  ASSUME StoreInv, NEW p \in Requests, Shops!DeleteCity(p) PROVE StoreInv'
<1> DEFINE c == job[p].city
<1>1. c \in Cities
  BY JobShape DEF Shops!DeleteCity, Holds
<1>2. /\ city' = [city EXCEPT ![c] = None] /\ Shops!Put(p, Shops!Idle)
      /\ UNCHANGED <<store, hours, collided>> /\ Shops!CityRestricts(c) = {}
  BY DEF Shops!DeleteCity
<1> HIDE DEF c
<1>3. \A s \in Stores : store[s] # c /\ \A q \in Requests : q \in Shops!LockedBy(s) => job[q].city # c
  BY <1>2 DEF Shops!CityRestricts, Shops!StoresIn
<1>4. /\ city' \in [Cities -> CityNames \cup {None}]
      /\ \A d \in Cities : d # c => city'[d] = city[d]
  BY <1>1, <1>2 DEF StoreInv, Shops!TypeOK
<1>5. /\ store' \in [Stores -> Cities \cup {None}] /\ hours' \in [Stores -> SUBSET Weeks]
  BY <1>2 DEF StoreInv, Shops!TypeOK
<1>6. \A s \in Stores : Whole(s)'
  BY <1>2, <1>3, <1>4 DEF StoreInv, Shops!TypeOK, Whole
<1>7. ASSUME NEW q \in Requests, q # p, job'[q] = job[q] PROVE Holds(job[q])'
  <2>1. job[q] \in AnyJob /\ Holds(job[q])
    BY JobShape
  <2>2. CASE Locked(job[q])
    <3>1. job[q].store \in Stores /\ q \in Shops!LockedBy(job[q].store)
      BY <2>1, <2>2 DEF Holds, Updating, Locked, Shops!LockedBy, Shops!Updates
    <3>2. job[q].city \in Cities \cup {None} /\ job[q].city # c
      BY <1>3, <2>1, <2>2, <3>1 DEF AnyJob, Shops!Idle, Shops!Job, Locked, Shops!InTransaction
    <3>3. QED
      BY <1>2, <1>4, <1>7, <2>1, <3>2 DEF Holds, Updating, Locked
  <2>3. CASE ~Locked(job[q])
    BY <1>2, <1>7, <2>1, <2>3 DEF Holds, Updating, Locked, Shops!InTransaction
  <2>4. QED
    BY <2>2, <2>3
<1>8. QED
  BY <1>2, <1>4, <1>5, <1>6, <1>7, FinishJobKeeps

(* What the rows of another store become is nothing to a request. *)
LEMMA OthersHold ==
  ASSUME StoreInv, NEW s \in Stores, UNCHANGED city, NEW q \in Requests, job'[q] = job[q],
         Updating(job[q]) => job[q].store # s,
         \A x \in Stores : x # s => store'[x] = store[x] /\ hours'[x] = hours[x]
  PROVE  Holds(job[q])'
<1>1. Holds(job[q])
  BY JobShape
<1>2. CASE Updating(job[q])
  <2>1. job[q].store \in Stores /\ job[q].store # s
    BY <1>1, <1>2 DEF Holds
  <2>2. QED
    BY <1>1, <1>2, <2>1 DEF Holds, Updating, Locked
<1>3. CASE ~Updating(job[q])
  BY <1>1, <1>3 DEF Holds, Updating, Locked, Shops!InTransaction
<1>4. QED
  BY <1>2, <1>3

LEMMA CreateStoreKeeps ==
  ASSUME StoreInv, NEW p \in Requests, NEW s \in Stores, Shops!CreateStore(p, s) PROVE StoreInv'
<1> DEFINE c == job[p].city
           w == job[p].week
<1>1. c \in Cities /\ w \in Weeks /\ c # None /\ city[c] # None
  BY JobShape, ContactConstants DEF Shops!CreateStore, Holds, Shops!NoneIsNoId
<1>2. /\ store' = [store EXCEPT ![s] = c] /\ hours' = [hours EXCEPT ![s] = {w}]
      /\ Shops!Put(p, Shops!Idle) /\ UNCHANGED <<city, collided>> /\ store[s] = None
  BY DEF Shops!CreateStore
<1> HIDE DEF c, w
<1>3. /\ store' \in [Stores -> Cities \cup {None}] /\ hours' \in [Stores -> SUBSET Weeks]
      /\ store'[s] = c /\ hours'[s] = {w} /\ city' \in [Cities -> CityNames \cup {None}]
      /\ \A x \in Stores : x # s => store'[x] = store[x] /\ hours'[x] = hours[x]
  BY <1>1, <1>2 DEF StoreInv, Shops!TypeOK
<1>4. \A x \in Stores : Whole(x)'
  BY <1>1, <1>2, <1>3 DEF StoreInv, Whole
<1>5. ASSUME NEW q \in Requests, job'[q] = job[q] PROVE Holds(job[q])'
  <2>1. Updating(job[q]) => job[q].store # s
    BY <1>2, JobShape DEF Holds
  <2>2. UNCHANGED city
    BY <1>2
  <2>3. QED
    BY <1>3, <1>5, <2>1, <2>2, OthersHold
<1>6. UNCHANGED collided
  BY <1>2
<1>7. QED
  BY <1>2, <1>3, <1>4, <1>5, <1>6, FinishJobKeeps

(* The transaction takes the row lock if it has a column to write. *)
LEMMA TouchStoreKeeps ==
  ASSUME StoreInv, NEW p \in Requests, Shops!TouchStore(p) PROVE StoreInv'
<1>1. job[p] \in Shops!Job /\ job[p].at = "begin" /\ Holds(job[p]) /\ job[p].store \in Stores
  BY JobShape DEF Shops!TouchStore, Holds, Updating
<1> DEFINE j == [job[p] EXCEPT !.at = IF job[p].week = None THEN "commit" ELSE "tx"]
<1>2. /\ Shops!Put(p, j) /\ UNCHANGED <<city, store, hours, collided>>
      /\ job[p].row => Shops!LockedBy(job[p].store) = {}
      /\ job[p].city # None => city[job[p].city] # None
  BY DEF Shops!TouchStore
<1>3. /\ j \in AnyJob /\ j.city = job[p].city /\ j.store = job[p].store
      /\ j.week = job[p].week /\ j.week \in Weeks \cup {None} /\ j.row = job[p].row
      /\ j.at = (IF job[p].week = None THEN "commit" ELSE "tx") /\ j.deleted = job[p].deleted
  BY <1>1 DEF AnyJob, Shops!Job
<1> HIDE DEF j
<1>4. Holds(j)
  BY <1>1, <1>2, <1>3 DEF Holds, Updating, Locked, Shops!InTransaction
<1>5. Locked(j) => Shops!LockedBy(j.store) = {}
  BY <1>2, <1>3 DEF Locked
<1>6. ~Holding(j)
  BY <1>1, <1>3 DEF Holding, Holds
<1>7. QED
  BY <1>2, <1>3, <1>4, <1>5, <1>6, PutJobKeeps

LEMMA SeeHoursKeeps ==
  ASSUME StoreInv, NEW p \in Requests, Shops!SeeHours(p) PROVE StoreInv'
<1>1. /\ job[p] \in Shops!Job /\ job[p].at = "tx" /\ Holds(job[p])
      /\ job[p].store \in Stores /\ hours[job[p].store] \in SUBSET Weeks
  BY JobShape DEF Shops!SeeHours, Holds, Updating, Shops!InTransaction, StoreInv, Shops!TypeOK
<1> DEFINE j == [job[p] EXCEPT !.at = "deleteHours", !.deleted = hours[job[p].store]]
<1>2. Shops!Put(p, j) /\ UNCHANGED <<city, store, hours, collided>>
  BY DEF Shops!SeeHours
<1>3. /\ j \in Shops!Job /\ j.at = "deleteHours" /\ j.deleted = hours[job[p].store]
      /\ j.city = job[p].city /\ j.store = job[p].store /\ j.week = job[p].week
      /\ j.row = job[p].row
  BY <1>1 DEF Shops!Job
<1> HIDE DEF j
<1>4. j \in AnyJob /\ Holds(j)
  BY <1>1, <1>3 DEF AnyJob, Holds, Updating, Locked, Shops!InTransaction
<1>5. (Locked(j) => Locked(job[p])) /\ ~Holding(j)
  BY <1>1, <1>3 DEF Locked, Holding, Shops!InTransaction
<1>6. QED
  BY <1>2, <1>3, <1>4, <1>5, PutJobKeeps

LEMMA DeleteHoursKeeps ==
  ASSUME StoreInv, NEW p \in Requests, Shops!DeleteHours(p) PROVE StoreInv'
<1>1. /\ job[p] \in Shops!Job /\ job[p].at = "deleteHours" /\ Holds(job[p])
      /\ job[p].deleted \in SUBSET Weeks
  BY JobShape DEF Shops!DeleteHours, Shops!Job
<1> DEFINE j == [job[p] EXCEPT !.at = "insertHours"]
<1>2. /\ Shops!Put(p, j) /\ UNCHANGED <<city, store, hours, collided>>
      /\ Shops!HoursHeldBy(job[p].store) = {}
  BY DEF Shops!DeleteHours
<1>3. /\ j \in Shops!Job /\ j.at = "insertHours" /\ j.deleted = job[p].deleted
      /\ j.city = job[p].city /\ j.store = job[p].store /\ j.week = job[p].week
      /\ j.row = job[p].row /\ j.raced = job[p].raced
  BY <1>1 DEF Shops!Job
<1> HIDE DEF j
<1>4. j \in AnyJob /\ Holds(j)
  BY <1>1, <1>3 DEF AnyJob, Holds, Updating, Locked, Shops!InTransaction
<1>5. Locked(j) => Locked(job[p])
  BY <1>1, <1>3 DEF Locked, Shops!InTransaction
<1>6. QED
  BY <1>2, <1>3, <1>4, <1>5, PutJobKeeps

(* The rows to insert meet none, or those of a replacement without a common row lock. *)
LEMMA InsertHoursKeeps ==
  ASSUME StoreInv, NEW p \in Requests, Shops!InsertHours(p) PROVE StoreInv'
<1>1. job[p] \in Shops!Job /\ job[p].at = "insertHours" /\ Holds(job[p])
  BY JobShape DEF Shops!InsertHours
<1>2. /\ job[p].store \in Stores
      /\ job[p].deleted = hours[job[p].store] \/ (job[p].raced /\ job[p].deleted = {})
  BY <1>1 DEF Holds, Updating, Shops!InTransaction
<1>3. UNCHANGED <<city, store, hours>> /\ Shops!HoursHeldBy(job[p].store) \subseteq {p}
  BY DEF Shops!InsertHours
<1>4. CASE ~(hours[job[p].store] \subseteq job[p].deleted)
  <2>1. Shops!Put(p, Shops!Idle) /\ UNCHANGED collided
    BY <1>2, <1>4 DEF Shops!InsertHours, StoreInv
  <2>2. QED
    BY <1>3, <2>1, IdleHolds, PutJobKeeps
<1>5. CASE hours[job[p].store] \subseteq job[p].deleted
  <2> DEFINE j == [job[p] EXCEPT !.at = "commit"]
  <2>1. Shops!Put(p, j) /\ UNCHANGED collided
    BY <1>5 DEF Shops!InsertHours
  <2>2. /\ j \in Shops!Job /\ j.at = "commit" /\ j.city = job[p].city /\ j.row = job[p].row
        /\ j.store = job[p].store /\ j.week = job[p].week /\ j.deleted = job[p].deleted
    BY <1>1 DEF Shops!Job
  <2> HIDE DEF j
  <2>3. j.deleted = hours[j.store]
    BY <1>2, <1>5, <2>2
  <2>4. j \in AnyJob /\ Holds(j)
    BY <1>1, <2>2, <2>3 DEF AnyJob, Holds, Updating, Locked, Shops!InTransaction
  <2>5. Locked(j) => Locked(job[p])
    BY <1>1, <2>2 DEF Locked, Shops!InTransaction
  <2>6. QED
    BY <1>3, <2>1, <2>2, <2>4, <2>5, PutJobKeeps
<1>6. QED
  BY <1>4, <1>5

(* What a commit makes of the other requests. *)
LEMMA OutrunShape ==
  ASSUME NEW i \in Shops!Job, NEW j \in Shops!Job
  PROVE  LET o == Shops!Outrun(i, j) IN
         /\ o \in Shops!Job /\ o.at = i.at /\ o.city = i.city /\ o.store = i.store
         /\ o.week = i.week /\ o.row = i.row /\ o.deleted = {}
         /\ ~i.row \/ ~j.row => o.raced
BY DEF Shops!Outrun, Shops!Job

(* One week's rows are replaced by one week's rows. *)
LEMMA CommitKeeps == ASSUME StoreInv, NEW p \in Requests, Shops!Commit(p) PROVE StoreInv'
<1> DEFINE j == job[p]
           s == j.store
<1>1. /\ j \in Shops!Job /\ j.at = "commit" /\ Holds(j) /\ s \in Stores /\ store[s] # None
      /\ j.city # None => city[j.city] # None
      /\ j.week # None => j.deleted = hours[s]
  BY JobShape DEF Shops!Commit, Holds, Updating, Locked, Shops!InTransaction
<1>2. j.city \in Cities \cup {None} /\ j.week \in Weeks \cup {None}
  BY <1>1 DEF Shops!Job
<1>3. /\ store' = IF j.city = None THEN store ELSE [store EXCEPT ![s] = j.city]
      /\ hours' = IF j.week = None THEN hours
                  ELSE [hours EXCEPT ![s] = (hours[s] \ j.deleted) \cup {j.week}]
      /\ UNCHANGED <<city, collided>>
  BY DEF Shops!Commit
<1>4. j.week # None => (hours[s] \ j.deleted) \cup {j.week} = {j.week}
  BY <1>1
<1>5. /\ city \in [Cities -> CityNames \cup {None}] /\ store \in [Stores -> Cities \cup {None}]
      /\ hours \in [Stores -> SUBSET Weeks] /\ \A x \in Stores : Whole(x)
  BY DEF StoreInv, Shops!TypeOK
<1>6. ASSUME NEW q \in Requests
      PROVE  \/ q = p /\ job'[q] = Shops!Idle
             \/ /\ q # p /\ job'[q] = job[q]
                /\ ~(j.week # None /\ job[q].at = "deleteHours" /\ job[q].store = s)
             \/ /\ q # p /\ job[q].at = "deleteHours" /\ job[q].store = s
                /\ j.week # None /\ job'[q] = Shops!Outrun(job[q], j)
  BY DEF Shops!Commit, Shops!Updates
<1>7. ASSUME NEW q \in Requests, job[q].at = "deleteHours"
      PROVE  LET o == Shops!Outrun(job[q], j) IN
             /\ o \in AnyJob /\ o.at = "deleteHours" /\ o.city = job[q].city /\ o.row = job[q].row
             /\ o.store = job[q].store /\ o.week = job[q].week /\ o.deleted = {}
             /\ ~job[q].row \/ ~j.row => o.raced
  BY <1>1, <1>7, JobShape, OutrunShape DEF AnyJob
<1>8. job' \in [Requests -> AnyJob]
  <2>1. DOMAIN job' = Requests /\ job' = [q \in Requests |-> job'[q]]
    BY DEF Shops!Commit
  <2>2. QED
    BY <1>6, <1>7, <2>1, JobShape, IdleHolds
<1>9. ASSUME NEW q \in Requests, q # p, Updating(job[q]), job[q].store = s, j.week # None
      PROVE  /\ job[q].at = "deleteHours" => ~job[q].row \/ ~j.row
             /\ job[q].at = "insertHours" => job[q].raced /\ job[q].deleted = {}
             /\ job[q].at = "commit" => job[q].week = None
  <2>1. Holding(j) /\ hours[s] # {}
    BY <1>1, <1>5, <1>9 DEF Holding, Whole
  <2>2. Holds(job[q]) /\ ~Holding(job[q])
    BY <1>9, <2>1, JobShape DEF StoreInv, OneHolder
  <2>3. job[q].at = "deleteHours" => ~job[q].row \/ ~j.row
    BY <1>1, <1>9 DEF StoreInv, OneLock, Locked, Shops!InTransaction
  <2>4. QED
    BY <1>9, <2>1, <2>2, <2>3 DEF Holds, Holding
<1> HIDE DEF s, j
<1>10. /\ store' \in [Stores -> Cities \cup {None}] /\ city' \in [Cities -> CityNames \cup {None}]
       /\ store'[s] = (IF j.city = None THEN store[s] ELSE j.city)
       /\ \A x \in Stores : x # s => store'[x] = store[x]
       /\ store'[s] # None
  BY <1>1, <1>2, <1>3, <1>5
<1>11. /\ hours' \in [Stores -> SUBSET Weeks]
       /\ hours'[s] = (IF j.week = None THEN hours[s] ELSE {j.week})
       /\ \A x \in Stores : x # s => hours'[x] = hours[x]
  BY <1>1, <1>2, <1>3, <1>4, <1>5
<1>12. ASSUME NEW x \in Stores PROVE Whole(x)'
  <2>1. CASE x = s
    <3>1. city[store[s]] # None /\ \E w \in Weeks : hours[s] = {w}
      BY <1>1, <1>5 DEF Whole
    <3>2. city[store'[s]] # None
      BY <1>1, <1>10, <3>1
    <3>3. \E w \in Weeks : hours'[s] = {w}
      BY <1>2, <1>11, <3>1
    <3>4. QED
      BY <1>3, <2>1, <3>2, <3>3 DEF Whole
  <2>2. CASE x # s
    BY <1>3, <1>5, <1>10, <1>11, <2>2 DEF Whole
  <2>3. QED
    BY <2>1, <2>2
<1>13. UNCHANGED city /\ UNCHANGED collided
  BY <1>3
<1>14. ASSUME NEW q \in Requests PROVE Holds(job[q])'
  <2>1. CASE job'[q] = Shops!Idle
    BY <2>1 DEF Holds, Shops!Idle, Updating, Locked, Shops!InTransaction
  <2>2. CASE /\ q # p /\ job'[q] = job[q]
             /\ ~(j.week # None /\ job[q].at = "deleteHours" /\ job[q].store = s)
    <3>1. CASE Updating(job[q]) /\ job[q].store = s /\ j.week = None
      <4>1. hours'[s] = hours[s] /\ Holds(job[q])
        BY <1>11, <3>1, JobShape
      <4>2. QED
        BY <1>10, <1>13, <2>2, <3>1, <4>1 DEF Holds, Updating, Locked, Shops!InTransaction
    <3>2. CASE Updating(job[q]) /\ job[q].store = s /\ j.week # None
      <4>1. /\ job[q].at = "insertHours" => job[q].raced /\ job[q].deleted = {}
            /\ job[q].at = "commit" => job[q].week = None
            /\ job[q].at # "deleteHours"
        BY <1>9, <2>2, <3>2
      <4>2. Holds(job[q])
        BY JobShape
      <4>3. QED
        BY <1>10, <1>13, <2>2, <3>2, <4>1, <4>2 DEF Holds, Updating, Locked, Shops!InTransaction
    <3>3. CASE Updating(job[q]) => job[q].store # s
      BY <1>1, <1>10, <1>11, <1>13, <2>2, <3>3, OthersHold
    <3>4. QED
      BY <3>1, <3>2, <3>3
  <2>3. CASE /\ q # p /\ job[q].at = "deleteHours" /\ job[q].store = s
             /\ j.week # None /\ job'[q] = Shops!Outrun(job[q], j)
    <3>1. Updating(job[q]) /\ Holds(job[q])
      BY <2>3, JobShape DEF Updating, Shops!InTransaction
    <3>2. /\ job'[q].at = "deleteHours" /\ job'[q].city = job[q].city
          /\ job'[q].row = job[q].row /\ job'[q].store = s /\ job'[q].week = job[q].week
          /\ job'[q].deleted = {} /\ job'[q].raced
      BY <1>7, <1>9, <2>3, <3>1
    <3>3. QED
      BY <1>1, <1>10, <1>13, <2>3, <3>1, <3>2 DEF Holds, Updating, Locked, Shops!InTransaction
  <2>4. QED
    BY <1>6, <2>1, <2>2, <2>3
<1>15. ASSUME NEW q \in Requests
       PROVE  /\ Locked(job'[q]) => Locked(job[q]) /\ job'[q].store = job[q].store
              /\ Holding(job'[q]) => Holding(job[q]) /\ job'[q].store = job[q].store
  <2>1. CASE job'[q] = Shops!Idle
    BY <2>1, IdleHolds
  <2>2. CASE job'[q] = job[q]
    BY <2>2
  <2>3. CASE job[q].at = "deleteHours" /\ job'[q] = Shops!Outrun(job[q], j)
    BY <1>7, <2>3 DEF Locked, Holding, Shops!InTransaction
  <2>4. QED
    BY <1>6, <2>1, <2>2, <2>3
<1>16. QED
  BY <1>8, <1>10, <1>11, <1>12, <1>13, <1>14, <1>15, RowsKeep

LEMMA DeleteStoreKeeps ==
  ASSUME StoreInv, NEW s \in Stores, Shops!DeleteStore(s) PROVE StoreInv'
<1>1. /\ store' = [store EXCEPT ![s] = None] /\ hours' = [hours EXCEPT ![s] = {}]
      /\ UNCHANGED <<city, collided>>
  BY DEF Shops!DeleteStore
<1>2. /\ store' \in [Stores -> Cities \cup {None}] /\ hours' \in [Stores -> SUBSET Weeks]
      /\ city' \in [Cities -> CityNames \cup {None}] /\ store'[s] = None
      /\ \A x \in Stores : x # s => store'[x] = store[x] /\ hours'[x] = hours[x]
  BY <1>1 DEF StoreInv, Shops!TypeOK
<1>3. \A x \in Stores : Whole(x)'
  BY <1>1, <1>2 DEF StoreInv, Whole
<1>4. UNCHANGED city
  BY <1>1
<1>5. ASSUME NEW q \in Requests
      PROVE  \/ job'[q] = Shops!Idle
             \/ job'[q] = job[q] /\ (Updating(job[q]) => job[q].store # s)
  BY DEF Shops!DeleteStore, Shops!Updates, Updating
<1>6. job' \in [Requests -> AnyJob]
  <2>1. job' = [q \in Requests |-> job'[q]]
    BY DEF Shops!DeleteStore
  <2>2. QED
    BY <1>5, <2>1, JobShape, IdleHolds
<1>7. ASSUME NEW q \in Requests PROVE Holds(job[q])'
  <2>1. CASE job'[q] = Shops!Idle
    BY <2>1 DEF Holds, Shops!Idle, Updating, Locked, Shops!InTransaction
  <2>2. CASE job'[q] = job[q] /\ (Updating(job[q]) => job[q].store # s)
    BY <1>2, <1>4, <2>2, OthersHold
  <2>3. QED
    BY <1>5, <2>1, <2>2
<1>8. ASSUME NEW q \in Requests
      PROVE  /\ Locked(job'[q]) => Locked(job[q]) /\ job'[q].store = job[q].store
             /\ Holding(job'[q]) => Holding(job[q]) /\ job'[q].store = job[q].store
  BY <1>5, IdleHolds
<1>9. QED
  BY <1>1, <1>2, <1>3, <1>6, <1>7, <1>8, RowsKeep

LEMMA StoreNext == StoreInv /\ [Shops!Next]_(Shops!vars) => StoreInv'
<1> SUFFICES ASSUME StoreInv, [Shops!Next]_(Shops!vars) PROVE StoreInv'
  OBVIOUS
<1>1. CASE UNCHANGED Shops!vars
  BY <1>1 DEF Shops!vars, StoreInv, Shops!TypeOK, OneLock, OneHolder, Locked, Holding, Updating,
              Whole, Holds
<1>2. ASSUME NEW c \in Cities, NEW n \in CityNames,
             Shops!CreateCity(c, n) \/ Shops!RenameCity(c, n)
      PROVE  StoreInv'
  BY <1>2, CityKeeps
<1>3. ASSUME NEW p \in Requests,
             \/ \E c \in Cities : Shops!BeginDeleteCity(p, c)
             \/ \E c \in Cities, w \in Weeks : Shops!BeginCreateStore(p, c, w)
             \/ \E s \in Stores, c \in Cities \cup {None}, w \in Weeks \cup {None}, row \in BOOLEAN :
                  Shops!BeginUpdateStore(p, s, c, w, row)
      PROVE  StoreInv'
  BY <1>3, BeginJobKeeps
<1>4. ASSUME NEW p \in Requests, NEW s \in Stores, Shops!CreateStore(p, s) PROVE StoreInv'
  BY <1>4, CreateStoreKeeps
<1>5. ASSUME NEW p \in Requests, Shops!CountStores(p) \/ Shops!DeleteCity(p) \/ Shops!TouchStore(p)
      PROVE  StoreInv'
  BY <1>5, CountStoresKeeps, DeleteCityKeeps, TouchStoreKeeps
<1>6. ASSUME NEW p \in Requests, Shops!Fail(p) PROVE StoreInv'
  BY <1>6, IdleHolds, PutJobKeeps DEF Shops!Fail
<1>7. ASSUME NEW p \in Requests,
             \/ Shops!SeeHours(p) \/ Shops!DeleteHours(p)
             \/ Shops!InsertHours(p) \/ Shops!Commit(p)
      PROVE  StoreInv'
  BY <1>7, SeeHoursKeeps, DeleteHoursKeeps, InsertHoursKeeps, CommitKeeps
<1>8. ASSUME NEW s \in Stores, Shops!DeleteStore(s) PROVE StoreInv'
  BY <1>8, DeleteStoreKeeps
<1>9. QED
  BY <1>1, <1>2, <1>3, <1>4, <1>5, <1>6, <1>7, <1>8 DEF Shops!Next

(* Stores keep their city and exactly one week of hours, patches of the hours alone included: *)
(* the locks on the deleted rows and the unique weekdays are enough for that.  Replacements   *)
(* that both take the store's row lock in their first statement never trip over each other.   *)
THEOREM StoresStayWhole == ShopSpec => []StoresWhole
<1>1. StoreInv => StoresWhole
  BY DEF StoreInv, Whole, StoresWhole, Shops!StoresWhole
<1>2. QED
  BY <1>1, PartsRunAlone, StoreInit, StoreNext, PTL DEF Shops!Spec

-----------------------------------------------------------------------------
(* Every reachable state of the four parts is well typed. *)
THEOREM TypeCorrect == ShopSpec => []ShopTypeOK
<1>1. TreeInv /\ PriceInv /\ TagInv /\ StoreInv => ShopTypeOK
  BY DEF TreeInv, PriceInv, TagInv, StoreInv, ShopTypeOK
<1>2. QED
  BY <1>1, PartsRunAlone, TreeInit, TreeNext, PriceInit, PriceNext, TagInit, TagNext,
     StoreInit, StoreNext, PTL DEF Spec, Pricing!Spec, Tags!Spec, Shops!Spec
=============================================================================
