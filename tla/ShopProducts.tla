---------------------------- MODULE ShopProducts ----------------------------
(***************************************************************************)
(* The commercial fields of e-shop products (ShopProductsService): the     *)
(* pricing rules that relate price, sale price and sale dates, and the     *)
(* unique SKU.  A request reads, awaits, checks and writes; an update      *)
(* checks what it read merged with its patch, and writes the patch alone.  *)
(***************************************************************************)
EXTENDS Naturals

CONSTANTS
  Products,  \* ids of shop_products: a bound
  Requests,  \* requests the API serves at the same time
  Numbers,   \* cents, and days as numbers: a bound
  Skus,      \* SKUs
  Bodies,    \* the products that POST requests ask for
  Patches,   \* the bodies of PATCH requests: some fields, and their values
  None       \* null in a field, no row in the table

\* Whoever instantiates the module assumes this of the constants.
NumbersAreNatural == Numbers \subseteq Nat
NoneIsNoValue == None \notin Numbers /\ None \notin Skus

VARIABLES
  shopProduct,  \* shop_products
  work,         \* the local state of each request between two awaits
  lostUpdate    \* history, read by no guard: products that got a patch checked against a row
                \* that another request had replaced

vars == <<shopProduct, work, lostUpdate>>

Value  == Numbers \cup {None}
Row    == [price : Numbers, sale : Value, starts : Value, ends : Value, sku : Skus \cup {None}]
NoRow  == [price |-> None]
Fields == {"price", "sale", "starts", "ends", "sku"}
Values == [price |-> Numbers, sale |-> Value, starts |-> Value, ends |-> Value, sku |-> Skus \cup {None}]

\* What the DTOs validate: a body has every field, a patch some.
BodiesAreRows ==
  /\ Bodies \subseteq Row
  /\ \A patch \in Patches : DOMAIN patch \subseteq Fields /\ \A f \in DOMAIN patch : patch[f] \in Values[f]

Idle    == [at |-> "idle"]
Insert  == [at : {"insert"}, row : Bodies]
Update  == [at : {"sku", "write"}, id : Products, patch : Patches, read : Row, stale : BOOLEAN]

\* Every variable has its type.
TypeOK ==
  /\ shopProduct \in [Products -> Row \cup {NoRow}]
  /\ work \in [Requests -> {Idle} \cup Insert \cup Update]
  /\ lostUpdate \in SUBSET Products

Init ==
  /\ shopProduct = [x \in Products |-> NoRow]
  /\ work = [p \in Requests |-> Idle]
  /\ lostUpdate = {}

\* assertPricing accepts.
Priced(row) ==
  /\ row.sale # None => row.sale < row.price
  /\ row.starts # None /\ row.ends # None => row.starts <= row.ends

\* assertSkuAvailable, and the unique constraint: no other product has the SKU.
SkuAvailable(sku, others) ==
  sku # None => \A x \in others : shopProduct[x] # NoRow => shopProduct[x].sku # sku

\* The patch laid over a row: the fields it names, the others as they are.
Merge(row, patch) == [f \in Fields |-> IF f \in DOMAIN patch THEN patch[f] ELSE row[f]]

Put(p, w) == work' = [work EXCEPT ![p] = w]

\* create: the SKU is looked up and the pricing checked.
BeginCreate(p, row) ==
  /\ work[p] = Idle
  /\ SkuAvailable(row.sku, Products) /\ Priced(row)
  /\ Put(p, [at |-> "insert", row |-> row])
  /\ UNCHANGED <<shopProduct, lostUpdate>>

\* create: the insert.
Create(p, x) ==
  /\ work[p].at = "insert" /\ shopProduct[x] = NoRow
  /\ SkuAvailable(work[p].row.sku, Products)
  /\ shopProduct' = [shopProduct EXCEPT ![x] = work[p].row]
  /\ Put(p, Idle)
  /\ UNCHANGED lostUpdate

\* update: findUnique.
BeginUpdate(p, x, patch) ==
  /\ work[p] = Idle /\ shopProduct[x] # NoRow
  /\ Put(p, [at |-> "sku", id |-> x, patch |-> patch, read |-> shopProduct[x], stale |-> FALSE])
  /\ UNCHANGED <<shopProduct, lostUpdate>>

Accepts_PatchOnly(read, patch) ==
  Priced(Merge([price |-> 1, sale |-> None, starts |-> None, ends |-> None, sku |-> None], patch))

\* "Validate pricing against the effective (merged) values, not only the patch."
Accepts(read, patch) == Priced(Merge(read, patch))

\* update: the SKU is looked up if the patch names one, and the pricing checked.
CheckUpdate(p) ==
  LET w == work[p] IN
  /\ w.at = "sku"
  /\ Put(p, IF /\ "sku" \in DOMAIN w.patch => SkuAvailable(w.patch.sku, Products \ {w.id})
               /\ Accepts(w.read, w.patch)
            THEN [w EXCEPT !.at = "write"] ELSE Idle)
  /\ UNCHANGED <<shopProduct, lostUpdate>>

\* A write to product x makes what the other updates of x have read stale.
Overtake(p, x) ==
  work' = [q \in Requests |->
             IF q = p THEN Idle
             ELSE IF work[q].at \in {"sku", "write"} /\ work[q].id = x
                  THEN [work[q] EXCEPT !.stale = TRUE] ELSE work[q]]

\* update: the statement by id.
WriteUpdate(p) ==
  LET w == work[p] IN
  /\ w.at = "write" /\ shopProduct[w.id] # NoRow
  /\ LET row == Merge(shopProduct[w.id], w.patch) IN
       /\ SkuAvailable(row.sku, Products \ {w.id})
       /\ shopProduct' = [shopProduct EXCEPT ![w.id] = row]
  /\ Overtake(p, w.id)
  /\ lostUpdate' = IF w.stale THEN lostUpdate \cup {w.id} ELSE lostUpdate

\* delete: the row goes; an id is used again here, so requests for it end first (they would
\* find no row and fail).
Delete(x) ==
  /\ shopProduct[x] # NoRow
  /\ ~\E p \in Requests : work[p].at \in {"sku", "write"} /\ work[p].id = x
  /\ shopProduct' = [shopProduct EXCEPT ![x] = NoRow]
  /\ lostUpdate' = lostUpdate \ {x}
  /\ UNCHANGED work

\* A request fails (a unique constraint, no row, no database) or dies.
Fail(p) ==
  /\ work[p] # Idle
  /\ Put(p, Idle)
  /\ UNCHANGED <<shopProduct, lostUpdate>>

Next ==
  \/ \E p \in Requests, row \in Bodies : BeginCreate(p, row)
  \/ \E p \in Requests, x \in Products : Create(p, x)
  \/ \E p \in Requests, x \in Products, patch \in Patches : BeginUpdate(p, x, patch)
  \/ \E p \in Requests : CheckUpdate(p) \/ WriteUpdate(p) \/ Fail(p)
  \/ \E x \in Products : Delete(x)

Spec == Init /\ [][Next]_vars

\* "Sale price must be lower than the base price, sale end cannot precede start": a product
\* breaks the rules only after a patch was written over a row that had changed since the
\* patch was checked against it.
SaleNeedsRace == \A x \in Products \ lostUpdate : shopProduct[x] = NoRow \/ Priced(shopProduct[x])
=============================================================================
