-------------------------- MODULE AdminScreensProofs -------------------------
(***************************************************************************)
(* Theorems about the administrator's screens, for any number of rows,     *)
(* pages, forms, requests and changes: an inductive invariant of each      *)
(* screen, and the properties of the run that follow.                      *)
(***************************************************************************)
EXTENDS AdminScreens, TLAPS

-----------------------------------------------------------------------------
(* The products.                                                             *)

ProductRows == [ProductIds -> Nat]
ProductForm == [product : {0} \cup ProductIds, opening : Nat, picture : BOOLEAN,
                stray : BOOLEAN, clean : BOOLEAN]
ProductRequest == [op : {"picture", "tag", "save", "delete"}, form : ProductForm,
                   scope : Products!Scopes, here : BOOLEAN, at : {"sent", "done"}]
ProductLoad == [token : Nat, scope : Products!Scopes, seen : SUBSET ProductRows]

ProductTypes ==
  /\ table \in [Products!Scopes -> ProductRows] /\ scope \in Products!Scopes
  /\ items \in ProductRows /\ status \in {"loading", "ready", "error"}
  /\ token \in Nat /\ loads \subseteq ProductLoad
  /\ form \in ProductForm /\ openings \in Nat /\ target \in {0} \cup ProductIds
  /\ sent \subseteq ProductRequest /\ behind \in BOOLEAN

(* What is stray in a form came from a request that was under way when it was opened. *)
FilledInv ==
  /\ form.stray => ~form.clean
  /\ \A s \in sent :
       /\ s.form.stray => ~s.form.clean
       /\ s.op \in Products!Kinds =>
            /\ s.here /\ s.at = "sent"
            /\ form # Products!Blank /\ form.clean => s.form.opening = form.opening

(* While a delete of the panel shown is in flight a dialog is open, and it is the only one;    *)
(* only this panel is answered.                                                               *)
ProductDialogInv ==
  \A s \in sent :
    /\ s.op = "delete" /\ s.here =>
         /\ target # 0
         /\ \A t \in sent : t.op = "delete" /\ t.here => t = s
    /\ s.at = "done" => s.here

(* Rows are the server's, or an answer under way will have the list fetched. *)
ProductsCurrent(rows) ==
  ~behind => rows = Products!FirstPage(table[scope]) \/ \E s \in sent : s.at = "done"

(* The first page of a scope's rows is made of rows. *)
LEMMA FirstPageRows ==
  ASSUME NEW rows \in ProductRows
  PROVE  Products!FirstPage(rows) \in ProductRows
BY DEF Products!FirstPage, ProductRows, Products!Gone

(* One request for the list counts: the last one, which the screen waits for. *)
ProductListInv ==
  /\ \A l \in loads :
       /\ l.token <= token
       /\ ~Products!Cancelled(l) =>
            /\ status = "loading" /\ l.scope = scope
            /\ \A k \in loads : k.token = token => k = l
            /\ \A rows \in l.seen : ProductsCurrent(rows)
  /\ status = "ready" => ProductsCurrent(items)

ProductInv == ProductTypes /\ FilledInv /\ ProductDialogInv /\ ProductListInv

LEMMA ProductInit == Products!Init => ProductInv
<1> SUFFICES ASSUME Products!Init PROVE ProductInv
  OBVIOUS
<1>1. Products!Unread \in ProductRows /\ Products!Blank \in ProductForm /\ 1 \in Nat
  BY DEF Products!Unread, Products!Gone, ProductRows, Products!Blank, ProductForm
<1>2. [token |-> 1, scope |-> "CATALOG", seen |-> {}] \in ProductLoad
  BY DEF ProductLoad, Products!Scopes
<1>3. [Products!Scopes -> [ProductIds -> {Products!Gone, 1}]]
        \subseteq [Products!Scopes -> ProductRows]
  BY DEF ProductRows, Products!Gone
<1>4. ProductTypes
  BY <1>1, <1>2, <1>3 DEF Products!Init, ProductTypes, Products!Scopes
<1>5. FilledInv /\ ProductDialogInv /\ ProductListInv
  BY DEF Products!Init, Products!Blank, FilledInv, ProductDialogInv, ProductListInv,
         Products!Cancelled
<1>6. QED
  BY <1>4, <1>5 DEF ProductInv

(* A request for the list that counts: it has seen nothing yet. *)
LEMMA ProductFetch ==
  ASSUME ProductInv, NEW sc \in Products!Scopes, Products!Fetch(sc), scope' = sc
  PROVE  /\ token' \in Nat /\ loads' \subseteq ProductLoad /\ status' = "loading"
         /\ ProductListInv'
<1> DEFINE new == [token |-> token + 1, scope |-> sc, seen |-> {}]
<1>1. /\ token \in Nat /\ loads \subseteq ProductLoad
      /\ token' = token + 1 /\ loads' = loads \cup {new} /\ status' = "loading"
  BY DEF ProductInv, ProductTypes, Products!Fetch
<1>2. new \in ProductLoad
  BY <1>1 DEF ProductLoad
<1>3. \A l \in loads : l.token \in Nat /\ l.token <= token
  BY DEF ProductInv, ProductTypes, ProductLoad, ProductListInv
<1>4. \A l \in loads' : l.token <= token' /\ (l.token = token' => l = new)
  BY <1>1, <1>3
<1>5. ProductListInv'
  BY <1>1, <1>4 DEF ProductListInv, Products!Cancelled
<1>6. QED
  BY <1>1, <1>2, <1>5

LEMMA ProductReadList ==
  ASSUME ProductInv, NEW l \in loads, Products!ReadList(l)
  PROVE  ProductInv'
<1> DEFINE first == Products!FirstPage(table[l.scope])
           read == [l EXCEPT !.seen = {first}]
<1>1. /\ l \in ProductLoad /\ first \in ProductRows
      /\ read \in ProductLoad /\ read.token = l.token /\ read.scope = l.scope
      /\ read.seen = {first}
  <2>1. l \in ProductLoad /\ table[l.scope] \in ProductRows
    BY DEF ProductInv, ProductTypes, ProductLoad
  <2>2. first \in ProductRows
    BY <2>1, FirstPageRows
  <2> HIDE DEF first
  <2>3. QED
    BY <2>1, <2>2 DEF ProductLoad
<1>2. /\ loads' = (loads \ {l}) \cup {read}
      /\ behind' = (behind /\ Products!Cancelled(l))
      /\ UNCHANGED <<table, scope, items, status, token, form, openings, target, sent>>
  BY DEF Products!ReadList
<1> HIDE DEF read
<1>3. ProductTypes'
  BY <1>1, <1>2 DEF ProductInv, ProductTypes
<1>4. FilledInv' /\ ProductDialogInv'
  BY <1>2 DEF ProductInv, FilledInv, ProductDialogInv
<1>5. ASSUME Products!Cancelled(l) PROVE ProductListInv'
  BY <1>1, <1>2, <1>5 DEF ProductInv, ProductListInv, Products!Cancelled, ProductsCurrent
<1>6. ASSUME ~Products!Cancelled(l) PROVE ProductListInv'
  <2>1. l.token = token /\ status = "loading" /\ l.scope = scope
        /\ \A k \in loads : k.token = token => k = l
    BY <1>6 DEF ProductInv, ProductListInv, Products!Cancelled
  <2>2. \A k \in loads' : k.token <= token /\ (k.token = token => k = read)
    BY <1>1, <1>2, <2>1 DEF ProductInv, ProductListInv
  <2>3. \A rows \in read.seen : ProductsCurrent(rows)'
    BY <1>1, <1>2, <2>1 DEF ProductsCurrent
  <2>4. QED
    BY <1>1, <1>2, <2>1, <2>2, <2>3 DEF ProductListInv, Products!Cancelled
<1>7. QED
  BY <1>3, <1>4, <1>5, <1>6 DEF ProductInv

LEMMA ProductAnswer ==
  ASSUME ProductInv, NEW l \in loads, Products!OnList(l) \/ Products!OnListError(l)
  PROVE  ProductInv'
<1>1. ProductTypes'
  BY DEF ProductInv, ProductTypes, ProductLoad, Products!OnList, Products!OnListError
<1>2. FilledInv' /\ ProductDialogInv'
  BY DEF ProductInv, FilledInv, ProductDialogInv, Products!OnList, Products!OnListError
<1>3. ProductListInv'
  BY DEF ProductInv, ProductListInv, ProductsCurrent, Products!Cancelled,
         Products!OnList, Products!OnListError
<1>4. QED
  BY <1>1, <1>2, <1>3 DEF ProductInv

(* What the panel sends. *)
LEMMA ProductSend ==
  ASSUME ProductInv, NEW r \in ProductRequest, sent' = sent \cup {r}, r.at = "sent", r.here,
         UNCHANGED <<table, scope, items, status, token, loads, form, openings, target, behind>>,
         r.form.stray => ~r.form.clean,
         r.op \in Products!Kinds => r.form.opening = form.opening,
         r.op = "delete" => /\ target # 0
                            /\ ~\E s \in sent : s.op = "delete" /\ s.here
  PROVE  ProductInv'
<1>1. ProductTypes'
  BY DEF ProductInv, ProductTypes
<1>2. FilledInv'
  BY DEF ProductInv, FilledInv
<1>3. ProductDialogInv'
  BY DEF ProductInv, ProductDialogInv
<1>4. \A rows : ProductsCurrent(rows)' <=> ProductsCurrent(rows)
  BY DEF ProductsCurrent
<1>5. ProductListInv'
  BY <1>4 DEF ProductInv, ProductListInv, Products!Cancelled
<1>6. QED
  BY <1>1, <1>2, <1>3, <1>5 DEF ProductInv

LEMMA ProductSends ==
  ASSUME ProductInv,
         Products!PickPicture \/ Products!AddTag \/ Products!Submit \/ Products!Confirm
  PROVE  ProductInv'
<1> DEFINE of(op, contents) ==
             [op |-> op, form |-> contents, scope |-> scope, here |-> TRUE, at |-> "sent"]
           fill == [Products!Blank EXCEPT !.opening = form.opening]
           drop == [Products!Blank EXCEPT !.product = target]
<1>1. /\ fill \in ProductForm /\ ~fill.stray /\ fill.opening = form.opening
      /\ drop \in ProductForm /\ ~drop.stray /\ drop.product = target
      /\ form \in ProductForm /\ scope \in Products!Scopes
      /\ form.stray => ~form.clean
  BY DEF ProductInv, ProductTypes, ProductForm, Products!Blank, FilledInv
<1> HIDE DEF fill, drop
<1>2. ASSUME NEW op \in {"picture", "tag", "save", "delete"}, NEW contents \in ProductForm
      PROVE  of(op, contents) \in ProductRequest
  BY <1>1 DEF ProductRequest
<1>3. CASE Products!PickPicture
  <2>1. /\ sent' = sent \cup {of("picture", fill)}
        /\ UNCHANGED <<table, scope, items, status, token, loads, form, openings, target, behind>>
    BY <1>3 DEF Products!PickPicture, Products!Request, fill
  <2>2. QED
    BY <1>1, <1>2, <2>1, ProductSend
<1>4. CASE Products!AddTag
  <2>1. /\ sent' = sent \cup {of("tag", fill)}
        /\ UNCHANGED <<table, scope, items, status, token, loads, form, openings, target, behind>>
    BY <1>4 DEF Products!AddTag, Products!Request, fill
  <2>2. QED
    BY <1>1, <1>2, <2>1, ProductSend
<1>5. CASE Products!Submit
  <2>1. /\ sent' = sent \cup {of("save", form)}
        /\ UNCHANGED <<table, scope, items, status, token, loads, form, openings, target, behind>>
    BY <1>5 DEF Products!Submit, Products!Request
  <2>2. QED
    BY <1>1, <1>2, <2>1, ProductSend DEF Products!Kinds
<1>6. CASE Products!Confirm
  <2>1. /\ sent' = sent \cup {of("delete", drop)}
        /\ target # 0 /\ ~\E s \in sent : s.op = "delete" /\ s.here
        /\ UNCHANGED <<table, scope, items, status, token, loads, form, openings, target, behind>>
    BY <1>6 DEF Products!Confirm, Products!Request, Products!DialogListens, Products!Busy, drop
  <2>2. QED
    BY <1>1, <1>2, <2>1, ProductSend DEF Products!Kinds
<1>7. QED
  BY <1>3, <1>4, <1>5, <1>6

LEMMA ProductCarryOut ==
  ASSUME ProductInv, NEW s \in sent, Products!CarryOut(s)
  PROVE  ProductInv'
<1> DEFINE done == [s EXCEPT !.at = "done"]
<1>1. /\ done \in ProductRequest /\ done.at = "done" /\ done.op = s.op /\ done.here = s.here
      /\ done.form = s.form /\ s \in ProductRequest /\ s.op \in {"save", "delete"}
      /\ s.at = "sent"
  BY DEF ProductInv, ProductTypes, ProductRequest, Products!CarryOut
<1>2. /\ sent' = IF s.here THEN (sent \ {s}) \cup {done} ELSE sent \ {s}
      /\ behind' = (behind \/ (~s.here /\ s.scope = scope))
      /\ UNCHANGED <<scope, items, status, token, loads, form, openings, target>>
  BY DEF Products!CarryOut, Products!Answered
<1> HIDE DEF done
<1>3. PICK p \in ProductIds : table' = [table EXCEPT ![s.scope][p] = s.form.opening]
  BY <1>1 DEF Products!CarryOut, Products!Places, ProductRequest, ProductForm
<1>4. /\ table' \in [Products!Scopes -> ProductRows]
      /\ s.scope # scope => table'[scope] = table[scope]
  BY <1>1, <1>3 DEF ProductInv, ProductTypes, ProductRows, ProductRequest, ProductForm
<1>5. ProductTypes'
  BY <1>1, <1>2, <1>4 DEF ProductInv, ProductTypes
<1>6. FilledInv'
  BY <1>1, <1>2 DEF ProductInv, FilledInv, Products!Kinds
<1>7. ProductDialogInv'
  BY <1>1, <1>2 DEF ProductInv, ProductDialogInv
<1>8. ASSUME NEW rows, ProductsCurrent(rows) PROVE ProductsCurrent(rows)'
  BY <1>1, <1>2, <1>4, <1>8 DEF ProductsCurrent
<1>9. ProductListInv'
  BY <1>2, <1>8 DEF ProductInv, ProductListInv, Products!Cancelled
<1>10. QED
  BY <1>5, <1>6, <1>7, <1>9 DEF ProductInv

LEMMA ProductReply ==
  ASSUME ProductInv, NEW s \in sent,
         \/ Products!OnFilled(s) \/ Products!GoWrong(s)
         \/ Products!OnSaved(s) \/ Products!OnDeleted(s)
  PROVE  ProductInv'
<1>1. Products!Blank \in ProductForm /\ ~Products!Blank.stray /\ scope \in Products!Scopes
  BY DEF Products!Blank, ProductForm, ProductInv, ProductTypes
<1>2. CASE Products!OnFilled(s)
  <2> DEFINE filled == [product |-> form.product, opening |-> form.opening, clean |-> form.clean,
                        picture |-> form.picture \/ s.op = "picture",
                        stray |-> form.stray \/ s.form.opening # form.opening]
  <2>1. /\ form \in ProductForm /\ filled \in ProductForm
        /\ filled.opening = form.opening /\ filled.clean = form.clean
        /\ filled.stray <=> form.stray \/ s.form.opening # form.opening
    BY DEF ProductInv, ProductTypes, ProductForm
  <2>2. form' = form \/ (form # Products!Blank /\ form' = filled)
    BY <1>2 DEF Products!OnFilled
  <2> HIDE DEF filled
  <2>3. form' \in ProductForm
    BY <2>1, <2>2
  <2>4. ProductTypes'
    BY <1>2, <2>3 DEF Products!OnFilled, ProductInv, ProductTypes
  <2>5. FilledInv'
    BY <1>2, <2>1, <2>2 DEF Products!OnFilled, ProductInv, FilledInv
  <2>6. ProductDialogInv'
    BY <1>2 DEF Products!OnFilled, ProductInv, ProductDialogInv, Products!Kinds
  <2>7. ProductListInv'
    BY <1>2 DEF Products!OnFilled, ProductInv, FilledInv, ProductListInv, ProductsCurrent,
                Products!Cancelled
  <2>8. QED
    BY <2>4, <2>5, <2>6, <2>7 DEF ProductInv
<1>3. CASE Products!GoWrong(s)
  BY <1>3 DEF Products!GoWrong, ProductInv, ProductTypes, FilledInv, ProductDialogInv,
              ProductListInv, ProductsCurrent, Products!Cancelled, ProductRequest
<1>4. CASE Products!OnSaved(s)
  <2>1. token' \in Nat /\ loads' \subseteq ProductLoad /\ status' = "loading" /\ ProductListInv'
    BY <1>1, <1>4, ProductFetch DEF Products!OnSaved
  <2>2. ProductTypes'
    BY <1>1, <1>4, <2>1 DEF Products!OnSaved, ProductInv, ProductTypes
  <2>3. FilledInv' /\ ProductDialogInv'
    BY <1>1, <1>4 DEF Products!OnSaved, ProductInv, FilledInv, ProductDialogInv
  <2>4. QED
    BY <2>1, <2>2, <2>3 DEF ProductInv
<1>5. CASE Products!OnDeleted(s)
  <2>1. token' \in Nat /\ loads' \subseteq ProductLoad /\ status' = "loading" /\ ProductListInv'
    BY <1>1, <1>5, ProductFetch DEF Products!OnDeleted
  <2>2. ProductTypes'
    BY <1>5, <2>1 DEF Products!OnDeleted, ProductInv, ProductTypes
  <2>3. FilledInv' /\ ProductDialogInv'
    BY <1>5 DEF Products!OnDeleted, ProductInv, FilledInv, ProductDialogInv
  <2>4. QED
    BY <2>1, <2>2, <2>3 DEF ProductInv
<1>6. QED
  BY <1>2, <1>3, <1>4, <1>5

(* What the panel does by itself. *)
LEMMA ProductControls ==
  ASSUME ProductInv,
         \/ \E p \in ProductIds : Products!AskDelete(p)
         \/ \E p \in {0} \cup ProductIds : Products!OpenForm(p)
         \/ Products!CancelForm \/ Products!Dismiss
  PROVE  ProductInv'
<1>1. Products!Blank \in ProductForm /\ ~Products!Blank.stray
  BY DEF Products!Blank, ProductForm
<1>2. UNCHANGED <<table, scope, items, status, token, loads, sent, behind>>
  BY DEF Products!AskDelete, Products!OpenForm, Products!CancelForm, Products!Dismiss
<1>3. ASSUME NEW p \in {0} \cup ProductIds
      PROVE  /\ Products!FreshForm(p) \in ProductForm /\ ~Products!FreshForm(p).stray
             /\ Products!FreshForm(p).clean => ~Products!Busy("picture") /\ ~Products!Busy("tag")
  <2>1. openings + 1 \in Nat
    BY DEF ProductInv, ProductTypes
  <2>2. Products!FreshForm(p) \in ProductForm
    BY <2>1 DEF Products!FreshForm, ProductForm
  <2>3. /\ Products!FreshForm(p).stray = FALSE
        /\ Products!FreshForm(p).clean = (~Products!Busy("picture") /\ ~Products!Busy("tag"))
    BY DEF Products!FreshForm
  <2>4. QED
    BY <2>2, <2>3
<1>4. /\ target' \in {0} \cup ProductIds /\ openings' \in Nat
       /\ \/ form' \in {form, Products!Blank}
          \/ \E p \in {0} \cup ProductIds : form' = Products!FreshForm(p)
  BY DEF ProductInv, ProductTypes, Products!AskDelete, Products!OpenForm, Products!CancelForm,
         Products!Dismiss
<1>5. ProductTypes'
  BY <1>1, <1>2, <1>3, <1>4 DEF ProductInv, ProductTypes
<1>6. FilledInv'
  BY <1>1, <1>2, <1>3, <1>4 DEF ProductInv, FilledInv, Products!Kinds, Products!Busy
<1>7. ProductDialogInv'
  BY IdsArePositive
     DEF ProductInv, ProductDialogInv, Products!AskDelete, Products!OpenForm, Products!CancelForm,
         Products!Dismiss, Products!DialogListens, Products!Busy, Products!ProductsAreIds
<1>8. ProductListInv'
  BY <1>2 DEF ProductInv, ProductListInv, ProductsCurrent, Products!Cancelled
<1>9. QED
  BY <1>5, <1>6, <1>7, <1>8 DEF ProductInv

(* The list is asked for anew. *)
LEMMA ProductRenewal ==
  ASSUME ProductInv, Products!Retry \/ Products!Switch
  PROVE  ProductInv'
<1>1. /\ Products!Blank \in ProductForm /\ ~Products!Blank.stray
      /\ Products!Unread \in ProductRows /\ scope \in Products!Scopes
  BY DEF Products!Blank, ProductForm, ProductInv, ProductTypes, Products!Unread, Products!Gone,
         ProductRows
<1>2. CASE Products!Retry
  <2>1. token' \in Nat /\ loads' \subseteq ProductLoad /\ status' = "loading" /\ ProductListInv'
    BY <1>1, <1>2, ProductFetch DEF Products!Retry
  <2>2. ProductTypes' /\ FilledInv' /\ ProductDialogInv'
    BY <1>2, <2>1 DEF Products!Retry, ProductInv, ProductTypes, FilledInv, ProductDialogInv
  <2>3. QED
    BY <2>1, <2>2 DEF ProductInv
<1>3. CASE Products!Switch
  <2>1. token' \in Nat /\ loads' \subseteq ProductLoad /\ status' = "loading" /\ ProductListInv'
    BY <1>3, ProductFetch DEF Products!Switch
  <2>2. \A r \in sent' : /\ r \in ProductRequest /\ ~r.here /\ r.at = "sent"
                         /\ r.op \notin Products!Kinds
                         /\ r.form.stray => ~r.form.clean
    BY <1>3 DEF Products!Switch, ProductInv, ProductTypes, ProductRequest, FilledInv
  <2>3. ProductTypes'
    BY <1>1, <1>3, <2>1, <2>2 DEF Products!Switch, ProductInv, ProductTypes
  <2>4. FilledInv' /\ ProductDialogInv'
    BY <1>1, <1>3, <2>2 DEF Products!Switch, FilledInv, ProductDialogInv, Products!Blank
  <2>5. QED
    BY <2>1, <2>3, <2>4 DEF ProductInv
<1>4. QED
  BY <1>2, <1>3

LEMMA ProductNext == ProductInv /\ [Products!Next]_(Products!vars) => ProductInv'
<1> SUFFICES ASSUME ProductInv, [Products!Next]_(Products!vars) PROVE ProductInv'
  OBVIOUS
<1>1. CASE UNCHANGED Products!vars
  BY <1>1 DEF Products!vars, ProductInv, ProductTypes, FilledInv, ProductDialogInv, ProductListInv,
              ProductsCurrent, Products!Cancelled
<1>2. ASSUME NEW l \in loads, Products!OnLoad(l) PROVE ProductInv'
  BY <1>2, ProductReadList, ProductAnswer DEF Products!OnLoad
<1>3. ASSUME NEW s \in sent, Products!OnReply(s) PROVE ProductInv'
  BY <1>3, ProductCarryOut, ProductReply DEF Products!OnReply
<1>4. ASSUME \/ \E p \in ProductIds : Products!AskDelete(p) \/ Products!OpenForm(p)
             \/ Products!OpenForm(0) \/ Products!CancelForm \/ Products!Dismiss
      PROVE  ProductInv'
  BY <1>4, ProductControls
<1>5. ASSUME \/ Products!PickPicture \/ Products!AddTag \/ Products!Submit \/ Products!Confirm
             \/ Products!Retry \/ Products!Switch
      PROVE  ProductInv'
  BY <1>5, ProductSends, ProductRenewal
<1>6. QED
  BY <1>1, <1>2, <1>3, <1>4, <1>5 DEF Products!Next

LEMMA ProductPromises ==
  ASSUME ProductInv
  PROVE  Products!ListCatchesUp /\ Products!DeletesTakeTurns /\ Products!SavedAsFilled
<1>1. Products!ListCatchesUp
  BY DEF ProductInv, FilledInv, ProductListInv, ProductsCurrent, Products!ListCatchesUp,
         Products!Quiet, Products!Cancelled
<1>2. Products!DeletesTakeTurns
  BY DEF ProductInv, ProductDialogInv, Products!DeletesTakeTurns
<1>3. Products!SavedAsFilled
  BY DEF ProductInv, FilledInv, Products!SavedAsFilled
<1>4. QED
  BY <1>1, <1>2, <1>3

-----------------------------------------------------------------------------
(* The categories.                                                           *)

CategoryRows == [CategoryIds -> Nat]
CategoryForm == [category : {0} \cup CategoryIds, opening : Nat]
CategoryRequest == [op : {"save", "delete"}, what : CategoryForm, scope : Categories!Scopes,
                    of : Categories!Scopes, here : BOOLEAN, at : {"sent", "done"}]
CategoryLoad == [token : Nat, of : Categories!Scopes, seen : SUBSET CategoryRows]

CategoryTypes ==
  /\ table \in [Categories!Scopes -> CategoryRows] /\ scope \in Categories!Scopes
  /\ list \in [of : Categories!Scopes, rows : CategoryRows]
  /\ status \in {"loading", "ready", "error"} /\ token \in Nat /\ loads \subseteq CategoryLoad
  /\ form \in CategoryForm /\ openings \in Nat /\ target \in {0} \cup CategoryIds
  /\ sent \subseteq CategoryRequest /\ behind \in BOOLEAN

CategoryDialogInv ==
  \A s \in sent : s.op = "delete" /\ s.here =>
    /\ target # 0
    /\ \A t \in sent : t.op = "delete" /\ t.here => t = s

CategoriesCurrent(rows) ==
  ~behind => rows = table[scope] \/ \E s \in sent : s.at = "done"

(* The list of the other scope may be called ready as long as this one's is awaited. *)
CategoryListInv ==
  /\ \A l \in loads :
       /\ l.token <= token
       /\ ~Categories!Cancelled(l) =>
            /\ l.of = scope
            /\ \A k \in loads : k.token = token => k = l
            /\ \A rows \in l.seen : CategoriesCurrent(rows)
  /\ status = "ready" =>
       \/ \E l \in loads : ~Categories!Cancelled(l)
       \/ list.of = scope /\ CategoriesCurrent(list.rows)

CategoryInv == CategoryTypes /\ CategoryDialogInv /\ CategoryListInv

LEMMA CategoryInit == Categories!Init => CategoryInv
<1> SUFFICES ASSUME Categories!Init PROVE CategoryInv
  OBVIOUS
<1>1. /\ [c \in CategoryIds |-> Categories!Gone] \in CategoryRows
      /\ Categories!Closed \in CategoryForm
      /\ [token |-> 1, of |-> "CATALOG", seen |-> {}] \in CategoryLoad
  BY DEF CategoryRows, Categories!Gone, Categories!Closed, CategoryForm, CategoryLoad,
         Categories!Scopes
<1>2. [Categories!Scopes -> [CategoryIds -> {Categories!Gone, 1}]]
        \subseteq [Categories!Scopes -> CategoryRows]
  BY DEF CategoryRows, Categories!Gone
<1>3. CategoryTypes
  BY <1>1, <1>2 DEF Categories!Init, CategoryTypes, Categories!Scopes
<1>4. CategoryDialogInv /\ CategoryListInv
  BY DEF Categories!Init, CategoryDialogInv, CategoryListInv, Categories!Cancelled
<1>5. QED
  BY <1>3, <1>4 DEF CategoryInv

(* A request for the list that counts: it has seen nothing yet. *)
LEMMA CategoryFetch ==
  ASSUME CategoryInv, NEW sc \in Categories!Scopes, Categories!Fetch(sc), scope' = sc
  PROVE  token' \in Nat /\ loads' \subseteq CategoryLoad /\ CategoryListInv'
<1> DEFINE new == [token |-> token + 1, of |-> sc, seen |-> {}]
<1>1. /\ token \in Nat /\ loads \subseteq CategoryLoad
      /\ token' = token + 1 /\ loads' = loads \cup {new}
  BY DEF CategoryInv, CategoryTypes, Categories!Fetch
<1>2. new \in CategoryLoad
  BY <1>1 DEF CategoryLoad
<1>3. \A l \in loads : l.token \in Nat /\ l.token <= token
  BY DEF CategoryInv, CategoryTypes, CategoryLoad, CategoryListInv
<1>4. /\ new \in loads' /\ new.token = token' /\ new.of = scope' /\ new.seen = {}
      /\ \A l \in loads' : l.token <= token' /\ (l.token = token' => l = new)
  BY <1>1, <1>3
<1> HIDE DEF new
<1>5. CategoryListInv'
  BY <1>1, <1>4 DEF CategoryListInv, Categories!Cancelled
<1>6. QED
  BY <1>1, <1>2, <1>5

LEMMA CategoryReadList ==
  ASSUME CategoryInv, NEW l \in loads, Categories!ReadList(l)
  PROVE  CategoryInv'
<1> DEFINE read == [l EXCEPT !.seen = {table[l.of]}]
<1>1. /\ l \in CategoryLoad /\ table[l.of] \in CategoryRows
      /\ read \in CategoryLoad /\ read.token = l.token /\ read.of = l.of
      /\ read.seen = {table[l.of]}
  BY DEF CategoryInv, CategoryTypes, CategoryLoad
<1>2. /\ loads' = (loads \ {l}) \cup {read}
      /\ behind' = (behind /\ Categories!Cancelled(l))
      /\ UNCHANGED <<table, scope, list, status, token, form, openings, target, sent>>
  BY DEF Categories!ReadList
<1> HIDE DEF read
<1>3. CategoryTypes'
  BY <1>1, <1>2 DEF CategoryInv, CategoryTypes
<1>4. CategoryDialogInv'
  BY <1>2 DEF CategoryInv, CategoryDialogInv
<1>5. ASSUME Categories!Cancelled(l) PROVE CategoryListInv'
  BY <1>1, <1>2, <1>5 DEF CategoryInv, CategoryListInv, Categories!Cancelled, CategoriesCurrent
<1>6. ASSUME ~Categories!Cancelled(l) PROVE CategoryListInv'
  <2>1. l.token = token /\ l.of = scope /\ \A k \in loads : k.token = token => k = l
    BY <1>6 DEF CategoryInv, CategoryListInv, Categories!Cancelled
  <2>2. \A k \in loads' : k.token <= token /\ (k.token = token => k = read)
    BY <1>1, <1>2, <2>1 DEF CategoryInv, CategoryListInv
  <2>3. \A rows \in read.seen : CategoriesCurrent(rows)'
    BY <1>1, <1>2, <2>1 DEF CategoriesCurrent
  <2>4. QED
    BY <1>1, <1>2, <2>1, <2>2, <2>3 DEF CategoryListInv, Categories!Cancelled
<1>7. QED
  BY <1>3, <1>4, <1>5, <1>6 DEF CategoryInv

LEMMA CategoryAnswer ==
  ASSUME CategoryInv, NEW l \in loads, Categories!OnList(l) \/ Categories!OnListError(l)
  PROVE  CategoryInv'
<1>1. /\ l \in CategoryLoad /\ loads' = loads \ {l}
      /\ UNCHANGED <<table, scope, token, form, openings, target, sent, behind>>
  BY DEF CategoryInv, CategoryTypes, Categories!OnList, Categories!OnListError
<1>2. \A rows : CategoriesCurrent(rows)' <=> CategoriesCurrent(rows)
  BY <1>1 DEF CategoriesCurrent
<1>3. CategoryDialogInv'
  BY <1>1 DEF CategoryInv, CategoryDialogInv
<1>4. CASE Categories!Cancelled(l)
  <2>1. UNCHANGED <<list, status>>
    BY <1>4 DEF Categories!OnList, Categories!OnListError
  <2>2. QED
    BY <1>1, <1>2, <1>3, <1>4, <2>1 DEF CategoryInv, CategoryTypes, CategoryListInv,
                                        Categories!Cancelled
<1>5. CASE ~Categories!Cancelled(l)
  <2>1. \/ status' = "error" /\ list' = list
        \/ /\ status' = "ready"
           /\ \E rows \in l.seen : list' = [of |-> l.of, rows |-> rows]
    BY <1>5 DEF Categories!OnList, Categories!OnListError
  <2>2. l.of = scope /\ \A rows \in l.seen : rows \in CategoryRows /\ CategoriesCurrent(rows)
    BY <1>1, <1>5 DEF CategoryInv, CategoryListInv, CategoryLoad
  <2>3. /\ list' \in [of : Categories!Scopes, rows : CategoryRows]
        /\ status' = "ready" => list'.of = scope /\ CategoriesCurrent(list'.rows)
    BY <2>1, <2>2 DEF CategoryInv, CategoryTypes
  <2>4. CategoryTypes'
    BY <1>1, <2>1, <2>3 DEF CategoryInv, CategoryTypes
  <2>5. CategoryListInv'
    BY <1>1, <1>2, <2>3 DEF CategoryInv, CategoryListInv, Categories!Cancelled
  <2>6. QED
    BY <1>3, <2>4, <2>5 DEF CategoryInv
<1>6. QED
  BY <1>4, <1>5

LEMMA CategorySends ==
  ASSUME CategoryInv, Categories!Submit \/ Categories!Confirm
  PROVE  CategoryInv'
<1> DEFINE of(op, what) == [op |-> op, what |-> what, scope |-> scope, of |-> list.of,
                            here |-> TRUE, at |-> "sent"]
           drop == [Categories!Closed EXCEPT !.category = target]
<1>1. PICK r \in {of("save", form), of("delete", drop)} :
        /\ sent' = sent \cup {r}
        /\ r = of("delete", drop) => target # 0 /\ ~\E s \in sent : s.op = "delete" /\ s.here
  BY DEF Categories!Submit, Categories!Confirm, Categories!Request, Categories!DialogListens,
         Categories!Busy
<1>2. UNCHANGED <<table, scope, list, status, token, loads, form, openings, target, behind>>
  BY DEF Categories!Submit, Categories!Confirm
<1>3. drop \in CategoryForm /\ drop.category = target /\ form \in CategoryForm
  BY DEF CategoryInv, CategoryTypes, CategoryForm, Categories!Closed
<1> HIDE DEF drop
<1>4. /\ r \in CategoryRequest /\ r.here /\ r.at = "sent"
      /\ r.op = "delete" => r = of("delete", drop) /\ r.what = drop
  <2>1. scope \in Categories!Scopes /\ list.of \in Categories!Scopes
    BY DEF CategoryInv, CategoryTypes
  <2>2. CASE r = of("save", form)
    BY <1>3, <2>1, <2>2 DEF CategoryRequest
  <2>3. CASE r = of("delete", drop)
    BY <1>3, <2>1, <2>3 DEF CategoryRequest
  <2>4. QED
    BY <2>2, <2>3
<1> HIDE DEF of
<1>5. CategoryTypes'
  BY <1>1, <1>2, <1>4 DEF CategoryInv, CategoryTypes
<1>6. CategoryDialogInv'
  BY <1>1, <1>2, <1>3, <1>4 DEF CategoryInv, CategoryDialogInv
<1>7. \A rows : CategoriesCurrent(rows)' <=> CategoriesCurrent(rows)
  BY <1>1, <1>2, <1>4 DEF CategoriesCurrent
<1>8. CategoryListInv'
  BY <1>2, <1>7 DEF CategoryInv, CategoryListInv, Categories!Cancelled
<1>9. QED
  BY <1>5, <1>6, <1>8 DEF CategoryInv

LEMMA CategoryCarryOut ==
  ASSUME CategoryInv, NEW s \in sent, Categories!CarryOut(s)
  PROVE  CategoryInv'
<1> DEFINE done == [s EXCEPT !.at = "done"]
<1>1. /\ done \in CategoryRequest /\ done.at = "done" /\ done.op = s.op /\ done.here = s.here
      /\ done.what = s.what /\ s \in CategoryRequest
  BY DEF CategoryInv, CategoryTypes, CategoryRequest
<1>2. /\ sent' = (sent \ {s}) \cup {done}
      /\ UNCHANGED <<scope, list, status, token, loads, form, openings, target, behind>>
  BY DEF Categories!CarryOut
<1> HIDE DEF done
<1>3. PICK c \in CategoryIds :
        table' = [table EXCEPT ![s.scope][c] =
                    IF s.op = "delete" THEN Categories!Gone ELSE s.what.opening]
  BY <1>1 DEF Categories!CarryOut, Categories!Places, CategoryRequest, CategoryForm
<1>4. table' \in [Categories!Scopes -> CategoryRows]
  BY <1>1, <1>3 DEF CategoryInv, CategoryTypes, CategoryRows, CategoryRequest, CategoryForm,
                    Categories!Gone
<1>5. CategoryTypes'
  BY <1>1, <1>2, <1>4 DEF CategoryInv, CategoryTypes
<1>6. CategoryDialogInv'
  BY <1>1, <1>2 DEF CategoryInv, CategoryDialogInv
<1>7. \A rows : CategoriesCurrent(rows)'
  BY <1>1, <1>2 DEF CategoriesCurrent
<1>8. CategoryListInv'
  BY <1>2, <1>7 DEF CategoryInv, CategoryListInv, Categories!Cancelled
<1>9. QED
  BY <1>5, <1>6, <1>8 DEF CategoryInv

LEMMA CategoryReply ==
  ASSUME CategoryInv, NEW s \in sent, Categories!GoWrong(s) \/ Categories!OnDone(s)
  PROVE  CategoryInv'
<1>1. CASE Categories!GoWrong(s)
  BY <1>1 DEF Categories!GoWrong, CategoryInv, CategoryTypes, CategoryDialogInv, CategoryListInv,
              CategoriesCurrent, Categories!Cancelled, CategoryRequest
<1>2. CASE Categories!OnDone(s)
  <2>1. Categories!Closed \in CategoryForm /\ scope \in Categories!Scopes
    BY DEF Categories!Closed, CategoryForm, CategoryInv, CategoryTypes
  <2>2. token' \in Nat /\ loads' \subseteq CategoryLoad /\ CategoryListInv'
    BY <1>2, <2>1, CategoryFetch DEF Categories!OnDone, Categories!Reload
  <2>3. CategoryTypes'
    BY <1>2, <2>1, <2>2 DEF Categories!OnDone, Categories!Reload, CategoryInv, CategoryTypes
  <2>4. CategoryDialogInv'
    BY <1>2 DEF Categories!OnDone, CategoryInv, CategoryDialogInv
  <2>5. QED
    BY <2>2, <2>3, <2>4 DEF CategoryInv
<1>3. QED
  BY <1>1, <1>2

(* What the panel does by itself. *)
LEMMA CategoryControls ==
  ASSUME CategoryInv,
         \/ \E c \in CategoryIds : Categories!AskDelete(c)
         \/ \E c \in {0} \cup CategoryIds : Categories!OpenForm(c)
         \/ Categories!CancelForm \/ Categories!Dismiss
  PROVE  CategoryInv'
<1>1. Categories!Closed \in CategoryForm
  BY DEF Categories!Closed, CategoryForm
<1>2. UNCHANGED <<table, scope, list, status, token, loads, sent, behind>>
  BY DEF Categories!AskDelete, Categories!OpenForm, Categories!CancelForm, Categories!Dismiss
<1>3. CategoryTypes'
  BY <1>1 DEF CategoryInv, CategoryTypes, Categories!AskDelete, Categories!OpenForm,
              Categories!CancelForm, Categories!Dismiss, CategoryForm
<1>4. CategoryDialogInv'
  BY IdsArePositive
     DEF CategoryInv, CategoryDialogInv, Categories!AskDelete, Categories!OpenForm,
         Categories!CancelForm, Categories!Dismiss, Categories!DialogListens, Categories!Busy,
         Categories!CategoriesAreIds
<1>5. CategoryListInv'
  BY <1>2 DEF CategoryInv, CategoryListInv, CategoriesCurrent, Categories!Cancelled
<1>6. QED
  BY <1>3, <1>4, <1>5 DEF CategoryInv

(* The list is asked for anew. *)
LEMMA CategoryRenewal ==
  ASSUME CategoryInv, Categories!Retry \/ Categories!Switch
  PROVE  CategoryInv'
<1>1. Categories!Closed \in CategoryForm /\ scope \in Categories!Scopes
  BY DEF Categories!Closed, CategoryForm, CategoryInv, CategoryTypes
<1>2. CASE Categories!Retry
  <2>1. token' \in Nat /\ loads' \subseteq CategoryLoad /\ CategoryListInv'
    BY <1>1, <1>2, CategoryFetch DEF Categories!Retry, Categories!Reload
  <2>2. CategoryTypes' /\ CategoryDialogInv'
    BY <1>2, <2>1 DEF Categories!Retry, Categories!Reload, CategoryInv, CategoryTypes,
                      CategoryDialogInv
  <2>3. QED
    BY <2>1, <2>2 DEF CategoryInv
<1>3. CASE Categories!Switch
  <2>1. token' \in Nat /\ loads' \subseteq CategoryLoad /\ CategoryListInv'
    BY <1>3, CategoryFetch DEF Categories!Switch
  <2>2. \A r \in sent' : r \in CategoryRequest /\ ~r.here
    BY <1>3 DEF Categories!Switch, CategoryInv, CategoryTypes, CategoryRequest
  <2>3. CategoryTypes'
    BY <1>1, <1>3, <2>1, <2>2 DEF Categories!Switch, CategoryInv, CategoryTypes
  <2>4. CategoryDialogInv'
    BY <2>2 DEF CategoryDialogInv
  <2>5. QED
    BY <2>1, <2>3, <2>4 DEF CategoryInv
<1>4. QED
  BY <1>2, <1>3

LEMMA CategoryNext == CategoryInv /\ [Categories!Next]_(Categories!vars) => CategoryInv'
<1> SUFFICES ASSUME CategoryInv, [Categories!Next]_(Categories!vars) PROVE CategoryInv'
  OBVIOUS
<1>1. CASE UNCHANGED Categories!vars
  BY <1>1 DEF Categories!vars, CategoryInv, CategoryTypes, CategoryDialogInv, CategoryListInv,
              CategoriesCurrent, Categories!Cancelled
<1>2. ASSUME NEW l \in loads, Categories!OnLoad(l) PROVE CategoryInv'
  BY <1>2, CategoryReadList, CategoryAnswer DEF Categories!OnLoad
<1>3. ASSUME NEW s \in sent, Categories!OnReply(s) PROVE CategoryInv'
  BY <1>3, CategoryCarryOut, CategoryReply DEF Categories!OnReply
<1>4. ASSUME \/ \E c \in CategoryIds : Categories!AskDelete(c) \/ Categories!OpenForm(c)
             \/ Categories!OpenForm(0) \/ Categories!CancelForm \/ Categories!Dismiss
      PROVE  CategoryInv'
  BY <1>4, CategoryControls
<1>5. ASSUME \/ Categories!Submit \/ Categories!Confirm
             \/ Categories!Retry \/ Categories!Switch
      PROVE  CategoryInv'
  BY <1>5, CategorySends, CategoryRenewal
<1>6. QED
  BY <1>1, <1>2, <1>3, <1>4, <1>5 DEF Categories!Next

LEMMA CategoryPromises ==
  ASSUME CategoryInv
  PROVE  Categories!ListCatchesUp /\ Categories!DeletesTakeTurns
<1>1. ASSUME \A l \in loads : Categories!Cancelled(l), sent = {}, status = "ready", ~behind
      PROVE  list = [of |-> scope, rows |-> table[scope]]
  BY <1>1 DEF CategoryInv, CategoryTypes, CategoryListInv, CategoriesCurrent
<1>2. Categories!DeletesTakeTurns
  BY DEF CategoryInv, CategoryDialogInv, Categories!DeletesTakeTurns
<1>3. QED
  BY <1>1, <1>2 DEF Categories!ListCatchesUp

-----------------------------------------------------------------------------
(* The users.                                                                *)

UserRequest == [op : {"role", "delete"}, user : UserIds, role : Users!Roles \cup {"gone"},
                at : {"sent", "done"}, here : BOOLEAN, back : BOOLEAN, page : Nat]

UserTypes ==
  /\ table \in [UserIds -> Users!Roles \cup {"gone"}]
  /\ view \in {"users", "summary"} /\ page \in Nat
  /\ status \in {"loading", "ready", "error"} /\ token \in Nat
  /\ \A l \in loads : /\ l = [token |-> l.token, view |-> l.view, page |-> l.page, seen |-> l.seen]
                      /\ l.token \in Nat /\ l.token <= token
  /\ target \in {0} \cup UserIds /\ sent \subseteq UserRequest
  /\ behind \in BOOLEAN /\ shared \in BOOLEAN /\ turned \in BOOLEAN

(* Requests of the screen shown belong to the page of users; as long as they take turns,    *)
(* the one under way is the row's that is disabled, and a deletion that turns the page back *)
(* finds the page it left, unless someone turned it meanwhile.                              *)
UserRequestInv ==
  /\ target # 0 => view = "users"
  /\ \A s \in sent :
       /\ s.here => view = "users"
       /\ s.at = "done" => s.here
       /\ s.op = "role" => s.role \in Users!Roles
       /\ s.back => s.page > 1
       /\ s.here /\ ~shared =>
            /\ pendingId = s.user
            /\ s.op = "delete" /\ s.back /\ ~turned => s.page = page
            /\ \A t \in sent : t.here => t = s

UserLoadInv ==
  /\ \A l \in loads : ~Users!Cancelled(l) =>
       /\ status = "loading" /\ l.view = view /\ l.page = page
       /\ \A k \in loads : k.token = token => k = l
  /\ status = "loading" /\ ~shared /\ ~turned => \E l \in loads : ~Users!Cancelled(l)

(* A page is the server's, or will be once the answer under way is put into it. *)
PageCurrent(d) ==
  /\ (\A s \in sent : s.at # "done") => d = {Users!Listed(table, page)}
  /\ \A s \in sent : s.op = "role" /\ s.at = "done" /\ table[s.user] \in {s.role, "gone"} =>
       Users!Patched(d, s) = {Users!Listed(table, page)}

(* What the screen shows, or will show once the request it waits for is answered. *)
ShownCurrent(d) ==
  IF view = "users" THEN PageCurrent(d) ELSE d = {Users!Counted(table)}

UserListInv ==
  ~shared /\ ~turned /\ ~behind =>
    /\ \A l \in loads : ~Users!Cancelled(l) /\ l.seen # Users!None => ShownCurrent(l.seen)
    /\ status = "ready" => ShownCurrent(IF view = "users" THEN data ELSE summary)

UserInv == UserTypes /\ UserRequestInv /\ UserLoadInv /\ UserListInv

(* Putting the role of a request into a page of the table as it was before the request gives  *)
(* the page as it is after it, also for a user who was removed since.                         *)
LEMMA PatchedPage ==
  ASSUME NEW before, NEW after, NEW u \in UserIds, NEW p, NEW s, s.user = u,
         \A v \in UserIds \ {u} : after[v] = before[v],
         before[u] = "gone" <=> after[u] = "gone",
         after[u] \in {s.role, "gone"}
  PROVE  Users!Patched({Users!Listed(before, p)}, s) = {Users!Listed(after, p)}
<1> DEFINE there == {v \in Users!Present(before) : Users!PageOf(before, v) = p}
           old == {<<v, before[v]>> : v \in there}
           new == {<<v, after[v]>> : v \in there}
           put(x) == IF x[1] = s.user THEN <<s.user, s.role>> ELSE x
<1>1. Users!Present(before) = Users!Present(after)
  BY DEF Users!Present
<1>2. Users!Pages(before) = Users!Pages(after)
  BY <1>1 DEF Users!Pages
<1>3. \A v : Users!PageOf(before, v) = Users!PageOf(after, v)
  BY <1>1 DEF Users!PageOf
<1>4. there = {v \in Users!Present(after) : Users!PageOf(after, v) = p}
  BY <1>1, <1>3
<1>5. /\ Users!Listed(before, p) = [page |-> p, pages |-> Users!Pages(before), rows |-> old]
      /\ Users!Listed(after, p) = [page |-> p, pages |-> Users!Pages(after), rows |-> new]
  BY <1>4 DEF Users!Listed
<1>6. \A v \in there : put(<<v, before[v]>>) = <<v, after[v]>>
  <2>1. SUFFICES ASSUME NEW v \in there PROVE put(<<v, before[v]>>) = <<v, after[v]>>
    OBVIOUS
  <2>2. v \in UserIds /\ before[v] # "gone"
    BY DEF Users!Present
  <2>3. CASE v = u
    BY <2>2, <2>3
  <2>4. CASE v # u
    BY <2>2, <2>4
  <2>5. QED
    BY <2>3, <2>4
<1> HIDE DEF there, put
<1>7. {put(x) : x \in old} = new
  <2>1. {put(x) : x \in old} \subseteq new
    BY <1>6
  <2>2. new \subseteq {put(x) : x \in old}
    BY <1>6
  <2>3. QED
    BY <2>1, <2>2
<1>8. Users!Patched({Users!Listed(before, p)}, s)
        = {[page |-> p, pages |-> Users!Pages(before), rows |-> {put(x) : x \in old}]}
  BY <1>5 DEF Users!Patched, put
<1>9. QED
  BY <1>2, <1>5, <1>7, <1>8

LEMMA UserInit == Users!Init => UserInv
<1> SUFFICES ASSUME Users!Init PROVE UserInv
  OBVIOUS
<1>1. table \in [UserIds -> Users!Roles \cup {"gone"}]
  BY DEF Users!Init
<1>2. \A l \in loads : /\ l = [token |-> l.token, view |-> l.view, page |-> l.page, seen |-> l.seen]
                        /\ l.token \in Nat /\ l.token <= token
  BY DEF Users!Init
<1>3. UserTypes
  BY <1>1, <1>2 DEF Users!Init, UserTypes
<1>4. UserRequestInv /\ UserLoadInv /\ UserListInv
  BY DEF Users!Init, UserRequestInv, UserLoadInv, UserListInv, Users!Cancelled
<1>5. QED
  BY <1>3, <1>4 DEF UserInv

(* Whether what is shown is current depends on the table, on the screen and page shown, and   *)
(* on the answers under way.                                                                  *)
LEMMA CurrentIsKept ==
  ASSUME UNCHANGED <<table, view, page>>,
         \A s \in sent : s.at = "done" => s \in sent', \A s \in sent' : s.at = "done" => s \in sent
  PROVE  \A d : ShownCurrent(d)' <=> ShownCurrent(d)
BY DEF ShownCurrent, PageCurrent

(* A request for what is shown: it has seen nothing yet. *)
LEMMA UserFetch ==
  ASSUME UserInv, NEW v, NEW p \in Nat, Users!Fetch(v, p), view' = v, page' = p
  PROVE  /\ token' \in Nat /\ status' = "loading"
         /\ \A l \in loads' : /\ l = [token |-> l.token, view |-> l.view, page |-> l.page,
                                      seen |-> l.seen]
                              /\ l.token \in Nat /\ l.token <= token'
         /\ UserLoadInv' /\ UserListInv'
<1> DEFINE new == [token |-> token + 1, view |-> v, page |-> p, seen |-> Users!None]
<1>1. token \in Nat /\ token' = token + 1 /\ loads' = loads \cup {new} /\ status' = "loading"
  BY DEF UserInv, UserTypes, Users!Fetch
<1>2. \A l \in loads : /\ l = [token |-> l.token, view |-> l.view, page |-> l.page,
                               seen |-> l.seen]
                       /\ l.token \in Nat /\ l.token <= token
  BY DEF UserInv, UserTypes
<1>3. /\ new \in loads' /\ new.token = token' /\ new.view = view' /\ new.page = page'
      /\ new.seen = Users!None
      /\ new = [token |-> new.token, view |-> new.view, page |-> new.page, seen |-> new.seen]
      /\ token' \in Nat
  BY <1>1
<1> HIDE DEF new
<1>4. \A l \in loads' : l.token \in Nat /\ l.token <= token' /\ (l.token = token' => l = new)
  BY <1>1, <1>2, <1>3
<1>5. UserLoadInv'
  BY <1>1, <1>3, <1>4 DEF UserLoadInv, Users!Cancelled
<1>6. UserListInv'
  BY <1>1, <1>3, <1>4 DEF UserListInv, Users!Cancelled
<1>7. \A l \in loads' : l = [token |-> l.token, view |-> l.view, page |-> l.page, seen |-> l.seen]
  BY <1>1, <1>2, <1>3
<1>8. QED
  BY <1>1, <1>3, <1>4, <1>5, <1>6, <1>7

LEMMA UserRead ==
  ASSUME UserInv, NEW l \in loads, Users!Read(l)
  PROVE  UserInv'
<1> DEFINE answer == IF l.view = "users" THEN {Users!Listed(table, l.page)}
                     ELSE {Users!Counted(table)}
           read == [l EXCEPT !.seen = answer]
<1>1. /\ read = [token |-> l.token, view |-> l.view, page |-> l.page, seen |-> answer]
      /\ read.token = l.token /\ read.view = l.view /\ read.page = l.page /\ read.seen = answer
  BY DEF UserInv, UserTypes
<1>2. /\ loads' = (loads \ {l}) \cup {read} /\ behind' = (behind /\ Users!Cancelled(l))
      /\ UNCHANGED <<table, view, page, data, summary, status, token, pendingId, target, sent,
                     shared, turned>>
  BY DEF Users!Read
<1> HIDE DEF read
<1>3. UserTypes'
  BY <1>1, <1>2 DEF UserInv, UserTypes
<1>4. UserRequestInv'
  BY <1>2 DEF UserInv, UserRequestInv
<1>5. \A k \in loads' : k # read => k \in loads /\ k # l
  BY <1>2
<1>6. UserLoadInv'
  BY <1>1, <1>2, <1>5 DEF UserInv, UserLoadInv, Users!Cancelled
<1>7. \A d : ShownCurrent(d)' <=> ShownCurrent(d)
  BY <1>2, CurrentIsKept
<1>8. CASE Users!Cancelled(l)
  <2>1. behind' = behind /\ l.token # token
    BY <1>2, <1>8 DEF UserInv, UserTypes, Users!Cancelled
  <2>2. UserListInv'
    BY <1>1, <1>2, <1>5, <1>7, <2>1 DEF UserInv, UserListInv, Users!Cancelled
  <2>3. QED
    BY <1>3, <1>4, <1>6, <2>2 DEF UserInv
<1>9. CASE ~Users!Cancelled(l)
  <2>1. status = "loading" /\ l.view = view /\ l.page = page /\ l.token = token
        /\ \A k \in loads : k.token = token => k = l
    BY <1>9 DEF UserInv, UserLoadInv, Users!Cancelled
  <2>2. ASSUME view = "users" PROVE PageCurrent(answer)
    <3>1. ASSUME NEW s \in sent, s.op = "role", table[s.user] \in {s.role, "gone"}
          PROVE  Users!Patched({Users!Listed(table, page)}, s) = {Users!Listed(table, page)}
      <4>1. s.user \in UserIds
        BY DEF UserInv, UserTypes, UserRequest
      <4>2. QED
        BY <3>1, <4>1, PatchedPage
    <3>2. answer = {Users!Listed(table, page)}
      BY <2>1, <2>2
    <3> HIDE DEF answer
    <3>3. QED
      BY <3>1, <3>2 DEF PageCurrent
  <2>3. view # "users" => answer = {Users!Counted(table)}
    BY <2>1
  <2> HIDE DEF answer
  <2>4. ShownCurrent(answer)
    BY <2>2, <2>3 DEF ShownCurrent
  <2>5. UserListInv'
    BY <1>1, <1>2, <1>5, <1>7, <2>1, <2>4 DEF UserListInv, Users!Cancelled
  <2>6. QED
    BY <1>3, <1>4, <1>6, <2>5 DEF UserInv
<1>10. QED
  BY <1>3, <1>4, <1>6, <1>8, <1>9 DEF UserInv

LEMMA UserAnswer ==
  ASSUME UserInv, NEW l \in loads, Users!OnPage(l) \/ Users!OnLoadError(l)
  PROVE  UserInv'
<1>1. /\ loads' = loads \ {l}
      /\ UNCHANGED <<table, view, page, token, pendingId, target, sent, behind, shared,
                     turned>>
  BY DEF Users!OnPage, Users!OnLoadError
<1>2. \A d : ShownCurrent(d)' <=> ShownCurrent(d)
  BY <1>1, CurrentIsKept
<1>3. UserRequestInv'
  BY <1>1 DEF UserInv, UserRequestInv
<1>4. CASE Users!Cancelled(l)
  <2>1. UNCHANGED <<data, summary, status>>
    BY <1>4 DEF Users!OnPage, Users!OnLoadError
  <2>2. UserTypes'
    BY <1>1, <2>1 DEF UserInv, UserTypes
  <2>3. UserLoadInv'
    BY <1>1, <1>4, <2>1 DEF UserInv, UserLoadInv, Users!Cancelled
  <2>4. UserListInv'
    BY <1>1, <1>2, <2>1 DEF UserInv, UserListInv, Users!Cancelled
  <2>5. QED
    BY <1>3, <2>2, <2>3, <2>4 DEF UserInv
<1>5. CASE ~Users!Cancelled(l)
  <2>1. /\ l.view = view /\ \A k \in loads' : k.token # token
        /\ view \in {"users", "summary"}
    BY <1>1, <1>5 DEF UserInv, UserTypes, UserLoadInv, Users!Cancelled
  <2>2. \/ status' = "error"
        \/ /\ status' = "ready" /\ l.seen # Users!None
           /\ (IF view = "users" THEN data ELSE summary)' = l.seen
    BY <1>1, <1>5, <2>1 DEF Users!OnPage, Users!OnLoadError
  <2>3. UserTypes' /\ UserLoadInv'
    BY <1>1, <2>1, <2>2 DEF UserInv, UserTypes, UserLoadInv, Users!Cancelled
  <2>4. UserListInv'
    BY <1>1, <1>2, <1>5, <2>1, <2>2 DEF UserInv, UserListInv, Users!Cancelled
  <2>5. QED
    BY <1>3, <2>3, <2>4 DEF UserInv
<1>6. QED
  BY <1>4, <1>5

(* What the page sends: a role, or the deletion its dialog asks about. *)
LEMMA UserSends ==
  ASSUME UserInv,
         \/ \E u \in UserIds, r \in Users!Roles : Users!SaveRole(u, r)
         \/ Users!Confirm
  PROVE  UserInv'
<1> DEFINE of(op, u, r) == [op |-> op, user |-> u, role |-> r, at |-> "sent", here |-> TRUE,
                            back |-> Users!LastOfPage, page |-> page]
<1>1. PICK op \in {"role", "delete"}, u \in UserIds, r \in Users!Roles \cup {"gone"} :
        /\ sent' = sent \cup {of(op, u, r)} /\ pendingId' = u
        /\ op = "role" => r \in Users!Roles
        /\ pendingId # u
        /\ shared' = (shared \/ \E s \in sent : s.here /\ s.user # u)
        /\ view = "users"
  <2>1. ASSUME NEW u \in UserIds, NEW r \in Users!Roles, Users!SaveRole(u, r)
        PROVE  /\ sent' = sent \cup {of("role", u, r)} /\ pendingId' = u
               /\ pendingId # u /\ view = "users"
               /\ shared' = (shared \/ \E s \in sent : s.here /\ s.user # u)
    BY <2>1 DEF Users!SaveRole, Users!RowOffers, Users!Send
  <2>2. ASSUME Users!Confirm
        PROVE  /\ sent' = sent \cup {of("delete", target, "gone")} /\ pendingId' = target
               /\ target \in UserIds /\ pendingId # target /\ view = "users"
               /\ shared' = (shared \/ \E s \in sent : s.here /\ s.user # target)
    BY <2>2 DEF Users!Confirm, Users!DialogListens, Users!Send, UserInv, UserTypes, UserRequestInv
  <2> HIDE DEF of
  <2>3. QED
    BY <2>1, <2>2
<1>2. UNCHANGED <<table, view, page, data, summary, status, token, loads, target, behind, turned>>
  BY DEF Users!SaveRole, Users!Confirm, Users!Send
<1> DEFINE q == of(op, u, r)
<1>3. /\ q.op = op /\ q.user = u /\ q.role = r /\ q.at = "sent" /\ q.here /\ q.page = page
      /\ q.back => page > 1
  BY DEF Users!LastOfPage
<1>4. q \in UserRequest
  <2>1. page \in Nat /\ Users!LastOfPage \in BOOLEAN
    BY DEF UserInv, UserTypes, Users!LastOfPage
  <2>2. QED
    BY <2>1 DEF UserRequest
<1> HIDE DEF q, of
<1>5. sent' = sent \cup {q}
  BY <1>1 DEF q
<1>6. UserTypes'
  BY <1>1, <1>2, <1>4, <1>5 DEF UserInv, UserTypes
<1>7. UserRequestInv'
  BY <1>1, <1>2, <1>3, <1>5 DEF UserInv, UserRequestInv
<1>8. \A d : ShownCurrent(d)' <=> ShownCurrent(d)
  BY <1>2, <1>3, <1>5, CurrentIsKept
<1>9. UserLoadInv' /\ UserListInv'
  BY <1>1, <1>2, <1>8 DEF UserInv, UserLoadInv, UserListInv, Users!Cancelled
<1>10. QED
  BY <1>6, <1>7, <1>9 DEF UserInv

LEMMA UserCarryOut ==
  ASSUME UserInv, NEW s \in sent, Users!CarryOut(s)
  PROVE  UserInv'
<1> DEFINE done == [s EXCEPT !.at = "done"]
<1>1. /\ s \in UserRequest /\ s.user \in UserIds /\ s.at = "sent" /\ table[s.user] # "gone"
      /\ done \in UserRequest /\ done.at = "done" /\ done.op = s.op /\ done.user = s.user
      /\ done.role = s.role /\ done.here = s.here /\ done.back = s.back /\ done.page = s.page
  BY DEF UserInv, UserTypes, UserRequest, Users!CarryOut
<1>2. /\ table' = [table EXCEPT ![s.user] = s.role]
      /\ sent' = (sent \ {s}) \cup {t \in {done} : s.here}
      /\ behind' = (behind \/ ~s.here)
      /\ UNCHANGED <<view, page, data, summary, status, token, loads, pendingId, target, shared,
                     turned>>
  BY DEF Users!CarryOut
<1> HIDE DEF done
<1>3. UserTypes'
  <2>1. s.role \in Users!Roles \cup {"gone"}
    BY <1>1 DEF UserRequest
  <2>2. QED
    BY <1>1, <1>2, <2>1 DEF UserInv, UserTypes
<1>4. UserRequestInv'
  BY <1>1, <1>2 DEF UserInv, UserRequestInv
<1>5. UserLoadInv'
  BY <1>2 DEF UserInv, UserLoadInv, Users!Cancelled
<1>6. ASSUME s.here, ~shared, NEW d, ShownCurrent(d) PROVE ShownCurrent(d)'
  <2>1. /\ view = "users" /\ \A t \in sent : t.here => t = s
        /\ \A t \in sent : t.at = "done" => t.here
    BY <1>6 DEF UserInv, UserRequestInv
  <2>2. d = {Users!Listed(table, page)}
    BY <1>1, <1>6, <2>1 DEF ShownCurrent, PageCurrent
  <2>3. \A t \in sent' : t.at = "done" => t = done
    BY <1>2, <2>1
  <2>4. ASSUME s.op = "role" PROVE Users!Patched(d, done) = {Users!Listed(table', page)}
    <3>1. s.role # "gone"
      BY <2>4 DEF UserInv, UserRequestInv, Users!Roles
    <3>2. /\ \A v \in UserIds \ {s.user} : table'[v] = table[v]
          /\ table'[s.user] = s.role
      BY <1>1, <1>2 DEF UserInv, UserTypes
    <3>3. QED
      BY <1>1, <2>2, <3>1, <3>2, PatchedPage
  <2>5. done \in sent'
    BY <1>2, <1>6
  <2>6. PageCurrent(d)'
    BY <1>1, <1>2, <2>3, <2>4, <2>5 DEF PageCurrent
  <2>7. QED
    BY <1>2, <2>1, <2>6 DEF ShownCurrent
<1>7. UserListInv'
  BY <1>2, <1>6 DEF UserInv, UserListInv, Users!Cancelled
<1>8. QED
  BY <1>3, <1>4, <1>5, <1>7 DEF UserInv

LEMMA UserGoWrong ==
  ASSUME UserInv, NEW s \in sent, Users!GoWrong(s)
  PROVE  UserInv'
<1>1. /\ sent' = sent \ {s} /\ behind' = (behind \/ s.at = "done")
      /\ pendingId' = IF s.here THEN 0 ELSE pendingId
      /\ UNCHANGED <<table, view, page, data, summary, status, token, loads, target, shared, turned>>
  BY DEF Users!GoWrong
<1>2. UserTypes'
  BY <1>1 DEF UserInv, UserTypes
<1>3. UserRequestInv'
  BY <1>1 DEF UserInv, UserRequestInv
<1>4. UserLoadInv'
  BY <1>1 DEF UserInv, UserLoadInv, Users!Cancelled
<1>5. ASSUME s.at # "done" PROVE \A d : ShownCurrent(d)' <=> ShownCurrent(d)
  BY <1>1, <1>5, CurrentIsKept
<1>6. UserListInv'
  BY <1>1, <1>5 DEF UserInv, UserListInv, Users!Cancelled
<1>7. QED
  BY <1>2, <1>3, <1>4, <1>6 DEF UserInv

LEMMA UserRoleSaved ==
  ASSUME UserInv, NEW s \in sent, Users!OnRoleSaved(s)
  PROVE  UserInv'
<1>1. /\ s.op = "role" /\ s.at = "done" /\ sent' = sent \ {s} /\ pendingId' = 0
      /\ data' = Users!Patched(data, s)
      /\ behind' = (behind \/ table[s.user] \notin {s.role, "gone"}
                           \/ \E l \in loads : ~Users!Cancelled(l) /\ l.seen # Users!None)
      /\ UNCHANGED <<table, view, page, summary, status, token, loads, target, shared, turned>>
  BY DEF Users!OnRoleSaved
<1>2. /\ s.here /\ view = "users"
      /\ ~shared => \A t \in sent : t.here => t = s
      /\ \A t \in sent : t.at = "done" => t.here
  BY <1>1 DEF UserInv, UserRequestInv
<1>3. UserTypes'
  BY <1>1 DEF UserInv, UserTypes
<1>4. UserRequestInv'
  BY <1>1, <1>2 DEF UserInv, UserRequestInv
<1>5. UserLoadInv'
  BY <1>1 DEF UserInv, UserLoadInv, Users!Cancelled
<1>6. ASSUME ~shared, ~turned, ~behind', status = "ready"
      PROVE  ShownCurrent(IF view = "users" THEN data ELSE summary)'
  <2>1. PageCurrent(data)
    BY <1>1, <1>2, <1>6 DEF UserInv, UserListInv, ShownCurrent
  <2>2. data' = {Users!Listed(table, page)}
    BY <1>1, <1>6, <2>1 DEF PageCurrent
  <2>3. \A t \in sent' : t.at # "done"
    BY <1>1, <1>2, <1>6
  <2>4. QED
    BY <1>1, <1>2, <2>2, <2>3 DEF ShownCurrent, PageCurrent
<1>7. UserListInv'
  BY <1>1, <1>2, <1>6 DEF UserListInv, Users!Cancelled
<1>8. QED
  BY <1>3, <1>4, <1>5, <1>7 DEF UserInv

LEMMA UserDeleted ==
  ASSUME UserInv, NEW s \in sent, Users!OnDeleted(s)
  PROVE  UserInv'
<1>1. /\ s.op = "delete" /\ s.at = "done" /\ sent' = sent \ {s} /\ pendingId' = 0 /\ target' = 0
      /\ UNCHANGED <<table, view, data, summary, behind, shared, turned>>
  BY DEF Users!OnDeleted
<1>2. /\ s \in UserRequest /\ s.here /\ view = "users"
      /\ s.back => s.page > 1
      /\ ~shared /\ s.back /\ ~turned => s.page = page
      /\ ~shared => \A t \in sent : t.here => t = s
  BY <1>1 DEF UserInv, UserTypes, UserRequestInv
<1>3. page \in Nat /\ s.page \in Nat
  BY <1>2 DEF UserInv, UserTypes, UserRequest
<1>4. UserRequestInv'
  <2>1. \A t \in sent' : t \in sent /\ ~(t.here /\ ~shared)
    BY <1>1, <1>2
  <2>2. QED
    BY <1>1, <2>1 DEF UserInv, UserRequestInv
<1>5. CASE s.back /\ s.page - 1 = page
  <2>1. (shared \/ turned) /\ status' = "loading" /\ UNCHANGED <<page, token, loads>>
    BY <1>2, <1>3, <1>5 DEF Users!OnDeleted, Users!GoToPage
  <2>2. UserTypes'
    BY <1>1, <2>1 DEF UserInv, UserTypes
  <2>3. UserLoadInv' /\ UserListInv'
    BY <1>1, <2>1 DEF UserInv, UserLoadInv, UserListInv, Users!Cancelled
  <2>4. QED
    BY <1>4, <2>2, <2>3 DEF UserInv
<1>6. CASE ~(s.back /\ s.page - 1 = page)
  <2>1. PICK p \in Nat : p = page' /\ Users!Fetch("users", p)
    <3>1. CASE s.back
      BY <1>2, <1>3, <1>6, <3>1 DEF Users!OnDeleted, Users!GoToPage
    <3>2. CASE ~s.back
      BY <1>2, <1>3, <3>2 DEF Users!OnDeleted, Users!Reload
    <3>3. QED
      BY <3>1, <3>2
  <2>2. /\ token' \in Nat /\ status' = "loading" /\ UserLoadInv' /\ UserListInv'
        /\ \A l \in loads' : /\ l = [token |-> l.token, view |-> l.view, page |-> l.page,
                                      seen |-> l.seen]
                              /\ l.token \in Nat /\ l.token <= token'
    BY <1>1, <1>2, <2>1, UserFetch
  <2>3. UserTypes'
    BY <1>1, <2>1, <2>2 DEF UserInv, UserTypes
  <2>4. QED
    BY <1>4, <2>2, <2>3 DEF UserInv
<1>7. QED
  BY <1>5, <1>6

(* What the screen does by itself, and what it asks for anew. *)
LEMMA UserControls ==
  ASSUME UserInv, (\E u \in UserIds : Users!AskDelete(u)) \/ Users!Dismiss
  PROVE  UserInv'
<1>1. UNCHANGED <<table, view, page, data, summary, status, token, loads, pendingId, sent,
                  behind, shared, turned>>
  BY DEF Users!AskDelete, Users!Dismiss
<1>2. UserTypes' /\ UserRequestInv'
  <2>1. \/ target' \in UserIds /\ view = "users"
        \/ target' = 0
    BY DEF Users!AskDelete, Users!RowOffers, Users!Dismiss, Users!DialogListens
  <2>2. \A s \in sent : s.user \in UserIds /\ s.user # 0
    BY IdsArePositive DEF UserInv, UserTypes, UserRequest, Users!UsersAreIds
  <2>3. QED
    BY <1>1, <2>1, <2>2 DEF UserInv, UserTypes, UserRequestInv
<1>3. \A d : ShownCurrent(d)' <=> ShownCurrent(d)
  BY <1>1, CurrentIsKept
<1>4. UserLoadInv' /\ UserListInv'
  BY <1>1, <1>3 DEF UserInv, UserLoadInv, UserListInv, Users!Cancelled
<1>5. QED
  BY <1>2, <1>4 DEF UserInv

LEMMA UserRenewal ==
  ASSUME UserInv, Users!RetryUsers \/ Users!RetrySummary \/ Users!Turn \/ Users!Visit
  PROVE  UserInv'
<1>1. page \in Nat /\ view \in {"users", "summary"} /\ turned \in BOOLEAN
  BY DEF UserInv, UserTypes
<1>2. /\ view' \in {"users", "summary"}
      /\ \E p \in Nat : p = page' /\ Users!Fetch(view', p)
      /\ target' \in {0, target} /\ turned' \in BOOLEAN
      /\ UNCHANGED <<table, behind, shared>>
  <2>1. CASE Users!RetryUsers \/ Users!RetrySummary
    BY <1>1, <2>1 DEF Users!RetryUsers, Users!RetrySummary, Users!Reload
  <2>2. CASE Users!Turn
    <3>1. PICK p \in {page - 1, page + 1} :
            p \in Nat /\ Users!GoToPage(p) /\ view = "users"
            /\ UNCHANGED <<table, view, target, behind, shared>> /\ turned' \in BOOLEAN
      BY <1>1, <2>2 DEF Users!Turn
    <3>2. p # page
      BY <1>1, <3>1
    <3>3. QED
      BY <1>1, <3>1, <3>2 DEF Users!GoToPage
  <2>3. CASE Users!Visit
    BY <1>1, <2>3 DEF Users!Visit
  <2>4. QED
    BY <2>1, <2>2, <2>3
<1>3. /\ token' \in Nat /\ status' = "loading" /\ UserLoadInv' /\ UserListInv'
      /\ \A l \in loads' : /\ l = [token |-> l.token, view |-> l.view, page |-> l.page,
                                    seen |-> l.seen]
                            /\ l.token \in Nat /\ l.token <= token'
  BY <1>2, UserFetch
<1>4. sent' \subseteq UserRequest /\ UserRequestInv'
  <2>1. CASE Users!RetryUsers \/ Users!RetrySummary
    BY <2>1 DEF Users!RetryUsers, Users!RetrySummary, Users!Reload, UserInv, UserTypes,
                UserRequestInv
  <2>2. CASE Users!Turn
    <3>1. /\ view = "users"
          /\ UNCHANGED <<view, sent, target, pendingId, shared>>
          /\ turned' = (turned \/ \E s \in sent : s.here /\ s.op = "delete" /\ s.back)
      BY <2>2 DEF Users!Turn
    <3>2. \A s \in sent : s.user \in UserIds /\ s.user # 0
      BY IdsArePositive DEF UserInv, UserTypes, UserRequest, Users!UsersAreIds
    <3>3. QED
      BY <3>1, <3>2 DEF UserInv, UserTypes, UserRequestInv
  <2>3. CASE Users!Visit
    <3>1. target' = 0
      BY <2>3 DEF Users!Visit
    <3>2. ASSUME NEW t \in sent'
          PROVE  /\ t \in UserRequest /\ ~t.here /\ t.at = "sent"
                 /\ t.op = "role" => t.role \in Users!Roles
                 /\ t.back => t.page > 1
      <4>1. PICK s \in sent : s.at = "sent" /\ t = [s EXCEPT !.here = FALSE]
        BY <2>3 DEF Users!Visit
      <4>2. /\ s \in UserRequest
            /\ s.op = "role" => s.role \in Users!Roles
            /\ s.back => s.page > 1
        BY DEF UserInv, UserTypes, UserRequestInv
      <4>3. QED
        BY <4>1, <4>2 DEF UserRequest
    <3>3. QED
      BY <3>1, <3>2 DEF UserRequestInv
  <2>4. QED
    BY <2>1, <2>2, <2>3
<1>5. UserTypes'
  BY <1>2, <1>3, <1>4 DEF UserInv, UserTypes
<1>6. QED
  BY <1>3, <1>4, <1>5 DEF UserInv

LEMMA UserNext == UserInv /\ [Users!Next]_(Users!vars) => UserInv'
<1> SUFFICES ASSUME UserInv, [Users!Next]_(Users!vars) PROVE UserInv'
  OBVIOUS
<1>1. CASE UNCHANGED Users!vars
  BY <1>1 DEF Users!vars, UserInv, UserTypes, UserRequestInv, UserLoadInv, UserListInv,
              ShownCurrent, PageCurrent, Users!Cancelled
<1>2. ASSUME NEW l \in loads, Users!OnLoad(l) PROVE UserInv'
  BY <1>2, UserRead, UserAnswer DEF Users!OnLoad
<1>3. ASSUME NEW s \in sent, Users!OnReply(s) PROVE UserInv'
  BY <1>3, UserCarryOut, UserGoWrong, UserRoleSaved, UserDeleted DEF Users!OnReply
<1>4. ASSUME NEW u \in UserIds,
             Users!AskDelete(u) \/ \E r \in Users!Roles : Users!SaveRole(u, r)
      PROVE  UserInv'
  BY <1>4, UserControls, UserSends
<1>5. ASSUME \/ Users!RetryUsers \/ Users!RetrySummary \/ Users!Turn \/ Users!Dismiss
             \/ Users!Confirm \/ Users!Visit
      PROVE  UserInv'
  BY <1>5, UserControls, UserSends, UserRenewal
<1>6. QED
  BY <1>1, <1>2, <1>3, <1>4, <1>5 DEF Users!Next

LEMMA UserPromises ==
  ASSUME UserInv
  PROVE  Users!ScreenCatchesUp /\ Users!DeletesTakeTurns
<1>1. ASSUME Users!Quiet, ~shared, ~turned, status = "ready", ~behind
      PROVE  IF view = "users" THEN data = {Users!Listed(table, page)}
             ELSE summary = {Users!Counted(table)}
  BY <1>1 DEF UserInv, UserListInv, ShownCurrent, PageCurrent, Users!Quiet
<1>2. Users!Quiet /\ ~shared /\ ~turned => status # "loading"
  BY DEF UserInv, UserLoadInv, Users!Quiet
<1>3. Users!DeletesTakeTurns
  BY DEF UserInv, UserRequestInv, Users!DeletesTakeTurns
<1>4. QED
  BY <1>1, <1>2, <1>3 DEF Users!ScreenCatchesUp

-----------------------------------------------------------------------------
(* Cities, stores and contact groups.                                        *)

Handler == [op : Contacts!Ops, by : 1..MaxMounts, in : 1..MaxMounts,
            at : {"asked", "changed", "fetching"}, left : SUBSET Contacts!Tabs,
            saw : [Contacts!Tabs -> Nat]]

ContactTypes ==
  /\ table \in [Contacts!Tabs -> Nat] /\ shown \in [Contacts!Tabs -> Nat]
  /\ status \in {"loading", "ready", "error"} /\ tab \in Contacts!Tabs
  /\ mounts \in 1..MaxMounts /\ mount \in 1..mounts
  /\ form \in {Contacts!Closed} \cup [mount : 1..mounts, for : {"new", "s1", "s2"}]
  /\ dialog \in BOOLEAN /\ jobs \subseteq Handler /\ \A j \in jobs : j.by <= mounts
  /\ made \in [Contacts!Mounts -> Nat] /\ mislaid \subseteq Contacts!Mounts
  /\ crossed \in BOOLEAN

(* A component has one handler under way; a removal is its section's own, and as long as    *)
(* the section is there and has not been answered its dialog is open.                       *)
Removals == {"remove city", "remove store"}
HandlerInv ==
  /\ \A i, j \in jobs : i.by = j.by => i = j
  /\ \A j \in jobs : j.op \in Removals =>
       /\ j.by = j.in
       /\ j.at = "asked" /\ j.in = mount => dialog

(* A list is the server's, or a handler whose change was made has yet to ask for the lists. *)
ListCurrent(lists, t) ==
  lists[t] = table[t] \/ \E i \in jobs : i.at = "changed" /\ Contacts!Changes(i.op) = t

(* Fetches that do not cross. *)
FetchInv ==
  ~crossed =>
    /\ \A i, j \in jobs : Contacts!Fetching(i) /\ Contacts!Fetching(j) => i = j
    /\ \A j \in jobs : Contacts!Fetching(j) =>
         \A t \in Contacts!Tabs \ j.left : ListCurrent(j.saw, t)
    /\ (\A j \in jobs : ~Contacts!Fetching(j)) =>
         \A t \in Contacts!Tabs : ListCurrent(shown, t)

(* A form that added its store is gone, or busy until it is. *)
Adding(m) == \E j \in jobs : j.by = m /\ j.op = "add store" /\ j.at # "asked"
AddingInv ==
  /\ \A m \in Contacts!Mounts \ mislaid :
       /\ made[m] <= 1
       /\ made[m] = 1 => form.mount # m \/ Adding(m)
  /\ \A m \in Contacts!Mounts : m = 0 \/ m > mounts => made[m] = 0
  /\ \A j \in jobs : j.op = "add store" =>
       /\ j.at = "asked" /\ j.by \notin mislaid => made[j.by] = 0
       /\ j.in = mount \/ form.mount # j.by

ContactInv == ContactTypes /\ HandlerInv /\ FetchInv /\ AddingInv

LEMMA ContactInit == Contacts!Init => ContactInv
<1> SUFFICES ASSUME Contacts!Init PROVE ContactInv
  OBVIOUS
<1>1. /\ Contacts!Unread \in [Contacts!Tabs -> Nat]
      /\ [m \in Contacts!Mounts |-> 0] \in [Contacts!Mounts -> Nat]
      /\ "cities" \in Contacts!Tabs /\ 1 \in 1..MaxMounts
  BY SectionIsMounted DEF Contacts!Unread, Contacts!Tabs, Contacts!MountsArePositive
<1>2. ContactTypes
  <2>1. /\ table = Contacts!Unread /\ shown = Contacts!Unread /\ status = "loading"
        /\ tab = "cities" /\ mount = 1 /\ mounts = 1 /\ form = Contacts!Closed /\ dialog = FALSE
        /\ jobs = {} /\ made = [m \in Contacts!Mounts |-> 0] /\ mislaid = {} /\ crossed = FALSE
    BY DEF Contacts!Init
  <2>2. mounts \in 1..MaxMounts /\ mount \in 1..mounts
    <3>1. 1 \in 1..1
      OBVIOUS
    <3>2. QED
      BY <1>1, <2>1, <3>1
  <2>3. form \in {Contacts!Closed} \cup [mount : 1..mounts, for : {"new", "s1", "s2"}]
    BY <2>1
  <2>4. /\ table \in [Contacts!Tabs -> Nat] /\ shown \in [Contacts!Tabs -> Nat]
        /\ made \in [Contacts!Mounts -> Nat]
    BY <1>1, <2>1
  <2>5. QED
    BY <1>1, <2>1, <2>2, <2>3, <2>4 DEF ContactTypes
<1>3. HandlerInv /\ FetchInv
  BY DEF Contacts!Init, HandlerInv, FetchInv, ListCurrent
<1>4. AddingInv
  BY DEF Contacts!Init, AddingInv
<1>5. QED
  BY <1>2, <1>3, <1>4 DEF ContactInv

(* A handler is where it was in its component, its section and what it is to do. *)
Onward(j, k) == k \in Handler /\ k.op = j.op /\ k.by = j.by /\ k.in = j.in

(* A handler that goes on: what it waits for, and the dialog, are left to the step itself. *)
LEMMA HandlerGoesOn ==
  ASSUME ContactInv, NEW j \in jobs, NEW k, Onward(j, k), k.at # "asked",
         jobs' = (jobs \ {j}) \cup {k},
         UNCHANGED <<mount, mounts>>
  PROVE  /\ jobs' \subseteq Handler /\ \A i \in jobs' : i.by <= mounts'
         /\ \A i \in jobs' : i # k => i \in jobs /\ i # j /\ i.by # j.by
         /\ (\A i \in jobs : i.op \in Removals /\ i.at = "asked" /\ i.in = mount /\ i # j => dialog')
              => HandlerInv'
BY DEF ContactInv, ContactTypes, HandlerInv, Onward

LEMMA ContactStarts ==
  ASSUME ContactInv,
         \/ Contacts!AddCity \/ Contacts!SaveGroup \/ Contacts!SubmitStore \/ Contacts!Remove
  PROVE  ContactInv'
<1> DEFINE of(op, m) == [op |-> op, by |-> m, in |-> mount, at |-> "asked", left |-> {},
                         saw |-> Contacts!Unread]
<1>1. PICK op \in Contacts!Ops, m \in {mount, form.mount} :
        /\ jobs' = jobs \cup {of(op, m)} /\ ~Contacts!Busy(m)
        /\ op \in Removals => dialog /\ m = mount
        /\ op = "add store" => m = form.mount
        /\ m = mount \/ form # Contacts!Closed
  <2>1. CASE Contacts!AddCity
    BY <2>1 DEF Contacts!AddCity, Contacts!Start, Contacts!Ops, Removals
  <2>2. CASE Contacts!SaveGroup
    BY <2>2 DEF Contacts!SaveGroup, Contacts!Start, Contacts!Ops, Removals
  <2>3. CASE Contacts!SubmitStore
    BY <2>3 DEF Contacts!SubmitStore, Contacts!Start, Contacts!Ops, Removals, Contacts!MaySubmit
  <2>4. CASE Contacts!Remove
    BY <2>4 DEF Contacts!Remove, Contacts!Start, Contacts!Ops, Removals, Contacts!DialogListens
  <2>5. QED
    BY <2>1, <2>2, <2>3, <2>4
<1>2. UNCHANGED <<table, shown, status, tab, mount, mounts, form, dialog, made, mislaid, crossed>>
  BY DEF Contacts!AddCity, Contacts!SaveGroup, Contacts!SubmitStore, Contacts!Remove
<1>3. m \in 1..mounts /\ mounts \in 1..MaxMounts /\ mount \in 1..mounts
  BY <1>1 DEF ContactInv, ContactTypes
<1> DEFINE h == of(op, m)
<1>4. h \in Handler /\ h.op = op /\ h.by = m /\ h.in = mount /\ h.at = "asked"
  <2>1. Contacts!Unread \in [Contacts!Tabs -> Nat] /\ m \in 1..MaxMounts /\ mount \in 1..MaxMounts
    BY <1>3, SectionIsMounted DEF Contacts!Unread, Contacts!MountsArePositive
  <2>2. QED
    BY <2>1 DEF Handler
<1>5. jobs' = jobs \cup {h} /\ \A j \in jobs : j.by # m
  BY <1>1 DEF Contacts!Busy
<1> HIDE DEF h, of
<1>6. ContactTypes'
  BY <1>2, <1>3, <1>4, <1>5 DEF ContactInv, ContactTypes
<1>7. HandlerInv'
  BY <1>1, <1>2, <1>4, <1>5 DEF ContactInv, HandlerInv
<1>8. \A lists : \A t \in Contacts!Tabs : ListCurrent(lists, t)' <=> ListCurrent(lists, t)
  BY <1>2, <1>4, <1>5 DEF ListCurrent
<1>9. FetchInv'
  BY <1>2, <1>4, <1>5, <1>8 DEF ContactInv, FetchInv, Contacts!Fetching
<1>10. \A n : Adding(n)' <=> Adding(n)
  BY <1>4, <1>5 DEF Adding
<1>11. op = "add store" /\ m \notin mislaid => made[m] = 0
  <2>1. m \in Contacts!Mounts /\ made[m] \in Nat
    BY <1>3, SectionIsMounted DEF ContactInv, ContactTypes, Contacts!Mounts,
                                  Contacts!MountsArePositive
  <2>2. ~Adding(m) /\ (op = "add store" => m = form.mount)
    BY <1>1, <1>5 DEF Adding
  <2>3. ASSUME op = "add store", m \notin mislaid PROVE made[m] = 0
    <3>1. m = form.mount
      BY <2>2, <2>3
    <3>2. made[m] <= 1 /\ made[m] # 1
      BY <2>1, <2>2, <2>3, <3>1 DEF ContactInv, AddingInv
    <3>3. QED
      BY <2>1, <3>2
  <2>4. QED
    BY <2>3
<1>12. AddingInv'
  BY <1>2, <1>4, <1>5, <1>10, <1>11 DEF ContactInv, AddingInv
<1>13. QED
  BY <1>6, <1>7, <1>9, <1>12 DEF ContactInv

LEMMA ContactChange ==
  ASSUME ContactInv, NEW j \in jobs, Contacts!Change(j)
  PROVE  ContactInv'
<1> DEFINE k == [j EXCEPT !.at = "changed"]
<1>1. /\ j \in Handler /\ j.at = "asked" /\ Onward(j, k) /\ k.at = "changed"
      /\ Contacts!Changes(j.op) \in Contacts!Tabs
  BY DEF ContactInv, ContactTypes, Contacts!Change, Onward, Handler, Contacts!Changes, Contacts!Ops,
         Contacts!Tabs
<1>2. /\ table' = [table EXCEPT ![Contacts!Changes(j.op)] = @ + 1]
      /\ made' = [made EXCEPT ![j.by] = IF j.op = "add store" THEN @ + 1 ELSE @]
      /\ jobs' = (jobs \ {j}) \cup {k}
      /\ UNCHANGED <<shown, status, tab, mount, mounts, form, dialog, mislaid, crossed>>
  BY DEF Contacts!Change, Contacts!Advance
<1> HIDE DEF k
<1>3. /\ j.by \in Contacts!Mounts /\ j.by # 0 /\ j.by <= mounts
       /\ mounts \in Nat
       /\ table \in [Contacts!Tabs -> Nat] /\ made \in [Contacts!Mounts -> Nat]
  BY <1>1, SectionIsMounted DEF ContactInv, ContactTypes, Handler, Contacts!Mounts,
                                Contacts!MountsArePositive
<1>4. /\ jobs' \subseteq Handler /\ \A i \in jobs' : i.by <= mounts'
      /\ \A i \in jobs' : i # k => i \in jobs /\ i # j /\ i.by # j.by
  BY <1>1, <1>2, HandlerGoesOn
<1>5. HandlerInv'
  BY <1>1, <1>2, HandlerGoesOn DEF ContactInv, HandlerInv
<1>6. ContactTypes'
  <2>1. table' \in [Contacts!Tabs -> Nat] /\ made' \in [Contacts!Mounts -> Nat]
    <3>1. Contacts!Changes(j.op) \in Contacts!Tabs
      BY <1>1
    <3>2. table[Contacts!Changes(j.op)] \in Nat /\ made[j.by] \in Nat
      BY <1>3, <3>1
    <3>3. table[Contacts!Changes(j.op)] + 1 \in Nat /\ made[j.by] + 1 \in Nat
      BY <3>2
    <3>4. table' \in [Contacts!Tabs -> Nat]
      BY <1>2, <1>3, <3>1, <3>3
    <3>5. made' \in [Contacts!Mounts -> Nat]
      BY <1>2, <1>3, <3>2, <3>3
    <3>6. QED
      BY <3>4, <3>5
  <2>2. QED
    BY <1>2, <1>4, <2>1 DEF ContactInv, ContactTypes
<1>7. ASSUME NEW lists, NEW t \in Contacts!Tabs, ListCurrent(lists, t)
      PROVE  ListCurrent(lists, t)'
  <2>1. k \in jobs' /\ k.op = j.op
    BY <1>1, <1>2 DEF Onward
  <2>2. CASE t = Contacts!Changes(j.op)
    BY <1>1, <2>1, <2>2 DEF ListCurrent
  <2>3. CASE t # Contacts!Changes(j.op)
    BY <1>1, <1>2, <1>7, <2>3 DEF ListCurrent, ContactInv, ContactTypes
  <2>4. QED
    BY <2>2, <2>3
<1>8. FetchInv'
  BY <1>1, <1>2, <1>4, <1>7 DEF ContactInv, FetchInv, Contacts!Fetching
<1>9. AddingInv'
  <2>1. \A m \in Contacts!Mounts : m # j.by => made'[m] = made[m]
    BY <1>2, <1>3
  <2>2. made'[j.by] = IF j.op = "add store" THEN made[j.by] + 1 ELSE made[j.by]
    BY <1>2, <1>3
  <2>3. \A m : Adding(m) => Adding(m)'
    BY <1>1, <1>2, <1>4 DEF Adding
  <2>4. j.op = "add store" => Adding(j.by)'
    BY <1>1, <1>2 DEF Adding, Onward
  <2>5. j.op = "add store" /\ j.by \notin mislaid => made[j.by] = 0
    BY <1>1 DEF ContactInv, AddingInv
  <2>6. \A m \in Contacts!Mounts \ mislaid :
          made'[m] <= 1 /\ (made'[m] = 1 => form.mount # m \/ Adding(m)')
    <3>1. SUFFICES ASSUME NEW m \in Contacts!Mounts \ mislaid
                   PROVE  made'[m] <= 1 /\ (made'[m] = 1 => form.mount # m \/ Adding(m)')
      OBVIOUS
    <3>2. made[m] <= 1 /\ (made[m] = 1 => form.mount # m \/ Adding(m))
      BY DEF ContactInv, AddingInv
    <3>3. CASE m = j.by /\ j.op = "add store"
      <4>1. made[m] = 0 /\ made'[m] = made[m] + 1 /\ Adding(m)'
        BY <2>2, <2>4, <2>5, <3>3
      <4>2. QED
        BY <4>1
    <3>4. CASE ~(m = j.by /\ j.op = "add store")
      <4>1. made'[m] = made[m]
        BY <2>1, <2>2, <3>4
      <4>2. QED
        BY <2>3, <3>2, <4>1
    <3>5. QED
      BY <3>3, <3>4
  <2>7. \A m \in Contacts!Mounts : m = 0 \/ m > mounts => made'[m] = 0
    <3>1. SUFFICES ASSUME NEW m \in Contacts!Mounts, m = 0 \/ m > mounts PROVE made'[m] = 0
      OBVIOUS
    <3>2. m # j.by
      <4>1. m \in Nat
        BY SectionIsMounted DEF Contacts!Mounts, Contacts!MountsArePositive
      <4>2. QED
        BY <1>3, <3>1, <4>1
    <3>3. made[m] = 0
      BY <3>1 DEF ContactInv, AddingInv
    <3>4. QED
      BY <2>1, <3>2, <3>3
  <2>8. \A i \in jobs' : i.op = "add store" =>
          /\ i.at = "asked" /\ i.by \notin mislaid => made'[i.by] = 0
          /\ i.in = mount \/ form.mount # i.by
    <3>1. ASSUME NEW i \in jobs' PROVE i.by \in Contacts!Mounts
      BY <1>4, SectionIsMounted DEF Handler, Contacts!Mounts, Contacts!MountsArePositive
    <3>2. QED
      BY <1>1, <1>4, <2>1, <3>1 DEF ContactInv, AddingInv, Onward
  <2>9. QED
    BY <1>2, <2>6, <2>7, <2>8 DEF AddingInv
<1>10. QED
  BY <1>5, <1>6, <1>8, <1>9 DEF ContactInv

(* A handler whose change was made goes on with the lists. *)
LEMMA ContactFetches ==
  ASSUME ContactInv, NEW j \in jobs,
         Contacts!Refresh(j) \/ \E t \in Contacts!Tabs : Contacts!Serve(j, t)
  PROVE  ContactInv'
<1> DEFINE k(left, saw) == [op |-> j.op, by |-> j.by, in |-> j.in, at |-> "fetching",
                            left |-> left, saw |-> saw]
<1>1. j \in Handler /\ j.at # "asked"
  BY DEF ContactInv, ContactTypes, Contacts!Refresh, Contacts!Serve, Contacts!Fetching
<1>2. ASSUME NEW left \in SUBSET Contacts!Tabs, NEW saw \in [Contacts!Tabs -> Nat]
      PROVE  Onward(j, k(left, saw))
  BY <1>1 DEF Onward, Handler
<1>3. UNCHANGED <<table, shown, status, tab, mount, mounts, form, made, mislaid>>
  BY DEF Contacts!Refresh, Contacts!Serve
<1>4. PICK left \in SUBSET Contacts!Tabs, saw \in [Contacts!Tabs -> Nat] :
        /\ jobs' = (jobs \ {j}) \cup {k(left, saw)}
        /\ \/ /\ j.at = "changed" /\ left = Contacts!Tabs
              /\ dialog' = (dialog /\ ~(j.op \in Removals /\ j.in = mount))
              /\ crossed' = \E i \in jobs : Contacts!Fetching(i)
           \/ /\ j.at = "fetching" /\ UNCHANGED <<dialog, crossed>>
              /\ \E t \in j.left : left = j.left \ {t} /\ saw = [j.saw EXCEPT ![t] = table[t]]
  <2>1. j.left \in SUBSET Contacts!Tabs /\ j.saw \in [Contacts!Tabs -> Nat]
        /\ table \in [Contacts!Tabs -> Nat]
    BY <1>1 DEF Handler, ContactInv, ContactTypes
  <2>2. CASE Contacts!Refresh(j)
    BY <2>1, <2>2 DEF Contacts!Refresh, Contacts!Advance, Contacts!Awaiting, Removals
  <2>3. ASSUME NEW t \in Contacts!Tabs, Contacts!Serve(j, t)
        PROVE  /\ j.at = "fetching" /\ UNCHANGED <<dialog, crossed>> /\ t \in j.left
               /\ jobs' = (jobs \ {j}) \cup {k(j.left \ {t}, [j.saw EXCEPT ![t] = table[t]])}
               /\ j.left \ {t} \in SUBSET Contacts!Tabs
               /\ [j.saw EXCEPT ![t] = table[t]] \in [Contacts!Tabs -> Nat]
    BY <2>1, <2>3 DEF Contacts!Serve, Contacts!Advance, Contacts!Awaiting, Contacts!Fetching
  <2> HIDE DEF k
  <2>4. QED
    BY <2>2, <2>3
<1> DEFINE n == k(left, saw)
<1>5. /\ Onward(j, n) /\ n.at = "fetching" /\ n.left = left /\ n.saw = saw
      /\ jobs' = (jobs \ {j}) \cup {n}
  BY <1>2, <1>4
<1> HIDE DEF n, k
<1>6. /\ jobs' \subseteq Handler /\ \A i \in jobs' : i.by <= mounts'
      /\ \A i \in jobs' : i # n => i \in jobs /\ i # j /\ i.by # j.by
  BY <1>3, <1>5, HandlerGoesOn
<1>7. HandlerInv'
  <2>1. ASSUME NEW i \in jobs, i.op \in Removals, i.at = "asked", i.in = mount, i # j PROVE dialog'
    <3>1. dialog /\ i.by = i.in /\ i.by # j.by
      BY <2>1 DEF ContactInv, HandlerInv
    <3>2. ~(j.op \in Removals /\ j.in = mount)
      BY <2>1, <3>1 DEF ContactInv, HandlerInv
    <3>3. QED
      BY <1>4, <3>1, <3>2
  <2>2. \A i \in jobs : i.op \in Removals /\ i.at = "asked" /\ i.in = mount /\ i # j => dialog'
    BY <2>1
  <2>3. QED
    BY <1>3, <1>5, <2>2, HandlerGoesOn
<1>8. ContactTypes'
  BY <1>3, <1>4, <1>6 DEF ContactInv, ContactTypes
<1>9. FetchInv'
  <2>1. /\ n \in jobs' /\ Contacts!Fetching(n)
        /\ \A i \in jobs' : Contacts!Fetching(i) => i = n \/ (i \in jobs /\ i # j)
    BY <1>5, <1>6 DEF Contacts!Fetching
  <2>2. CASE j.at = "changed"
    <3>1. left = Contacts!Tabs /\ crossed' = \E i \in jobs : Contacts!Fetching(i)
      BY <1>4, <2>2
    <3>2. QED
      BY <1>5, <2>1, <3>1 DEF FetchInv
  <2>3. CASE j.at = "fetching"
    <3>1. PICK t \in j.left : left = j.left \ {t} /\ saw = [j.saw EXCEPT ![t] = table[t]]
      BY <1>4, <2>3
    <3>2. crossed' = crossed /\ Contacts!Fetching(j)
      BY <1>4, <2>3 DEF Contacts!Fetching
    <3>3. \A lists : \A u \in Contacts!Tabs : ListCurrent(lists, u)' <=> ListCurrent(lists, u)
      BY <1>3, <1>5, <2>3 DEF ListCurrent
    <3>4. ASSUME ~crossed, NEW u \in Contacts!Tabs \ left PROVE ListCurrent(n.saw, u)
      <4>1. j.saw \in [Contacts!Tabs -> Nat]
        BY <1>1 DEF Handler
      <4>2. CASE u = t
        BY <1>5, <3>1, <4>1, <4>2 DEF ListCurrent
      <4>3. CASE u # t
        <5>1. ListCurrent(j.saw, u)
          BY <3>1, <3>2, <3>4, <4>3 DEF ContactInv, FetchInv
        <5>2. n.saw[u] = j.saw[u]
          BY <1>5, <3>1, <4>1, <4>3
        <5>3. QED
          BY <5>1, <5>2 DEF ListCurrent
      <4>4. QED
        BY <4>2, <4>3
    <3>5. ~crossed => \A i \in jobs' : Contacts!Fetching(i) => i = n
      BY <2>1, <3>2 DEF ContactInv, FetchInv
    <3>6. QED
      BY <1>5, <2>1, <3>2, <3>3, <3>4, <3>5 DEF FetchInv
  <2>4. QED
    BY <1>4, <2>2, <2>3
<1>10. AddingInv'
  <2>1. \A m : Adding(m)' <=> Adding(m)
    BY <1>1, <1>5 DEF Adding, Onward
  <2>2. \A i \in jobs' : i.op = "add store" =>
          /\ i.at = "asked" /\ i.by \notin mislaid => made[i.by] = 0
          /\ i.in = mount \/ form.mount # i.by
    BY <1>5, <1>6 DEF ContactInv, AddingInv, Onward
  <2>3. QED
    BY <1>3, <2>1, <2>2 DEF ContactInv, AddingInv
<1>11. QED
  BY <1>7, <1>8, <1>9, <1>10 DEF ContactInv

(* A handler ends. *)
LEMMA ContactEnds ==
  ASSUME ContactInv, NEW j \in jobs, Contacts!Finish(j) \/ Contacts!GoWrong(j)
  PROVE  ContactInv'
<1>1. /\ jobs' = jobs \ {j}
      /\ UNCHANGED <<table, status, tab, mount, mounts, dialog, made>>
      /\ \/ /\ j.at = "fetching" /\ j.left = {} /\ shown' = j.saw
            /\ form' = IF j.op \in {"add store", "change store"} /\ j.in = mount
                       THEN Contacts!Closed ELSE form
            /\ UNCHANGED <<mislaid, crossed>>
         \/ /\ mislaid' = mislaid \cup {m \in {j.by} : j.op = "add store"}
            /\ crossed' = (crossed \/ j.at # "asked")
            /\ UNCHANGED <<shown, form>>
  BY DEF Contacts!Finish, Contacts!GoWrong, Contacts!Fetching
<1>2. /\ j \in Handler /\ j.by \in Contacts!Mounts /\ j.by # 0 /\ Contacts!Closed.mount = 0
      /\ Contacts!Mounts \subseteq Nat
  BY SectionIsMounted DEF ContactInv, ContactTypes, Handler, Contacts!Mounts,
                          Contacts!MountsArePositive, Contacts!Closed
<1>3. ContactTypes'
  BY <1>1, <1>2 DEF ContactInv, ContactTypes, Handler
<1>4. HandlerInv'
  BY <1>1 DEF ContactInv, HandlerInv
<1>5. FetchInv'
  <2>1. j.at # "changed" =>
          \A lists : \A t \in Contacts!Tabs : ListCurrent(lists, t)' <=> ListCurrent(lists, t)
    BY <1>1 DEF ListCurrent
  <2>2. ASSUME ~crossed' PROVE ~crossed /\ j.at # "changed"
    <3>1. CASE j.at = "fetching" /\ crossed' = crossed
      BY <2>2, <3>1
    <3>2. CASE crossed' = (crossed \/ j.at # "asked")
      <4>1. ~(crossed \/ j.at # "asked")
        BY <2>2, <3>2
      <4>2. QED
        BY <4>1
    <3>3. QED
      BY <1>1, <3>1, <3>2
  <2>3. QED
    BY <1>1, <2>1, <2>2 DEF ContactInv, FetchInv, Contacts!Fetching
<1>6. AddingInv'
  <2>1. \A m \in Contacts!Mounts : m # j.by \/ j.op # "add store" => (Adding(m) => Adding(m)')
    BY <1>1 DEF Adding
  <2>2. ASSUME j.op = "add store" PROVE j.by \in mislaid' \/ form'.mount # j.by
    BY <1>1, <1>2, <2>2 DEF ContactInv, AddingInv
  <2>3. form'.mount \in {0, form.mount} /\ mislaid \subseteq mislaid'
    BY <1>1, <1>2
  <2>4. ASSUME NEW m \in Contacts!Mounts \ mislaid'
        PROVE  made[m] <= 1 /\ (made[m] = 1 => form'.mount # m \/ Adding(m)')
    <3>1. made[m] <= 1 /\ (made[m] = 1 => form.mount # m \/ Adding(m))
      BY <2>3, <2>4 DEF ContactInv, AddingInv
    <3>2. m = 0 => made[m] = 0
      BY DEF ContactInv, AddingInv
    <3>3. made[m] = 1 /\ form.mount # m => form'.mount # m
      BY <2>3, <3>2
    <3>4. made[m] = 1 /\ Adding(m) => form'.mount # m \/ Adding(m)'
      BY <2>1, <2>2, <2>4
    <3>5. QED
      BY <3>1, <3>3, <3>4
  <2>5. \A i \in jobs' : i.op = "add store" =>
          /\ i.at = "asked" /\ i.by \notin mislaid' => made[i.by] = 0
          /\ i.in = mount \/ form'.mount # i.by
    <3>1. \A i \in jobs : i.by # 0
      BY DEF ContactInv, ContactTypes, Handler
    <3>2. QED
      BY <1>1, <2>3, <3>1 DEF ContactInv, AddingInv
  <2>6. QED
    BY <1>1, <2>4, <2>5 DEF ContactInv, AddingInv
<1>7. QED
  BY <1>3, <1>4, <1>5, <1>6 DEF ContactInv

(* What the page and its sections do by themselves. *)
LEMMA ContactControls ==
  ASSUME ContactInv,
         \/ \E t \in Contacts!Tabs : Contacts!Choose(t)
         \/ \E for \in {"new", "s1", "s2"} : Contacts!OpenForm(for)
         \/ Contacts!Opened \/ Contacts!CancelForm \/ Contacts!AskRemove \/ Contacts!Dismiss
  PROVE  ContactInv'
<1>1. UNCHANGED <<table, shown, jobs, made, mislaid, crossed>>
  BY DEF Contacts!Choose, Contacts!OpenForm, Contacts!Opened, Contacts!CancelForm,
         Contacts!AskRemove, Contacts!Dismiss
<1>2. /\ mounts \in 1..MaxMounts /\ mount \in 1..mounts /\ Contacts!Closed.mount = 0
      /\ MaxMounts \in Nat
      /\ form \in {Contacts!Closed} \cup [mount : 1..mounts, for : {"new", "s1", "s2"}]
      /\ \A j \in jobs : j.by \in 1..mounts /\ j.by # 0
  BY SectionIsMounted DEF ContactInv, ContactTypes, Handler, Contacts!Closed,
                          Contacts!MountsArePositive
<1>3. \/ UNCHANGED <<mount, mounts, form, dialog, tab>> /\ status' \in {"ready", "error"}
      \/ /\ UNCHANGED <<mount, dialog, tab, status>> /\ mounts' = mounts + 1 /\ mounts < MaxMounts
         /\ \E for \in {"new", "s1", "s2"} : form' = [mount |-> mounts + 1, for |-> for]
      \/ UNCHANGED <<mount, mounts, dialog, tab, status>> /\ form' = Contacts!Closed
      \/ UNCHANGED <<mount, mounts, form, tab, status>> /\ dialog' = TRUE
      \/ /\ UNCHANGED <<mount, mounts, form, tab, status>> /\ dialog' = FALSE
         /\ \A j \in jobs : j.by # mount
      \/ /\ UNCHANGED status /\ dialog' = FALSE /\ tab' \in Contacts!Tabs
         /\ mount' = mounts + 1 /\ mounts' = mounts + 1 /\ mounts < MaxMounts
         /\ form' = Contacts!Closed
  BY DEF Contacts!Choose, Contacts!OpenForm, Contacts!Opened, Contacts!CancelForm,
         Contacts!AskRemove, Contacts!Dismiss, Contacts!DialogListens, Contacts!Busy
<1>4. ContactTypes'
  <2>1. /\ mounts' \in 1..MaxMounts /\ mounts <= mounts' /\ mounts \in Nat /\ mounts' \in Nat
        /\ mount' \in 1..mounts'
    BY <1>2, <1>3
  <2>2. form \in {Contacts!Closed} \cup [mount : 1..mounts', for : {"new", "s1", "s2"}]
    BY <1>2, <2>1
  <2>3. form' \in {Contacts!Closed} \cup [mount : 1..mounts', for : {"new", "s1", "s2"}]
    <3>1. ASSUME NEW for \in {"new", "s1", "s2"}, mounts' = mounts + 1,
                 form' = [mount |-> mounts + 1, for |-> for]
          PROVE  form' \in [mount : 1..mounts', for : {"new", "s1", "s2"}]
      BY <2>1, <3>1
    <3>2. QED
      BY <1>3, <2>2, <3>1
  <2>4. \A j \in jobs : j.by <= mounts'
    BY <1>2, <2>1
  <2>5. status' \in {"loading", "ready", "error"} /\ tab' \in Contacts!Tabs /\ dialog' \in BOOLEAN
    BY <1>3 DEF ContactInv, ContactTypes
  <2>6. QED
    BY <1>1, <2>1, <2>3, <2>4, <2>5 DEF ContactInv, ContactTypes
<1>5. HandlerInv'
  <2>1. \A j \in jobs : j.op \in Removals => j.in # mounts + 1
    BY <1>2 DEF ContactInv, HandlerInv
  <2>2. QED
    BY <1>1, <1>3, <2>1 DEF ContactInv, HandlerInv
<1>6. FetchInv'
  BY <1>1 DEF ContactInv, FetchInv, ListCurrent, Contacts!Fetching
<1>7. AddingInv'
  <2>1. \A m : Adding(m)' <=> Adding(m)
    BY <1>1 DEF Adding
  <2>2. /\ mounts' \in Nat /\ mounts <= mounts'
        /\ mounts \in Nat /\ form'.mount \in {0, form.mount, mounts + 1}
    BY <1>2, <1>3
  <2>3. ASSUME NEW m \in Contacts!Mounts \ mislaid
        PROVE  made[m] <= 1 /\ (made[m] = 1 => form'.mount # m \/ Adding(m)')
    <3>1. made[m] <= 1 /\ (made[m] = 1 => form.mount # m \/ Adding(m))
      BY DEF ContactInv, AddingInv
    <3>2. m = 0 \/ m > mounts => made[m] = 0
      BY DEF ContactInv, AddingInv
    <3>3. made[m] = 1 /\ form.mount # m => form'.mount # m
      BY <2>2, <3>2
    <3>4. QED
      BY <2>1, <3>1, <3>3
  <2>4. \A m \in Contacts!Mounts : m = 0 \/ m > mounts' => made[m] = 0
    <3>1. SUFFICES ASSUME NEW m \in Contacts!Mounts, m = 0 \/ m > mounts' PROVE made[m] = 0
      OBVIOUS
    <3>2. m \in Nat
      BY <1>2 DEF Contacts!Mounts
    <3>3. m = 0 \/ m > mounts
      BY <2>2, <3>1, <3>2
    <3>4. QED
      BY <3>3 DEF ContactInv, AddingInv
  <2>5. ASSUME NEW j \in jobs, j.op = "add store" PROVE j.in = mount' \/ form'.mount # j.by
    <3>1. j.in = mount \/ form.mount # j.by
      BY <2>5 DEF ContactInv, AddingInv
    <3>2. form'.mount # j.by \/ (form' = form /\ mount' = mount)
      BY <1>2, <1>3
    <3>3. QED
      BY <3>1, <3>2
  <2>6. QED
    BY <1>1, <2>3, <2>4, <2>5 DEF ContactInv, AddingInv
<1>8. QED
  BY <1>4, <1>5, <1>6, <1>7 DEF ContactInv

LEMMA ContactNext == ContactInv /\ [Contacts!Next]_(Contacts!vars) => ContactInv'
<1> SUFFICES ASSUME ContactInv, [Contacts!Next]_(Contacts!vars) PROVE ContactInv'
  OBVIOUS
<1>1. CASE UNCHANGED Contacts!vars
  BY <1>1 DEF Contacts!vars, ContactInv, ContactTypes, HandlerInv, FetchInv, ListCurrent,
              Contacts!Fetching, AddingInv, Adding
<1>2. ASSUME NEW j \in jobs, Contacts!OnJob(j) PROVE ContactInv'
  BY <1>2, ContactChange, ContactFetches, ContactEnds DEF Contacts!OnJob
<1>3. ASSUME \/ \E t \in Contacts!Tabs : Contacts!Choose(t)
             \/ \E for \in {"new", "s1", "s2"} : Contacts!OpenForm(for)
             \/ Contacts!Opened \/ Contacts!CancelForm \/ Contacts!AskRemove \/ Contacts!Dismiss
      PROVE  ContactInv'
  BY <1>3, ContactControls
<1>4. ASSUME \/ Contacts!AddCity \/ Contacts!SaveGroup \/ Contacts!SubmitStore \/ Contacts!Remove
      PROVE  ContactInv'
  BY <1>4, ContactStarts
<1>5. QED
  BY <1>1, <1>2, <1>3, <1>4 DEF Contacts!Next

LEMMA ContactPromises ==
  ASSUME ContactInv
  PROVE  Contacts!ListsCatchUp /\ Contacts!DeletesTakeTurns /\ Contacts!AddedOnce
<1>1. ASSUME jobs = {}, ~crossed PROVE shown = table
  <2>1. \A t \in Contacts!Tabs : shown[t] = table[t]
    BY <1>1 DEF ContactInv, FetchInv, ListCurrent
  <2>2. shown \in [Contacts!Tabs -> Nat] /\ table \in [Contacts!Tabs -> Nat]
    BY DEF ContactInv, ContactTypes
  <2>3. QED
    BY <2>1, <2>2
<1>2. Contacts!DeletesTakeTurns
  <2> DEFINE asked(j) == j.op \in Removals /\ j.at = "asked" /\ j.in = mount
  <2>1. \A i, j \in jobs : asked(i) /\ asked(j) => dialog /\ i = j
    BY DEF ContactInv, HandlerInv
  <2>2. QED
    BY <2>1 DEF Contacts!DeletesTakeTurns, Removals
<1>3. Contacts!AddedOnce
  BY DEF ContactInv, AddingInv, Contacts!AddedOnce
<1>4. QED
  BY <1>1, <1>2, <1>3 DEF Contacts!ListsCatchUp

-----------------------------------------------------------------------------
(* The screen that runs.                                                     *)

ScreensInv ==
  /\ part = "products" => ProductInv
  /\ part = "categories" => CategoryInv
  /\ part = "users" => UserInv
  /\ part = "contacts" => ContactInv

LEMMA ScreensInvariant == ScreenSpec => []ScreensInv
<1>1. ScreenInit => ScreensInv
  BY ProductInit, CategoryInit, UserInit, ContactInit DEF ScreenInit, ScreensInv
<1>2. ScreensInv /\ [ScreenNext]_screenVars => ScreensInv'
  <2> SUFFICES ASSUME ScreensInv, [ScreenNext]_screenVars PROVE ScreensInv'
    OBVIOUS
  <2>1. CASE UNCHANGED screenVars
    <3>1. UNCHANGED <<part, Products!vars, Categories!vars, Users!vars, Contacts!vars>>
      BY <2>1 DEF screenVars, listVars, scopeVars, userVars, contactVars, Products!vars,
                  Categories!vars, Users!vars, Contacts!vars
    <3>2. QED
      BY <3>1, ProductNext, CategoryNext, UserNext, ContactNext DEF ScreensInv
  <2>2. CASE part = "products" /\ Products!Next /\ part' = part
    BY <2>2, ProductNext DEF ScreensInv
  <2>3. CASE part = "categories" /\ Categories!Next /\ part' = part
    BY <2>3, CategoryNext DEF ScreensInv
  <2>4. CASE part = "users" /\ Users!Next /\ part' = part
    BY <2>4, UserNext DEF ScreensInv
  <2>5. CASE part = "contacts" /\ Contacts!Next /\ part' = part
    BY <2>5, ContactNext DEF ScreensInv
  <2>6. QED
    BY <2>1, <2>2, <2>3, <2>4, <2>5 DEF ScreenNext
<1>3. QED
  BY <1>1, <1>2, PTL DEF ScreenSpec

(* Whatever the order in which requests, lists and answers overtake each other: once a screen *)
(* has its answers, the list it calls ready is the server's, but for the answers it is known  *)
(* to lose.                                                                                   *)
THEOREM ScreensShowTheServer == ScreenSpec => []ScreensCatchUp
<1>1. ScreensInv => ScreensCatchUp
  BY ProductPromises, CategoryPromises, UserPromises, ContactPromises
     DEF ScreensInv, ScreensCatchUp
<1>2. QED
  BY <1>1, ScreensInvariant, PTL

(* While a deletion that a screen sent is in flight the screen sends no second one and keeps  *)
(* its dialog open, whatever is pressed behind the dialog; on the users' screen as long as its *)
(* rows take turns.                                                                           *)
THEOREM DialogsHold == ScreenSpec => []DeletesTakeTurns
<1>1. ScreensInv => DeletesTakeTurns
  BY ProductPromises, CategoryPromises, UserPromises, ContactPromises
     DEF ScreensInv, DeletesTakeTurns
<1>2. QED
  BY <1>1, ScreensInvariant, PTL

(* A product saved holds what was obtained in its own opening of the form, and a form that    *)
(* adds a store adds one, but for the answers that come when the form is another's.           *)
THEOREM FormsKeepTheirOwn == ScreenSpec => []FormsSaveTheirOwn
<1>1. ScreensInv => FormsSaveTheirOwn
  BY ProductPromises, ContactPromises DEF ScreensInv, FormsSaveTheirOwn
<1>2. QED
  BY <1>1, ScreensInvariant, PTL

=============================================================================
