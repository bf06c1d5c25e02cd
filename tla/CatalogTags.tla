---------------------------- MODULE CatalogTags -----------------------------
(***************************************************************************)
(* Reusable catalogue tags (CatalogTagsService): creation by name that is  *)
(* idempotent by slug, whoever else creates the same tag meanwhile.        *)
(* Nothing deletes a tag.                                                  *)
(***************************************************************************)
CONSTANTS
  Requests,  \* requests the API serves at the same time
  Names,     \* what an employee types
  Slugs,     \* what normalizeTagSlug makes of it
  SlugOf,    \* normalizeTagSlug: several names share a slug, some have none
  None       \* the empty slug, no tag

\* Whoever instantiates the module assumes this of the constants.
SlugsAreSlugs == SlugOf \in [Names -> Slugs \cup {None}] /\ None \notin Slugs \cup Names

VARIABLES
  catalogTag,  \* catalog_tags: the name of the tag that holds each slug
  call         \* each call of ensure: the stage it is at, its name, and what it answers

vars == <<catalogTag, call>>

NoCall == [at |-> "none", name |-> None, answer |-> None]
Stages == {"find", "create", "again", "ok", "refused", "error"}

\* Every variable has its type.
TypeOK ==
  /\ catalogTag \in [Slugs -> Names \cup {None}]
  /\ call \in [Requests -> {NoCall} \cup [at : Stages, name : Names, answer : Slugs \cup {None}]]

Init ==
  /\ catalogTag = [s \in Slugs |-> None]
  /\ call = [p \in Requests |-> NoCall]

Slug(p) == SlugOf[call[p].name]

Goto(p, stage)  == call' = [call EXCEPT ![p].at = stage]
Answer(p, slug) ==
  call' = [call EXCEPT ![p] = [at |-> "ok", name |-> call[p].name, answer |-> slug]]

\* ensure: a name without a letter or digit is a 400.
Ensure(p, name) ==
  /\ call[p].at \in {"none", "ok", "refused", "error"}
  /\ call' = [call EXCEPT ![p] =
                [at |-> IF SlugOf[name] = None THEN "refused" ELSE "find",
                 name |-> name, answer |-> None]]
  /\ UNCHANGED catalogTag

\* The first findUnique.
Find(p) ==
  /\ call[p].at = "find"
  /\ IF catalogTag[Slug(p)] # None THEN Answer(p, Slug(p)) ELSE Goto(p, "create")
  /\ UNCHANGED catalogTag

AfterConflict_Rethrow == "error"

\* P2002: the catch clause looks again.
AfterConflict == "again"

\* The insert; the unique slug refuses the second one.
CreateTag(p) ==
  /\ call[p].at = "create"
  /\ IF catalogTag[Slug(p)] = None
     THEN /\ catalogTag' = [catalogTag EXCEPT ![Slug(p)] = call[p].name]
          /\ Answer(p, Slug(p))
     ELSE Goto(p, AfterConflict) /\ UNCHANGED catalogTag

\* The second findUnique; an error only if there is no tag after all.
FindAgain(p) ==
  /\ call[p].at = "again"
  /\ IF catalogTag[Slug(p)] # None THEN Answer(p, Slug(p)) ELSE Goto(p, "error")
  /\ UNCHANGED catalogTag

Next ==
  \/ \E p \in Requests, name \in Names : Ensure(p, name)
  \/ \E p \in Requests : Find(p) \/ CreateTag(p) \/ FindAgain(p)

Spec == Init /\ [][Next]_vars

\* "Creation is idempotent by normalized slug": every call with a usable name ends with the
\* tag that holds its slug, never with an error, whoever else creates the tag meanwhile.
EnsureIsIdempotent ==
  \A p \in Requests :
    /\ call[p].at # "error"
    /\ call[p].at = "ok" => call[p].answer = Slug(p) /\ catalogTag[Slug(p)] # None
=============================================================================
