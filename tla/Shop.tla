-------------------------------- MODULE Shop --------------------------------
(***************************************************************************)
(* The administration's tables side by side: categories with the products  *)
(* in them (CategoryTree), prices of shop products (ShopProducts), tags    *)
(* (CatalogTags), and cities with their stores (Contacts).  The tables are *)
(* disjoint and no request touches two of the parts, so each behaviour     *)
(* exercises one and leaves the others in their initial states.            *)
(***************************************************************************)
EXTENDS CategoryTree

CONSTANTS
  ShopIds, Numbers, Skus, Bodies, Patches,  \* of ShopProducts: its ids, values and requests
  Names, Slugs, SlugOf,                     \* of CatalogTags
  Cities, Stores, CityNames, Weeks          \* of Contacts

VARIABLES
  part,                               \* the part that runs
  shopProduct, work, lostUpdate,      \* of ShopProducts
  catalogTag, call,                   \* of CatalogTags
  city, store, hours, job, collided   \* of Contacts

pricingVars == <<shopProduct, work, lostUpdate>>
tagVars     == <<catalogTag, call>>
contactVars == <<city, store, hours, job, collided>>
shopVars    == <<part, vars, pricingVars, tagVars, contactVars>>

Pricing == INSTANCE ShopProducts WITH Products <- ShopIds
Tags    == INSTANCE CatalogTags
Shops   == INSTANCE Contacts

ASSUME PricingConstants ==
  Pricing!NumbersAreNatural /\ Pricing!NoneIsNoValue /\ Pricing!BodiesAreRows
ASSUME TagConstants == Tags!SlugsAreSlugs
ASSUME ContactConstants == Shops!NoneIsNoId

ShopInit ==
  /\ part \in {"categories", "pricing", "tags", "contacts"}
  /\ Init /\ Pricing!Init /\ Tags!Init /\ Shops!Init

ShopNext ==
  \/ part = "categories" /\ Next
     /\ UNCHANGED <<part, pricingVars, tagVars, contactVars>>
  \/ part = "pricing" /\ Pricing!Next
     /\ UNCHANGED <<part, vars, tagVars, contactVars>>
  \/ part = "tags" /\ Tags!Next
     /\ UNCHANGED <<part, vars, pricingVars, contactVars>>
  \/ part = "contacts" /\ Shops!Next
     /\ UNCHANGED <<part, vars, pricingVars, tagVars>>

ShopSpec == ShopInit /\ [][ShopNext]_shopVars

\* Every variable of every part has its type.
ShopTypeOK == TypeOK /\ Pricing!TypeOK /\ Tags!TypeOK /\ Shops!TypeOK

\* ShopProducts: the pricing rules are broken only after an update overtook another.
SaleNeedsRace == Pricing!SaleNeedsRace

\* CatalogTags: every usable name is answered with the tag of its slug.
EnsureIsIdempotent == Tags!EnsureIsIdempotent

\* Contacts: stores keep their city and one week of hours.
StoresWhole == Shops!StoresWhole
=============================================================================
