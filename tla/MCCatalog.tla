----------------------------- MODULE MCCatalog -----------------------------
(* The parts of the catalog: products, images, names, translations, the    *)
(* form of the product page, materials and prices.  None reads the state   *)
(* of another, so a behaviour of this module is one of any part while the  *)
(* others rest.                                                            *)
EXTENDS Products, Media, Names, Translations, ProductForm, Materials, Pricing, TLC

VARIABLE part

catalogVars == <<vars, mediaVars, namesVars, translationVars, formVars,
                 materialsVars, sheet, part>>

Symmetry == Permutations(Request) \cup Permutations(Task)

(* 0 is the word "oak". *)
MCSlugOf == "Oak" :> <<0>> @@ "OAK" :> <<0>> @@ "Oak 2" :> <<0, 2>>

(* 2 is the text 1 with a blank. *)
MCTrim == [f \in Field |-> [v \in Value |-> IF v = 2 THEN 1 ELSE v]]

CatalogInit ==
  /\ part \in {"products", "images", "names", "translations", "form", "materials", "prices"}
  /\ Init /\ MediaInit /\ NamesInit /\ TranslationsInit /\ FormInit
  /\ MaterialsInit /\ PricingInit
  /\ part # "names" => table = "products"

(* The part is at work, or it rests. *)
CatalogNext ==
  /\ UNCHANGED part
  /\ IF part = "products" THEN Next ELSE UNCHANGED vars
  /\ IF part = "images" THEN MediaNext ELSE UNCHANGED mediaVars
  /\ IF part = "names" THEN NamesNext ELSE UNCHANGED namesVars
  /\ IF part = "translations" THEN TranslationsNext ELSE UNCHANGED translationVars
  /\ IF part = "form" THEN FormNext ELSE UNCHANGED formVars
  /\ IF part = "materials" THEN MaterialsNext ELSE UNCHANGED materialsVars
  /\ IF part = "prices" THEN PricingNext ELSE UNCHANGED sheet

CatalogSpec == CatalogInit /\ [][CatalogNext]_catalogVars

(* What names a thing belongs together, however requests overtake each     *)
(* other: the slug with the name, the name with the description.           *)
NamesWhole == SlugsDerive /\ TranslationsWhole
=============================================================================
