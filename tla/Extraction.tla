----------------------------- MODULE Extraction -----------------------------
(***************************************************************************)
(* From a listing page to a canonical listing: the detail schemas and      *)
(* normalize of worker/sources/openrent.py and rightmove.py, applied by    *)
(* worker/extract/engine.py, with worker/normalize and the verdict of      *)
(* worker/extract/health.py.                                               *)
(*                                                                         *)
(* A page is what a reader finds stated on it, Nil where it says nothing:  *)
(* rent is the figures shown, in order; type is what the site calls the    *)
(* home; the other fields are values.  A text is what text.bedrooms looks  *)
(* for in it.                                                              *)
(***************************************************************************)
EXTENDS Integers, Sequences, FiniteSetsExt

CONSTANTS
  Nil,         \* not stated
  NumberIn,    \* the number in the name of each district
  FillFloor    \* REQUIRED_FILL_FLOOR, in percent

ASSUME FillAssumption == FillFloor \in 0..100
ASSUME NilAssumption ==
  Nil \notin Int \cup BOOLEAN
      \cup [studio : BOOLEAN, number : Int \cup {Nil}, room : BOOLEAN]

Sources == {"openrent", "rightmove"}

Figure(amount, period) == [amount |-> amount, period |-> period]
Text(studio, number, room) == [studio |-> studio, number |-> number, room |-> room]

-----------------------------------------------------------------------------
(***************************************************************************)
(* The schemas, applied                                                    *)
(***************************************************************************)

\* OpenRent's heading: "1 Bed Flat, Craven Street, WC2N", "Studio, ...",
\* "Room in a Shared House, ...".  The first number may be the district's.
Title(page) ==
  Text(page.type = "studio",
       IF page.beds # Nil THEN page.beds
       ELSE IF page.district # Nil THEN NumberIn[page.district] ELSE Nil,
       page.type = "room")

\* The cell "Rent PCM" as it stands; of Rightmove's figures the first with its
\* period.  The variant takes the whole of them.
PriceV1(source, page) == page.rent
Price(source, page) ==
  LET stated == {i \in DOMAIN page.rent : page.rent[i].period # "none"}
  IN IF source = "openrent" THEN page.rent
     ELSE IF stated = {} THEN <<>> ELSE <<page.rent[Min(stated)]>>

\* "1 Bed", "Studio" or "Room" from the heading; Rightmove's reel has a number
\* or nothing.  The variant looks for a number on both.
BedroomsTextV1(source, page) ==
  IF page.beds # Nil THEN Text(FALSE, page.beds, FALSE) ELSE Nil
BedroomsText(source, page) ==
  IF page.beds # Nil THEN Text(FALSE, page.beds, FALSE)
  ELSE IF source = "openrent" /\ page.type \in {"studio", "room"}
  THEN Text(page.type = "studio", Nil, FALSE)
  ELSE Nil

\* Rightmove's schema has no flags and no minimum tenancy.
OnOpenRent(source, value) == IF source = "openrent" THEN value ELSE Nil

Apply(source, page) ==
  [price     |-> Price(source, page),
   bedrooms  |-> BedroomsText(source, page),
   title     |-> Title(page),
   type      |-> page.type,
   district  |-> page.district,
   furnished |-> page.furnished,
   pets      |-> OnOpenRent(source, page.pets),
   bills     |-> OnOpenRent(source, page.bills),
   tenancy   |-> OnOpenRent(source, page.tenancy),
   direct    |-> source = "openrent"]

-----------------------------------------------------------------------------
(***************************************************************************)
(* health.evaluate over the rows of a run, by home: every required field   *)
(* filled in nearly all.  Title and URL always are.  The range checks read *)
(* fields that these rows do not have, and no recent average is given.     *)
(***************************************************************************)

FillsEnough(some, rows) ==
  100 * Cardinality(some) >= FillFloor * Cardinality(DOMAIN rows)

Broken(rows) ==
  \/ DOMAIN rows = {}
  \/ ~FillsEnough({h \in DOMAIN rows : rows[h].price # <<>>}, rows)
  \/ ~FillsEnough({h \in DOMAIN rows : rows[h].bedrooms # Nil}, rows)

-----------------------------------------------------------------------------
(***************************************************************************)
(* normalize                                                               *)
(***************************************************************************)

\* Weekly wins wherever it is written, then monthly; the amount is the first.
Period(text, default) ==
  LET written == {text[i].period : i \in DOMAIN text}
  IN IF "pw" \in written THEN "pw" ELSE IF "pcm" \in written THEN "pcm" ELSE default

\* Whole pounds per calendar month, to the nearest.
Monthly(amount) == (amount * 52 + 6) \div 12

\* Nil where to_pcm raises.
ToPcm(text, default) ==
  IF text = <<>> \/ Period(text, default) = "none" THEN Nil
  ELSE IF Period(text, default) = "pw" THEN Monthly(text[1].amount) ELSE text[1].amount

\* text.bedrooms
Bedrooms(text) ==
  IF text = Nil THEN Nil
  ELSE IF text.studio THEN 0
  ELSE IF text.number # Nil THEN text.number
  ELSE IF text.room THEN 1 ELSE Nil

\* OpenRent falls back to the title when it finds none, or zero.
BedroomCount(source, row) ==
  LET own == Bedrooms(row.bedrooms)
      best == IF source = "openrent" /\ own \in {Nil, 0} THEN Bedrooms(row.title) ELSE own
  IN IF best = Nil THEN 0 ELSE best

\* property_type: an apartment is a flat, but a terraced, a semi-detached or a
\* detached house is not called a house.
PropertyType(type) ==
  CASE type = "apartment" -> "flat"
    [] type = "terraced house" -> "terrace"
    [] type \in {"semi-detached house", "detached house"} -> "detached"
    [] OTHER -> type

Rents == 100..100000

\* The bounds of Listing; the variant has none for the rent.
ValidV1(listing) == listing.price # Nil /\ listing.bedrooms \in 0..20
Valid(listing) ==
  /\ listing.price # Nil /\ listing.price \in Rents
  /\ listing.bedrooms \in 0..20
  /\ listing.tenancy # Nil => listing.tenancy \in 0..120

Normalize(source, row) ==
  [price     |-> ToPcm(row.price, IF source = "openrent" THEN "pcm" ELSE "none"),
   bedrooms  |-> BedroomCount(source, row),
   type      |-> PropertyType(row.type),
   district  |-> row.district,
   furnished |-> row.furnished,
   pets      |-> row.pets,
   bills     |-> row.bills,
   tenancy   |-> row.tenancy,
   direct    |-> row.direct]

-----------------------------------------------------------------------------
(***************************************************************************)
(* The scope: what an advert or a card says of the district.               *)
(***************************************************************************)

InScope(district, scope) == district = Nil \/ district \in scope
=============================================================================
