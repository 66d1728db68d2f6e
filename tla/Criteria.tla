------------------------------ MODULE Criteria ------------------------------
(***************************************************************************)
(* From the sign-up form to a verdict on a listing: parseForm of           *)
(* apps/web/lib/criteria.ts and matches of worker/pipeline/match.py.       *)
(*                                                                         *)
(* An answer in a number field is the whole number it rounds to, or Nil    *)
(* when it is blank or no number.  A criterion is absent when it is Nil,   *)
(* {} or FALSE, which is how the matcher reads an absent one.  The form    *)
(* never sets the matcher's zones, dates or FALSE flags.                   *)
(***************************************************************************)
EXTENDS Integers

CONSTANT Nil   \* no answer, no value

PropertyTypes == {"flat", "house", "studio", "room", "maisonette"}
Furnished == {"furnished", "unfurnished", "part"}
PriceLimit == 20000
BedroomLimit == 10
TenancyLimit == 60

-----------------------------------------------------------------------------
(***************************************************************************)
(* parseForm                                                               *)
(***************************************************************************)

OutOfRange(v, low, high) == v # Nil /\ (v < low \/ v > high)

BadRange(min, max, ceiling) ==
  \/ OutOfRange(min, 0, ceiling)
  \/ OutOfRange(max, 0, ceiling)
  \/ min # Nil /\ max # Nil /\ min > max

\* What throws InvalidForm.
InvalidForm(form, enabled) ==
  \/ BadRange(form.price_min, form.price_max, PriceLimit)
  \/ BadRange(form.bedrooms_min, form.bedrooms_max, BedroomLimit)
  \/ OutOfRange(form.tenancy, 1, TenancyLimit)
  \/ ~(form.districts \subseteq enabled)

\* Types nobody offers are dropped, districts nobody collects for are not.
ParseForm(form) ==
  [price     |-> [min |-> form.price_min, max |-> form.price_max],
   bedrooms  |-> [min |-> form.bedrooms_min, max |-> form.bedrooms_max],
   types     |-> form.types \cap PropertyTypes,
   furnished |-> form.furnished \cap Furnished,
   districts |-> form.districts,
   pets      |-> form.pets,
   bills     |-> form.bills,
   direct    |-> form.direct,
   tenancy   |-> form.tenancy]

-----------------------------------------------------------------------------
(***************************************************************************)
(* matches                                                                 *)
(***************************************************************************)

InRange(range, value) ==
  range.min # Nil \/ range.max # Nil =>
    /\ value # Nil
    /\ range.min # Nil => value >= range.min
    /\ range.max # Nil => value <= range.max

OneOf(wanted, value) == wanted # {} => value \in wanted

\* The flag must be stated; the variant takes silence for consent.
StatedV1(wanted, value) == wanted => value # FALSE
Stated(wanted, value) == wanted => value = TRUE

AtMost(ceiling, value) == ceiling # Nil => value # Nil /\ value <= ceiling

Matches(criteria, listing) ==
  /\ InRange(criteria.price, listing.price)
  /\ InRange(criteria.bedrooms, listing.bedrooms)
  /\ OneOf(criteria.types, listing.type)
  /\ OneOf(criteria.districts, listing.district)
  /\ OneOf(criteria.furnished, listing.furnished)
  /\ Stated(criteria.pets, listing.pets)
  /\ Stated(criteria.bills, listing.bills)
  /\ AtMost(criteria.tenancy, listing.tenancy)
  /\ Stated(criteria.direct, listing.direct)
=============================================================================
