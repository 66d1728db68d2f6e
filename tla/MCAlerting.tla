----------------------------- MODULE MCAlerting -----------------------------
(***************************************************************************)
(* Instances of Alerting for TLC.  The pages and the forms differ from a   *)
(* plain one in what matters to one step of the way.                       *)
(***************************************************************************)
EXTENDS Alerting, TLC

CONSTANTS h1, h2, h3

Alike == Permutations(Homes)

Numbers == ("SE16" :> 16) @@ ("E1" :> 1)

Plain(rent) ==
  [rent |-> rent, beds |-> 2, type |-> IF Len(rent) = 1 THEN "flat" ELSE "apartment",
   district |-> "SE16", furnished |-> "part", pets |-> TRUE, bills |-> FALSE, tenancy |-> 6,
   listed |-> "SE16", advert |-> "SE16"]

Bare == <<Figure(1500, "none")>>
Both == <<Figure(1500, "pcm"), Figure(346, "pw")>>

\* A studio, and a silent page that is elsewhere.
Varied(rent) ==
  {Plain(rent),
   [Plain(rent) EXCEPT !.beds = Nil, !.type = "studio", !.bills = TRUE],
   [Plain(rent) EXCEPT !.pets = Nil, !.tenancy = Nil, !.furnished = Nil, !.type = Nil,
                       !.district = "E1", !.advert = Nil]}

SmallPages ==
  [s \in Sources |->
     IF s = "openrent"
     THEN Varied(Bare) \cup {[Plain(Bare) EXCEPT !.beds = Nil, !.type = "room",
                                                 !.pets = FALSE, !.tenancy = 12],
                             [Plain(Bare) EXCEPT !.rent = <<Figure(9, "none")>>]}
     ELSE Varied(Both) \cup {[Plain(Both) EXCEPT !.rent = <<Figure(400, "pw")>>,
                                                 !.type = "terraced house",
                                                 !.beds = Nil],
                             [Plain(Both) EXCEPT !.rent = Bare]}]

Blank ==
  [price_min |-> Nil, price_max |-> Nil, bedrooms_min |-> Nil, bedrooms_max |-> Nil,
   types |-> {}, furnished |-> {}, districts |-> {}, tenancy |-> Nil,
   pets |-> FALSE, bills |-> FALSE, direct |-> FALSE]

SmallForms ==
  {[Blank EXCEPT !.price_min = 1000, !.price_max = 1500, !.pets = TRUE,
                 !.districts = {"SE16"}],
   [Blank EXCEPT !.bedrooms_min = 1, !.bedrooms_max = 2, !.types = {"flat", "house", "castle"},
                 !.furnished = {"part"}],
   [Blank EXCEPT !.bedrooms_max = 0, !.bills = TRUE, !.direct = TRUE, !.tenancy = 6],
   [Blank EXCEPT !.districts = {"N1"}],
   [Blank EXCEPT !.price_min = 2, !.price_max = 1]}
=============================================================================
