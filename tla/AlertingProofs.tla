---------------------------- MODULE AlertingProofs ----------------------------
(***************************************************************************)
(* Proofs about Alerting, and so about Extraction and Criteria: for any    *)
(* homes, districts, forms and page sizes, and any pages that a site       *)
(* prints as PagesAssumption says.                                         *)
(***************************************************************************)
EXTENDS Alerting, TLAPS, FiniteSetTheorems, WellFoundedInduction, SequenceTheorems

-----------------------------------------------------------------------------
(***************************************************************************)
(* The rent                                                                *)
(***************************************************************************)

\* The first of some positions.
LEMMA MinOfSome ==
  ASSUME NEW S \in SUBSET Nat, S # {}
  PROVE  Min(S) \in S /\ \A y \in S : Min(S) <= y
<1> DEFINE R == OpToRel(<, Nat)
<1>1. IsWellFoundedOn(R, Nat)
  BY NatLessThanWellFounded
<1> HIDE DEF R
<1>2. PICK n \in S : \A m \in S : ~(<<m, n>> \in R)
  BY <1>1, WFMin
<1>3. \A m \in S : n <= m
  <2> SUFFICES ASSUME NEW m \in S, ~(n <= m) PROVE FALSE
    OBVIOUS
  <2>1. m \in Nat /\ n \in Nat /\ m < n
    OBVIOUS
  <2>2. <<m, n>> \in R
    BY <2>1 DEF R, OpToRel
  <2> QED
    BY <1>2, <2>2
<1> QED
  BY <1>3 DEF Min

Figures == [amount : Nat, period : {"pcm", "pw", "none"}]

\* The figures of one period, and where a rent begins.
Shows(rent, period) == {i \in DOMAIN rent : rent[i].period = period}
Default(s) == IF s = "openrent" THEN "pcm" ELSE "none"

LEMMA PagesAre ==
  ASSUME NEW s \in Sources, NEW p \in Pages[s]
  PROVE  /\ p.rent \in Seq(Figures)
         /\ s = "openrent" => Len(p.rent) <= 1
         /\ \A j \in DOMAIN p.rent : \A i \in 1..j - 1 :
              <<p.rent[i].period, p.rent[j].period>>
                \notin {<<"pcm", "pcm">>, <<"pw", "pw">>, <<"pw", "pcm">>}
         /\ p.beds \in Nat \cup {Nil} /\ p.tenancy \in Nat \cup {Nil}
         /\ p.district # Nil => NumberIn[p.district] \in Nat
BY PagesAssumption DEF Figures

\* A weekly figure makes a whole number of pounds.
LEMMA MonthlyType ==
  ASSUME NEW a \in Nat
  PROVE  Monthly(a) \in Int
BY DEF Monthly

\* Of no figures or one with its period, to_pcm makes nothing or the rent by the
\* month.
LEMMA OneFigure ==
  ASSUME NEW f \in Figures, NEW default
  PROVE  LET price == ToPcm(<<f>>, default)
         IN /\ f.period = "pcm" => price = f.amount
            /\ f.period = "pw" => price = Monthly(f.amount)
            /\ f.period = "none" /\ default = "pcm" => price = f.amount
            /\ f.period = "none" /\ default = "none" => price = Nil
<1> DEFINE t == <<f>>
           written == {t[i].period : i \in DOMAIN t}
<1>1. t # <<>> /\ t[1] = f /\ DOMAIN t = {1}
  OBVIOUS
<1>2. written = {f.period}
  BY <1>1
<1>3. Period(t, default) = IF f.period = "pw" THEN "pw"
                           ELSE IF f.period = "pcm" THEN "pcm" ELSE default
  BY <1>2 DEF Period
<1>4. f.period \in {"pcm", "pw", "none"}
  BY DEF Figures
<1> HIDE DEF t
<1> QED
  BY <1>1, <1>3, <1>4 DEF ToPcm, t

\* What normalize makes of the figures taken from a page.
PriceRead(p) == ToPcm(Price(source, p), Default(source))

\* OpenRent's one figure is the rent.
LEMMA OpenRentRent ==
  ASSUME source = "openrent", NEW p \in Pages[source]
  PROVE  IF Price(source, p) = <<>> THEN StatedRent(p) = {} /\ PriceRead(p) = Nil
         ELSE StatedRent(p) = {PriceRead(p)} /\ PriceRead(p) \in Int
<1>1. p.rent \in Seq(Figures) /\ Len(p.rent) <= 1
  BY PagesAre DEF Sources
<1>2. Price(source, p) = p.rent /\ Default(source) = "pcm"
  BY DEF Price, Default
<1>3. CASE p.rent = <<>>
  <2>1. DOMAIN p.rent = {}
    BY <1>3
  <2>2. StatedRent(p) = {}
    BY <2>1 DEF StatedRent
  <2> QED
    BY <1>2, <1>3, <2>2 DEF PriceRead, ToPcm
<1>4. CASE p.rent # <<>>
  <2>1. Len(p.rent) = 1 /\ DOMAIN p.rent = {1} /\ p.rent[1] \in Figures
    <3>1. Len(p.rent) \in Nat /\ DOMAIN p.rent = 1..Len(p.rent)
      BY <1>1, LenProperties
    <3>2. Len(p.rent) # 0
      BY <1>1, <1>4, EmptySeq, LenProperties
    <3> DEFINE n == Len(p.rent)
    <3>3. n = 1
      <4>1. n \in Nat /\ n <= 1 /\ n # 0
        BY <1>1, <3>1, <3>2
      <4> HIDE DEF n
      <4> QED
        BY <4>1
    <3> QED
      BY <1>1, <3>1, <3>3, ElementOfSeq
  <2> DEFINE f == p.rent[1]
  <2>2. p.rent = <<f>>
    BY <1>1, <2>1
  <2>3. f.period \in {"pcm", "pw", "none"} /\ f.amount \in Nat
    BY <2>1 DEF Figures
  <2>4. \A period \in {"pcm", "pw", "none"} :
          {p.rent[i].amount : i \in {j \in DOMAIN p.rent : p.rent[j].period = period}}
            = IF f.period = period THEN {f.amount} ELSE {}
    BY <2>1
  <2>5. /\ f.period = "pcm" => StatedRent(p) = {f.amount}
        /\ f.period = "none" => StatedRent(p) = {f.amount}
    BY <2>4 DEF StatedRent
  <2>6. f.period = "pw" => StatedRent(p) = {Monthly(f.amount)}
    BY <2>4 DEF StatedRent
  <2>7. PriceRead(p) = ToPcm(<<f>>, "pcm")
    BY <1>2, <2>2 DEF PriceRead
  <2> QED
    BY <1>2, <1>4, <2>1, <2>3, <2>5, <2>6, <2>7, OneFigure, MonthlyType
<1> QED
  BY <1>3, <1>4

\* Rightmove's first figure with its period is the rent: a monthly one, after which
\* no other monthly one comes, or a weekly one, without a monthly one anywhere.
LEMMA RightmoveRent ==
  ASSUME source = "rightmove", NEW p \in Pages[source]
  PROVE  IF Price(source, p) = <<>> THEN StatedRent(p) = {} /\ PriceRead(p) = Nil
         ELSE StatedRent(p) = {PriceRead(p)} /\ PriceRead(p) \in Int
<1> DEFINE stated == {i \in DOMAIN p.rent : p.rent[i].period # "none"}
           with(period) ==
             {p.rent[i].amount : i \in {j \in DOMAIN p.rent : p.rent[j].period = period}}
<1>1. /\ p.rent \in Seq(Figures)
      /\ \A j \in DOMAIN p.rent : \A i \in 1..j - 1 :
           <<p.rent[i].period, p.rent[j].period>>
             \notin {<<"pcm", "pcm">>, <<"pw", "pw">>, <<"pw", "pcm">>}
  BY PagesAre DEF Sources
<1>2. DOMAIN p.rent = 1..Len(p.rent) /\ Len(p.rent) \in Nat
  BY <1>1, LenProperties
<1>3. \A i \in DOMAIN p.rent : p.rent[i] \in Figures
  BY <1>1, <1>2, ElementOfSeq
<1>4. Price(source, p) = IF stated = {} THEN <<>> ELSE <<p.rent[Min(stated)]>>
  BY DEF Price
<1>5. StatedRent(p) = IF with("pcm") # {} THEN with("pcm")
                      ELSE IF with("pw") # {} THEN {Monthly(a) : a \in with("pw")} ELSE {}
  BY DEF StatedRent
<1>6. Default(source) = "none"
  BY DEF Default
<1>7. CASE stated = {}
  <2>1. with("pcm") = {} /\ with("pw") = {}
    BY <1>7
  <2> QED
    BY <1>4, <1>5, <1>7, <2>1 DEF PriceRead, ToPcm
<1>8. CASE stated # {}
  <2> DEFINE m == Min(stated)
             f == p.rent[m]
  <2>1. m \in stated /\ \A i \in stated : m <= i
    <3>1. stated \in SUBSET Nat
      BY <1>2
    <3> HIDE DEF stated
    <3> QED
      BY <1>8, <3>1, MinOfSome
  <2>p. Price(source, p) = <<f>>
    BY <1>4, <1>8
  <2> HIDE DEF m
  <2>2. m \in Nat /\ m \in DOMAIN p.rent /\ f \in Figures
    BY <1>2, <1>3, <2>1
  <2>3. f.amount \in Nat /\ f.period \in {"pcm", "pw"}
    BY <2>1, <2>2 DEF Figures
  <2>4. PriceRead(p) = ToPcm(<<f>>, "none") /\ Price(source, p) # <<>>
    <3> HIDE DEF f
    <3>1. <<f>> # <<>>
      OBVIOUS
    <3> QED
      BY <1>6, <2>p, <3>1 DEF PriceRead
  <2>5. \A i \in DOMAIN p.rent : p.rent[i].period \in {"pcm", "pw"} => i = m \/ m \in 1..i - 1
    BY <1>2, <2>1, <2>2
  <2>6. CASE f.period = "pcm"
    <3>1. \A i \in DOMAIN p.rent : p.rent[i].period = "pcm" => i = m
      BY <1>1, <2>5, <2>6
    <3>2. with("pcm") = {f.amount}
      BY <2>2, <2>6, <3>1
    <3>3. PriceRead(p) = f.amount
      BY <2>2, <2>4, <2>6, OneFigure
    <3>4. StatedRent(p) = {f.amount}
      <4> HIDE DEF with
      <4> QED
        BY <1>5, <3>2
    <3> QED
      BY <2>3, <2>4, <3>3, <3>4
  <2>7. CASE f.period = "pw"
    <3>1. \A i \in DOMAIN p.rent : p.rent[i].period # "pcm"
      BY <1>1, <2>5, <2>7
    <3>2. \A i \in DOMAIN p.rent : p.rent[i].period = "pw" => i = m
      BY <1>1, <2>5, <2>7
    <3>3. with("pcm") = {} /\ with("pw") = {f.amount}
      BY <2>2, <2>7, <3>1, <3>2
    <3>4. PriceRead(p) = Monthly(f.amount)
      BY <2>2, <2>4, <2>7, OneFigure
    <3> QED
      BY <1>5, <2>3, <2>4, <3>3, <3>4, MonthlyType
  <2> QED
    BY <2>3, <2>6, <2>7
<1> QED
  BY <1>7, <1>8

\* The rent read off a page is the one that it states; without one there is none.
LEMMA RentRead ==
  ASSUME source \in Sources, NEW p \in Pages[source]
  PROVE  IF Price(source, p) = <<>> THEN StatedRent(p) = {} /\ PriceRead(p) = Nil
         ELSE StatedRent(p) = {PriceRead(p)} /\ PriceRead(p) \in Int
<1>1. source = "openrent" \/ source = "rightmove"
  BY DEF Sources
<1> QED
  BY <1>1, OpenRentRent, RightmoveRent

-----------------------------------------------------------------------------
(***************************************************************************)
(* The bedrooms                                                            *)
(***************************************************************************)

\* What is not stated is no number, no flag and no text.
LEMMA NilIsNothing ==
  /\ Nil \notin Int
  /\ Nil # TRUE
  /\ \A studio \in BOOLEAN, number \in Int \cup {Nil}, room \in BOOLEAN :
       Text(studio, number, room) # Nil
<1>1. Nil \notin Int /\ Nil \notin BOOLEAN
      /\ Nil \notin [studio : BOOLEAN, number : Int \cup {Nil}, room : BOOLEAN]
  BY NilAssumption
<1>2. \A studio \in BOOLEAN, number \in Int \cup {Nil}, room \in BOOLEAN :
        Text(studio, number, room)
          \in [studio : BOOLEAN, number : Int \cup {Nil}, room : BOOLEAN]
  BY DEF Text
<1>3. \A studio \in BOOLEAN, number \in Int \cup {Nil}, room \in BOOLEAN :
        Text(studio, number, room) # Nil
  <2> DEFINE Texts == [studio : BOOLEAN, number : Int \cup {Nil}, room : BOOLEAN]
  <2>1. Nil \notin Texts
    BY <1>1
  <2> HIDE DEF Texts
  <2>2. \A studio \in BOOLEAN, number \in Int \cup {Nil}, room \in BOOLEAN :
          Text(studio, number, room) \in Texts
    BY <1>2 DEF Texts
  <2> QED
    BY <2>1, <2>2
<1> QED
  BY <1>1, <1>3

\* The parts of a text, one found and one given.
LEMMA BedroomsOf ==
  ASSUME NEW studio \in BOOLEAN, NEW number \in Int \cup {Nil}, NEW room \in BOOLEAN
  PROVE  Bedrooms(Text(studio, number, room))
           = IF studio THEN 0 ELSE IF number # Nil THEN number ELSE IF room THEN 1 ELSE Nil
<1> DEFINE t == Text(studio, number, room)
<1>1. t # Nil
  BY NilIsNothing
<1>2. t.studio = studio /\ t.number = number /\ t.room = room
  BY DEF Text
<1> HIDE DEF t
<1> QED
  BY <1>1, <1>2 DEF Bedrooms, t

\* The number of bedrooms stored, unless the digits of the district are.
BedsOf(p) ==
  IF p.beds # Nil THEN p.beds ELSE IF source = "openrent" /\ p.type = "room" THEN 1 ELSE 0

\* Where a page names one, or a studio or an OpenRent room, its row has the text.
LEMMA TextIsNil ==
  ASSUME NEW p \in Pages[source], source \in Sources
  PROVE  BedroomsText(source, p) # Nil <=> ShowsBeds(p)
<1>1. p.beds \in Int \cup {Nil} /\ Nil # 0 /\ Nil # 1
  BY PagesAre, NilIsNothing
<1>2. CASE p.beds # Nil
  BY <1>1, <1>2, NilIsNothing DEF BedroomsText, ShowsBeds, Beds
<1>3. CASE p.beds = Nil /\ source = "openrent" /\ p.type \in {"studio", "room"}
  <2>1. BedroomsText(source, p) = Text(p.type = "studio", Nil, FALSE)
    BY <1>3 DEF BedroomsText
  <2>2. (p.type = "studio") \in BOOLEAN
    OBVIOUS
  <2>3. Text(p.type = "studio", Nil, FALSE) # Nil
    BY <2>2, NilIsNothing
  <2> QED
    BY <1>1, <1>3, <2>1, <2>3 DEF ShowsBeds, Beds
<1>4. CASE p.beds = Nil /\ ~(source = "openrent" /\ p.type \in {"studio", "room"})
  BY <1>4 DEF BedroomsText, ShowsBeds, Beds
<1> QED
  BY <1>2, <1>3, <1>4

\* The count that normalize comes to, through the text and, on OpenRent, the title.
LEMMA BedsRead ==
  ASSUME source \in Sources, NEW p \in Pages[source]
  PROVE  LET n == BedroomCount(source, Apply(source, p))
         IN n \in Nat /\ n = IF MadeUp(p) THEN NumberIn[p.district] ELSE BedsOf(p)
<1> DEFINE row == Apply(source, p)
           own == Bedrooms(row.bedrooms)
           titled == Bedrooms(row.title)
<1>1. p.beds \in Nat \cup {Nil} /\ (p.district # Nil => NumberIn[p.district] \in Nat)
  BY PagesAre
<1>2. row.bedrooms = BedroomsText(source, p) /\ row.title = Title(p)
  BY DEF Apply
<1>3. BedroomCount(source, row) =
        LET best == IF source = "openrent" /\ own \in {Nil, 0} THEN titled ELSE own
        IN IF best = Nil THEN 0 ELSE best
  BY DEF BedroomCount
<1>4. p.beds # Nil => own = p.beds
  <2> SUFFICES ASSUME p.beds # Nil PROVE own = p.beds
    OBVIOUS
  <2>1. row.bedrooms = Text(FALSE, p.beds, FALSE)
    BY <1>2 DEF BedroomsText
  <2>2. row.bedrooms # Nil
    <3>1. p.beds \in Int \cup {Nil} /\ FALSE \in BOOLEAN
      BY <1>1
    <3> QED
      BY <2>1, <3>1, NilIsNothing
  <2> QED
    BY <2>1, <2>2 DEF Bedrooms, Text
<1>5. p.beds = Nil /\ source = "openrent" /\ p.type = "studio" => own = 0
  <2> SUFFICES ASSUME p.beds = Nil, source = "openrent", p.type = "studio" PROVE own = 0
    OBVIOUS
  <2>1. row.bedrooms = Text(TRUE, Nil, FALSE)
    BY <1>2 DEF BedroomsText
  <2>2. row.bedrooms # Nil
    BY <2>1, NilIsNothing
  <2> QED
    BY <2>1, <2>2 DEF Bedrooms, Text
<1>6. p.beds = Nil /\ ~(source = "openrent" /\ p.type = "studio") => own = Nil
  <2> SUFFICES ASSUME p.beds = Nil, ~(source = "openrent" /\ p.type = "studio")
               PROVE  own = Nil
    OBVIOUS
  <2>1. row.bedrooms \in {Nil, Text(FALSE, Nil, FALSE)}
    BY <1>2 DEF BedroomsText
  <2> QED
    BY <2>1 DEF Bedrooms, Text
<1>7. titled = IF p.type = "studio" THEN 0
               ELSE IF p.beds # Nil THEN p.beds
               ELSE IF p.district # Nil THEN NumberIn[p.district]
               ELSE IF p.type = "room" THEN 1 ELSE Nil
  <2> DEFINE number == IF p.beds # Nil THEN p.beds
                       ELSE IF p.district # Nil THEN NumberIn[p.district] ELSE Nil
  <2>1. row.title = Text(p.type = "studio", number, p.type = "room")
    BY <1>2 DEF Title
  <2>2. number \in Int \cup {Nil} /\ Nil \notin Int
    BY <1>1, NilIsNothing
  <2>3. (p.type = "studio") \in BOOLEAN /\ (p.type = "room") \in BOOLEAN
    OBVIOUS
  <2>4. titled = IF p.type = "studio" THEN 0
                 ELSE IF number # Nil THEN number
                 ELSE IF p.type = "room" THEN 1 ELSE Nil
    <3> HIDE DEF number, row
    <3> QED
      <4>1. Bedrooms(Text(p.type = "studio", number, p.type = "room"))
              = IF p.type = "studio" THEN 0
                ELSE IF number # Nil THEN number ELSE IF p.type = "room" THEN 1 ELSE Nil
        BY <2>2, <2>3, BedroomsOf
      <4> QED
        BY <2>1, <4>1
  <2> QED
    BY <1>1, <2>2, <2>4
<1>8. source = "openrent" \/ source = "rightmove"
  BY DEF Sources
<1> HIDE DEF row, own, titled
<1>9. CASE p.beds # Nil
  <2>1. ~MadeUp(p) /\ BedsOf(p) = p.beds /\ p.beds \in Nat
    BY <1>1, <1>9 DEF MadeUp, BedsOf
  <2>2. own = p.beds /\ titled \in {0, p.beds}
    BY <1>4, <1>7, <1>9
  <2> QED
    BY <1>3, <1>7, <1>9, <2>1, <2>2, NilIsNothing DEF row
<1>10. CASE p.beds = Nil
  BY <1>1, <1>3, <1>5, <1>6, <1>7, <1>8, <1>10, NilIsNothing DEF row, MadeUp, BedsOf
<1> QED
  BY <1>9, <1>10

-----------------------------------------------------------------------------
(***************************************************************************)
(* The listing, and what it is matched with                                *)
(***************************************************************************)

\* What a run makes of a page.
Listing(p) == Normalize(source, Apply(source, p))

LEMMA ListingIs ==
  ASSUME NEW p
  PROVE  /\ Listing(p).price = PriceRead(p)
         /\ Listing(p).bedrooms = BedroomCount(source, Apply(source, p))
         /\ Listing(p).type = PropertyType(p.type)
         /\ Listing(p).district = p.district
         /\ Listing(p).furnished = p.furnished
         /\ Listing(p).pets = OnOpenRent(source, p.pets)
         /\ Listing(p).bills = OnOpenRent(source, p.bills)
         /\ Listing(p).tenancy = OnOpenRent(source, p.tenancy)
         /\ Listing(p).direct = (source = "openrent")
<1> DEFINE row == Apply(source, p)
<1>1. /\ row.price = Price(source, p)
      /\ row.type = p.type
      /\ row.district = p.district
      /\ row.furnished = p.furnished
      /\ row.pets = OnOpenRent(source, p.pets)
      /\ row.bills = OnOpenRent(source, p.bills)
      /\ row.tenancy = OnOpenRent(source, p.tenancy)
      /\ row.direct = (source = "openrent")
  BY DEF Apply
<1> HIDE DEF row
<1>2. Listing(p) = Normalize(source, row)
  BY DEF Listing, row
<1>3. /\ Listing(p).price = ToPcm(row.price, Default(source))
      /\ Listing(p).bedrooms = BedroomCount(source, row)
      /\ Listing(p).type = PropertyType(row.type)
      /\ Listing(p).district = row.district
      /\ Listing(p).furnished = row.furnished
      /\ Listing(p).pets = row.pets
      /\ Listing(p).bills = row.bills
      /\ Listing(p).tenancy = row.tenancy
      /\ Listing(p).direct = row.direct
  BY <1>2 DEF Normalize, Default
<1> QED
  BY <1>1, <1>3 DEF PriceRead, row

\* A valid listing has the rent that its page states.
LEMMA ValidRent ==
  ASSUME source \in Sources, NEW p \in Pages[source], Valid(Listing(p))
  PROVE  StatedRent(p) = {Listing(p).price} /\ Listing(p).price # Nil
<1>1. Listing(p).price = PriceRead(p)
  BY ListingIs
<1>2. Listing(p).price # Nil
  BY DEF Valid
<1>3. Price(source, p) # <<>>
  BY <1>1, <1>2, RentRead
<1>4. StatedRent(p) = {PriceRead(p)}
  BY <1>3, RentRead
<1> QED
  BY <1>1, <1>2, <1>4

\* One that is not valid is of a page without a rent that a home can have, or an
\* implausible one.
LEMMA InvalidForAReason ==
  ASSUME source \in Sources, NEW p \in Pages[source], ~Valid(Listing(p))
  PROVE  StatedRent(p) \cap Rents = {} \/ Implausible(p)
<1> DEFINE n == BedroomCount(source, Apply(source, p))
<1>1. /\ Listing(p).price = PriceRead(p) /\ Listing(p).bedrooms = n
      /\ Listing(p).tenancy = OnOpenRent(source, p.tenancy)
  BY ListingIs
<1>2. n \in Nat /\ n = IF MadeUp(p) THEN NumberIn[p.district] ELSE BedsOf(p)
  BY BedsRead
<1>3. p.beds \in Nat \cup {Nil} /\ p.tenancy \in Nat \cup {Nil}
  BY PagesAre
<1> HIDE DEF n
<1>4. CASE PriceRead(p) = Nil \/ PriceRead(p) \notin Rents
  <2>1. Nil \notin Rents
    <3>1. Rents \subseteq Int
      BY DEF Rents
    <3> QED
      BY <3>1, NilIsNothing
  <2> QED
    BY <1>4, <2>1, RentRead
<1>5. CASE n \notin 0..20
  <2>1. n > 20
    BY <1>2, <1>5
  <2>2. CASE MadeUp(p)
    BY <1>2, <2>1, <2>2 DEF Implausible
  <2>3. CASE ~MadeUp(p)
    BY <1>2, <1>3, <2>1, <2>3 DEF BedsOf, Implausible
  <2> QED
    BY <2>2, <2>3
<1>6. CASE Listing(p).tenancy # Nil /\ Listing(p).tenancy \notin 0..120
  <2>1. p.tenancy # Nil /\ p.tenancy \notin 0..120
    BY <1>1, <1>6 DEF OnOpenRent
  <2> QED
    BY <1>3, <2>1 DEF Implausible
<1> QED
  BY <1>1, <1>4, <1>5, <1>6 DEF Valid

\* What a page calls a home and what a form asks for meet through property_type.
LEMMA TypeRead ==
  ASSUME NEW called, NEW wanted \in SUBSET PropertyTypes
  PROVE  PropertyType(called) \in wanted <=> \E t \in wanted : called \in Called(t)
<1>1. \A t \in wanted : called \in Called(t) <=> called = t \/ (t = "flat" /\ called = "apartment")
  BY DEF Called
<1>2. wanted \subseteq {"flat", "house", "studio", "room", "maisonette"}
  BY DEF PropertyTypes
<1>3. CASE called = "apartment"
  BY <1>1, <1>2, <1>3 DEF PropertyType
<1>4. CASE called = "terraced house"
  BY <1>1, <1>2, <1>4 DEF PropertyType
<1>5. CASE called \in {"semi-detached house", "detached house"}
  BY <1>1, <1>2, <1>5 DEF PropertyType
<1>6. CASE called \notin {"apartment", "terraced house", "semi-detached house", "detached house"}
  <2>1. PropertyType(called) = called
    BY <1>6 DEF PropertyType
  <2> QED
    BY <1>1, <1>6, <2>1
<1> QED
  BY <1>3, <1>4, <1>5, <1>6

\* The matcher's verdict on a page's listing is a reader's on the page, except on a
\* number of bedrooms that is guessed.
LEMMA MatchIsAnswer ==
  ASSUME source \in Sources, NEW p \in Pages[source], NEW f, Valid(Listing(p))
  PROVE  /\ Matches(ParseForm(f), Listing(p)) => HasTheRest(f, p)
         /\ ~AsksBeds(f) \/ ~Guessed(p) =>
              (Matches(ParseForm(f), Listing(p)) <=> HasTheRest(f, p) /\ HasTheBeds(f, p))
<1> DEFINE c == ParseForm(f)
           l == Listing(p)
           types == f.types \cap PropertyTypes
           furnished == f.furnished \cap Furnished
           says(wanted, value) == ~wanted \/ (source = "openrent" /\ value = TRUE)
<1>1. /\ c.price.min = f.price_min /\ c.price.max = f.price_max
      /\ c.bedrooms.min = f.bedrooms_min /\ c.bedrooms.max = f.bedrooms_max
      /\ c.types = types /\ c.furnished = furnished /\ c.districts = f.districts
      /\ c.pets = f.pets /\ c.bills = f.bills /\ c.direct = f.direct
      /\ c.tenancy = f.tenancy
  BY DEF ParseForm
<1>2. /\ l.type = PropertyType(p.type) /\ l.district = p.district
      /\ l.furnished = p.furnished /\ l.pets = OnOpenRent(source, p.pets)
      /\ l.bills = OnOpenRent(source, p.bills)
      /\ l.tenancy = OnOpenRent(source, p.tenancy)
      /\ l.direct = (source = "openrent")
  BY ListingIs
<1>3. StatedRent(p) = {l.price} /\ l.price # Nil
  BY ValidRent
<1>4. l.bedrooms # Nil /\ (~Guessed(p) => l.bedrooms = Beds(p))
  <2>1. l.bedrooms = BedroomCount(source, Apply(source, p))
    BY ListingIs
  <2>2. l.bedrooms \in Nat /\ (~MadeUp(p) => l.bedrooms = BedsOf(p))
    BY <2>1, BedsRead
  <2>3. ~Guessed(p) => ~MadeUp(p) /\ BedsOf(p) = Beds(p)
    BY DEF Guessed, MadeUp, BedsOf, Beds
  <2> HIDE DEF l
  <2> QED
    BY <2>2, <2>3, NilIsNothing
<1>6. InRange(c.price, l.price) <=>
        /\ f.price_min # Nil => \A r \in StatedRent(p) : r >= f.price_min
        /\ f.price_max # Nil => \A r \in StatedRent(p) : r <= f.price_max
  <2> HIDE DEF c, l
  <2> QED
    BY <1>1, <1>3 DEF InRange
<1>7. ~AsksBeds(f) \/ ~Guessed(p) => (InRange(c.bedrooms, l.bedrooms) <=> HasTheBeds(f, p))
  <2> HIDE DEF c, l
  <2>1. CASE ~AsksBeds(f)
    BY <1>1, <2>1 DEF InRange, AsksBeds, HasTheBeds
  <2>2. CASE AsksBeds(f) /\ ~Guessed(p)
    BY <1>1, <1>4, <2>2 DEF InRange, AsksBeds, HasTheBeds
  <2> QED
    BY <2>1, <2>2
<1>8. OneOf(types, l.type) <=> types = {} \/ \E t \in types : p.type \in Called(t)
  <2>1. types \in SUBSET PropertyTypes
    OBVIOUS
  <2> HIDE DEF types, l
  <2> QED
    BY <1>2, <2>1, TypeRead DEF OneOf
<1>9. /\ OneOf(f.districts, l.district) <=> f.districts = {} \/ p.district \in f.districts
      /\ OneOf(furnished, l.furnished) <=> furnished = {} \/ p.furnished \in furnished
  <2> HIDE DEF furnished, l
  <2> QED
    BY <1>2 DEF OneOf
<1>10. /\ Stated(f.pets, l.pets) <=> says(f.pets, p.pets)
       /\ Stated(f.bills, l.bills) <=> says(f.bills, p.bills)
  <2> HIDE DEF l
  <2>1. CASE source = "openrent"
    BY <1>2, <2>1 DEF OnOpenRent, Stated
  <2>2. CASE source # "openrent"
    BY <1>2, <2>2, NilIsNothing DEF OnOpenRent, Stated
  <2> QED
    BY <2>1, <2>2
<1>11. AtMost(f.tenancy, l.tenancy) <=>
         (f.tenancy # Nil =>
            source = "openrent" /\ p.tenancy # Nil /\ p.tenancy <= f.tenancy)
  <2> HIDE DEF l
  <2> QED
    BY <1>2 DEF OnOpenRent, AtMost
<1>12. Stated(f.direct, l.direct) <=> (f.direct => source = "openrent")
  <2> HIDE DEF l
  <2> QED
    BY <1>2 DEF Stated
<1>13. ASSUME Matches(c, l) PROVE HasTheRest(f, p) /\ InRange(c.bedrooms, l.bedrooms)
  <2>1. /\ InRange(c.price, l.price)
        /\ InRange(c.bedrooms, l.bedrooms)
        /\ OneOf(types, l.type)
        /\ OneOf(f.districts, l.district)
        /\ OneOf(furnished, l.furnished)
        /\ Stated(f.pets, l.pets)
        /\ Stated(f.bills, l.bills)
        /\ AtMost(f.tenancy, l.tenancy)
        /\ Stated(f.direct, l.direct)
    <3> HIDE DEF c, l, types, furnished
    <3> QED
      BY <1>1, <1>13 DEF Matches
  <2>2. /\ f.price_min # Nil => \A r \in StatedRent(p) : r >= f.price_min
        /\ f.price_max # Nil => \A r \in StatedRent(p) : r <= f.price_max
    BY <1>6, <2>1
  <2>4. /\ types = {} \/ \E t \in types : p.type \in Called(t)
        /\ furnished = {} \/ p.furnished \in furnished
        /\ f.districts = {} \/ p.district \in f.districts
    BY <1>8, <1>9, <2>1
  <2>5. says(f.pets, p.pets) /\ says(f.bills, p.bills)
    BY <1>10, <2>1
  <2>6. /\ f.tenancy # Nil =>
             source = "openrent" /\ p.tenancy # Nil /\ p.tenancy <= f.tenancy
        /\ f.direct => source = "openrent"
    BY <1>11, <1>12, <2>1
  <2> QED
    BY <2>1, <2>2, <2>4, <2>5, <2>6 DEF HasTheRest
<1>14. ASSUME HasTheRest(f, p), InRange(c.bedrooms, l.bedrooms) PROVE Matches(c, l)
  <2>1. InRange(c.price, l.price)
    BY <1>6, <1>14 DEF HasTheRest
  <2>2. InRange(c.bedrooms, l.bedrooms)
    BY <1>14
  <2>3. /\ OneOf(types, l.type)
        /\ OneOf(f.districts, l.district)
        /\ OneOf(furnished, l.furnished)
    BY <1>8, <1>9, <1>14 DEF HasTheRest
  <2>4. Stated(f.pets, l.pets) /\ Stated(f.bills, l.bills)
    BY <1>10, <1>14 DEF HasTheRest
  <2>5. AtMost(f.tenancy, l.tenancy) /\ Stated(f.direct, l.direct)
    BY <1>11, <1>12, <1>14 DEF HasTheRest
  <2> HIDE DEF c, l, types, furnished
  <2> QED
    BY <1>1, <2>1, <2>2, <2>3, <2>4, <2>5 DEF Matches
<1> HIDE DEF c, l
<1>15. Matches(c, l) <=> HasTheRest(f, p) /\ InRange(c.bedrooms, l.bedrooms)
  BY <1>13, <1>14
<1> QED
  BY <1>7, <1>15 DEF c, l

-----------------------------------------------------------------------------
(***************************************************************************)
(* The inductive invariant                                                 *)
(***************************************************************************)

TypeInv ==
  /\ source \in Sources
  /\ page \in [Homes -> Pages[source]]
  /\ market \in Seq(Homes)
  /\ \A i, j \in DOMAIN market : market[i] = market[j] => i = j
  /\ broken \in BOOLEAN
  /\ DOMAIN stored \subseteq Homes
  /\ alerted \subseteq handed /\ handed \subseteq DOMAIN stored
  /\ pc \in {"idle", "discover", "collect"}
  /\ mode \in {"hot", "sweep"}
  /\ scope \subseteq Enabled
  /\ tasks \subseteq Homes
  /\ DOMAIN rows \subseteq Homes
  /\ read \subseteq Homes
  /\ owed \subseteq ToSet(market)

\* A run works on homes that are not stored, none is on where none is under way, and
\* a source found broken runs no more.
RunInv ==
  /\ pc = "idle" => tasks = {} /\ rows = Nothing
  /\ broken => pc = "idle"
  /\ (tasks \cup DOMAIN rows) \cap DOMAIN stored = {}
  /\ rows = [h \in DOMAIN rows |-> Apply(source, page[h])]

\* What is stored is what the page makes, and valid; what was read and is not stored
\* is not.
StoredInv ==
  /\ \A h \in DOMAIN stored : stored[h] = Listing(page[h]) /\ Valid(Listing(page[h]))
  /\ \A h \in read \ DOMAIN stored : ~Valid(Listing(page[h]))

\* The subscription is the form's, and the alerts are the matcher's.
MatchInv ==
  /\ criteria = Nil <=> form = Nil
  /\ form # Nil => form \in Forms /\ criteria = ParseForm(form)
  /\ handed # {} => criteria # Nil
  /\ \A h \in handed : h \in alerted <=> Matches(criteria, stored[h])

\* Search pages are asked for in the order of their numbers.
SearchPages == [code : Enabled \cup {Nil}, number : Nat]

IndexInv ==
  /\ index \in Seq(SearchPages)
  /\ \A i \in DOMAIN index : index[i].code = Nil <=> source = "openrent"
  /\ \A i, j \in DOMAIN index :
       i < j /\ index[i].code = index[j].code => index[i].number < index[j].number

\* A home is queued, or will be by a search page still to come: of the search's pages
\* each is still to come or shows only homes before it.
Reached(h) ==
  \/ h \in tasks
  \/ source = "openrent" /\ index # <<>>
  \/ /\ source = "rightmove"
     /\ \A n \in 0..PagesRead(mode) - 1 :
          \/ [code |-> page[h].listed, number |-> n] \in ToSet(index)
          \/ Before(h) >= Offset(n + 1)

ReachedInv ==
  pc = "discover" =>
    \A h \in owed \ DOMAIN stored :
      page[h].listed \in Enabled /\ InScope(page[h].advert, scope) => Reached(h)

IInv ==
  /\ TypeInv /\ RunInv /\ StoredInv /\ MatchInv /\ IndexInv /\ ReachedInv

LEMMA InitInv ==
  ASSUME Init
  PROVE  IInv
<1>1. TypeInv
  <2>1. market \in Seq(Homes) /\ DOMAIN market = {}
    BY DEF Init
  <2>2. DOMAIN stored = {} /\ DOMAIN rows = {}
    BY DEF Init, Nothing
  <2>3. /\ source \in Sources /\ page \in [Homes -> Pages[source]]
        /\ broken \in BOOLEAN /\ pc = "idle" /\ mode = "hot"
        /\ scope = {} /\ tasks = {} /\ read = {} /\ owed = {} /\ alerted = {} /\ handed = {}
    BY DEF Init
  <2> QED
    BY <2>1, <2>2, <2>3 DEF TypeInv
<1>2. RunInv
  BY DEF Init, RunInv, Nothing
<1>3. StoredInv /\ MatchInv
  BY DEF Init, StoredInv, MatchInv, Nothing
<1>4. IndexInv
  BY DEF Init, IndexInv
<1>5. ReachedInv
  BY DEF Init, ReachedInv
<1> QED
  BY <1>1, <1>2, <1>3, <1>4, <1>5 DEF IInv

-----------------------------------------------------------------------------
(***************************************************************************)
(* The market                                                              *)
(***************************************************************************)

\* A home put first moves the others on by one.
LEMMA PutFirst ==
  ASSUME NEW S, NEW s \in Seq(S), NEW x \in S
  PROVE  /\ <<x>> \o s \in Seq(S)
         /\ DOMAIN (<<x>> \o s) = 1..Len(s) + 1
         /\ (<<x>> \o s)[1] = x
         /\ \A i \in DOMAIN s : i + 1 \in DOMAIN (<<x>> \o s) /\ (<<x>> \o s)[i + 1] = s[i]
         /\ \A j \in DOMAIN (<<x>> \o s) :
              j # 1 => j - 1 \in DOMAIN s /\ (<<x>> \o s)[j] = s[j - 1]
<1>1. <<x>> \in Seq(S) /\ Len(<<x>>) = 1 /\ <<x>>[1] = x
  OBVIOUS
<1>2. Len(s) \in Nat /\ DOMAIN s = 1..Len(s)
  BY LenProperties
<1> DEFINE t == <<x>> \o s
<1>3. /\ t \in Seq(S) /\ Len(t) = 1 + Len(s)
      /\ \A i \in 1..1 + Len(s) : t[i] = IF i <= 1 THEN <<x>>[i] ELSE s[i - 1]
  BY <1>1, ConcatProperties
<1>4. DOMAIN t = 1..1 + Len(s)
  BY <1>3, LenProperties
<1> HIDE DEF t
<1>5. /\ t[1] = x
      /\ \A i \in DOMAIN s : i + 1 \in DOMAIN t /\ t[i + 1] = s[i]
      /\ \A j \in DOMAIN t : j # 1 => j - 1 \in DOMAIN s /\ t[j] = s[j - 1]
  BY <1>1, <1>2, <1>3, <1>4
<1> QED
  BY <1>2, <1>3, <1>4, <1>5 DEF t

LEMMA PublishMarket ==
  ASSUME TypeInv, NEW h \in Homes, Publish(h)
  PROVE  /\ market' \in Seq(Homes)
         /\ \A i, j \in DOMAIN market' : market'[i] = market'[j] => i = j
         /\ ToSet(market) \subseteq ToSet(market')
<1>1. market \in Seq(Homes) /\ market' = <<h>> \o market /\ \A i \in DOMAIN market : market[i] # h
  BY DEF TypeInv, Publish, ToSet
<1>2. \A i, j \in DOMAIN market : market[i] = market[j] => i = j
  BY DEF TypeInv
<1>3. Len(market) \in Nat /\ DOMAIN market = 1..Len(market)
  BY <1>1, LenProperties
<1>4. /\ market' \in Seq(Homes) /\ DOMAIN market' = 1..Len(market) + 1
      /\ market'[1] = h
      /\ \A i \in DOMAIN market : i + 1 \in DOMAIN market' /\ market'[i + 1] = market[i]
      /\ \A j \in DOMAIN market' : j # 1 => j - 1 \in DOMAIN market /\ market'[j] = market[j - 1]
  BY <1>1, PutFirst
<1>5. ASSUME NEW i \in DOMAIN market', NEW j \in DOMAIN market', market'[i] = market'[j]
      PROVE  i = j
  <2>1. CASE i # 1 /\ j # 1
    <3>1. i - 1 \in DOMAIN market /\ j - 1 \in DOMAIN market /\ market[i - 1] = market[j - 1]
      BY <1>4, <1>5, <2>1
    <3>2. i - 1 = j - 1 /\ i \in Int /\ j \in Int
      BY <1>2, <1>3, <1>4, <3>1
    <3> QED
      BY <3>2
  <2>2. CASE i = 1 \/ j = 1
    BY <1>1, <1>4, <1>5, <2>2
  <2> QED
    BY <2>1, <2>2
<1>6. ToSet(market) \subseteq ToSet(market')
  BY <1>4 DEF ToSet
<1> QED
  BY <1>4, <1>5, <1>6

\* A home taken out moves the later ones up.
LEMMA WithdrawMarket ==
  ASSUME TypeInv, NEW h \in Homes, Withdraw(h)
  PROVE  /\ market' \in Seq(Homes)
         /\ \A i, j \in DOMAIN market' : market'[i] = market'[j] => i = j
<1>1. market \in Seq(Homes) /\ \A i, j \in DOMAIN market : market[i] = market[j] => i = j
  BY DEF TypeInv
<1>2. PICK k \in DOMAIN market : market' = RemoveAt(market, k)
  BY DEF Withdraw
<1>3. /\ Len(market) \in Nat /\ DOMAIN market = 1..Len(market)
      /\ k \in Int /\ 1 <= k /\ k <= Len(market)
  BY <1>1, <1>2, LenProperties
<1> DEFINE n == Len(market)
           a == SubSeq(market, 1, k - 1)
           b == SubSeq(market, k + 1, n)
<1>4. \A i \in 1..n : market[i] \in Homes
  BY <1>1, ElementOfSeq
<1>5. /\ a \in Seq(Homes) /\ Len(a) = k - 1
      /\ \A i \in 1..k - 1 : a[i] = market[i]
  <2>1. 1 \in Int /\ k - 1 \in Int /\ \A i \in 1..k - 1 : market[i] \in Homes
    BY <1>3, <1>4
  <2>2. /\ a \in Seq(Homes) /\ Len(a) = IF 1 <= k - 1 THEN k - 1 - 1 + 1 ELSE 0
        /\ \A i \in 1..k - 1 - 1 + 1 : a[i] = market[1 + i - 1]
    BY <2>1, SubSeqProperties
  <2> QED
    BY <1>3, <2>2
<1>6. /\ b \in Seq(Homes) /\ Len(b) = n - k
      /\ \A i \in 1..n - k : b[i] = market[k + i]
  <2>1. k + 1 \in Int /\ n \in Int /\ \A i \in k + 1..n : market[i] \in Homes
    BY <1>3, <1>4
  <2>2. /\ b \in Seq(Homes) /\ Len(b) = IF k + 1 <= n THEN n - (k + 1) + 1 ELSE 0
        /\ \A i \in 1..n - (k + 1) + 1 : b[i] = market[k + 1 + i - 1]
    <3> DEFINE m == k + 1
    <3>1. m \in Int /\ n \in Int /\ \A i \in m..n : market[i] \in Homes
      BY <2>1
    <3> HIDE DEF m, n
    <3>2. /\ SubSeq(market, m, n) \in Seq(Homes)
          /\ Len(SubSeq(market, m, n)) = IF m <= n THEN n - m + 1 ELSE 0
          /\ \A i \in 1..n - m + 1 : SubSeq(market, m, n)[i] = market[m + i - 1]
      BY <3>1, SubSeqProperties
    <3> QED
      BY <3>2 DEF m
  <2> HIDE DEF b, n
  <2>3. n - (k + 1) + 1 = n - k /\ (k + 1 <= n \/ n - k = 0)
    BY <1>3 DEF n
  <2>4. \A i \in 1..n - k : k + 1 + i - 1 = k + i
    BY <1>3 DEF n
  <2>5. Len(b) = n - k
    BY <1>3, <2>2, <2>3 DEF n
  <2> QED
    BY <2>2, <2>3, <2>4, <2>5
<1>7. market' = a \o b
  BY <1>2 DEF RemoveAt
<1> HIDE DEF a, b
<1>8. /\ market' \in Seq(Homes) /\ Len(market') = n - 1
      /\ \A i \in 1..n - 1 : market'[i] = IF i <= k - 1 THEN a[i] ELSE b[i - (k - 1)]
  <2>1. /\ a \o b \in Seq(Homes) /\ Len(a \o b) = Len(a) + Len(b)
        /\ \A i \in 1..Len(a) + Len(b) :
             (a \o b)[i] = IF i <= Len(a) THEN a[i] ELSE b[i - Len(a)]
    BY <1>5, <1>6, ConcatProperties
  <2> HIDE DEF n
  <2>2. Len(a) = k - 1 /\ Len(a) + Len(b) = n - 1
    BY <1>3, <1>5, <1>6 DEF n
  <2> QED
    BY <1>7, <2>1, <2>2
<1>9. DOMAIN market' = 1..n - 1
  BY <1>8, LenProperties
<1>10. \A i \in 1..n - 1 :
         /\ i <= k - 1 => market'[i] = market[i]
         /\ i > k - 1 => market'[i] = market[i + 1]
  <2> HIDE DEF n
  <2>1. n \in Nat
    BY <1>3 DEF n
  <2>2. \A i \in 1..n - 1 : i <= k - 1 => market'[i] = market[i]
    BY <1>3, <1>5, <1>8, <2>1
  <2>3. ASSUME NEW i \in 1..n - 1, i > k - 1 PROVE market'[i] = market[i + 1]
    <3>1. i - (k - 1) \in 1..n - k /\ k + (i - (k - 1)) = i + 1 /\ ~(i <= k - 1)
      BY <1>3, <2>1, <2>3
    <3>2. market'[i] = b[i - (k - 1)]
      BY <1>8, <3>1
    <3>3. b[i - (k - 1)] = market[k + (i - (k - 1))]
      BY <1>6, <3>1
    <3> QED
      BY <3>1, <3>2, <3>3
  <2> QED
    BY <2>2, <2>3
<1> HIDE DEF n
<1>11. ASSUME NEW i \in 1..n - 1, NEW j \in 1..n - 1, market'[i] = market'[j]
       PROVE  i = j
  <2> DEFINE from(x) == IF x <= k - 1 THEN x ELSE x + 1
  <2>1. from(i) \in DOMAIN market /\ from(j) \in DOMAIN market
    BY <1>3 DEF n
  <2>2. market[from(i)] = market[from(j)]
    BY <1>3, <1>10, <1>11 DEF n
  <2>3. from(i) = from(j)
    BY <1>1, <2>1, <2>2
  <2> QED
    BY <1>3, <2>3 DEF n
<1> QED
  BY <1>8, <1>9, <1>11

LEMMA MarketHomes ==
  ASSUME TypeInv
  PROVE  ToSet(market) \subseteq Homes
<1>1. market \in Seq(Homes)
  BY DEF TypeInv
<1>2. \A i \in DOMAIN market : market[i] \in Homes
  BY <1>1, ElementOfSeq, LenProperties
<1> QED
  BY <1>2 DEF ToSet

-----------------------------------------------------------------------------
(***************************************************************************)
(* The steps, one invariant at a time                                      *)
(***************************************************************************)

LEMMA TypeStep ==
  ASSUME TypeInv, Next
  PROVE  TypeInv'
<1> USE DEF TypeInv
<1>1. ASSUME NEW h \in Homes, Publish(h) PROVE TypeInv'
  <2>1. /\ market' \in Seq(Homes)
        /\ \A i, j \in DOMAIN market' : market'[i] = market'[j] => i = j
        /\ ToSet(market) \subseteq ToSet(market')
    BY <1>1, PublishMarket
  <2>2. owed' \subseteq ToSet(market')
    BY <1>1, <2>1 DEF Publish, runVars
  <2> QED
    BY <1>1, <2>1, <2>2 DEF Publish, runVars, outVars, ToSet
<1>2. ASSUME NEW h \in Homes, Withdraw(h) PROVE TypeInv'
  <2>1. /\ market' \in Seq(Homes)
        /\ \A i, j \in DOMAIN market' : market'[i] = market'[j] => i = j
    BY <1>2, WithdrawMarket
  <2> QED
    BY <1>2, <2>1 DEF Withdraw, outVars
<1>3. ASSUME NEW f \in Forms, Submit(f) PROVE TypeInv'
  BY <1>3 DEF Submit, runVars, outVars, ToSet
<1>4. ASSUME NEW m \in {"hot", "sweep"}, NEW d \in SUBSET Enabled, Begin(m, d) PROVE TypeInv'
  BY <1>4 DEF Begin, outVars, ToSet
<1>5. CASE GetIndex
  <2>1. tasks' \subseteq Homes
    <3>1. Expand(Head(index)) \subseteq Homes
      BY MarketHomes DEF Expand, Shown
    <3> QED
      BY <1>5, <3>1 DEF GetIndex
  <2> QED
    BY <1>5, <2>1 DEF GetIndex, outVars, ToSet
<1>6. CASE Discovered
  BY <1>6 DEF Discovered, runVars, outVars, ToSet
<1>7. ASSUME NEW h \in Homes, GetPage(h) PROVE TypeInv'
  <2>1. DOMAIN rows' \subseteq Homes
    BY <1>7 DEF GetPage
  <2>2. tasks' \subseteq Homes
    BY <1>7 DEF GetPage
  <2> QED
    BY <1>7, <2>1, <2>2 DEF GetPage, outVars, ToSet
<1>8. CASE MarkBroken
  BY <1>8 DEF MarkBroken, EndRun, outVars, Nothing
<1>9. CASE ReconcileAndMatch
  <2>1. Accepted \subseteq Homes
    BY DEF Accepted
  <2>2. DOMAIN stored' = Accepted \cup DOMAIN stored
    BY <1>9 DEF ReconcileAndMatch
  <2>3. alerted' \subseteq handed' /\ handed' \subseteq Accepted \cup DOMAIN stored
    BY <1>9 DEF ReconcileAndMatch
  <2>4. read' \subseteq Homes
    BY <1>9 DEF ReconcileAndMatch
  <2> QED
    BY <1>9, <2>1, <2>2, <2>3, <2>4 DEF ReconcileAndMatch, EndRun, Nothing
<1> QED
  BY <1>1, <1>2, <1>3, <1>4, <1>5, <1>6, <1>7, <1>8, <1>9 DEF Next

LEMMA RunStep ==
  ASSUME TypeInv, RunInv, Next
  PROVE  RunInv'
<1> USE DEF RunInv
<1>1. ASSUME NEW h \in Homes, Publish(h) PROVE RunInv'
  BY <1>1 DEF Publish, runVars, outVars
<1>2. ASSUME NEW h \in Homes, Withdraw(h) PROVE RunInv'
  BY <1>2 DEF Withdraw, outVars
<1>3. ASSUME NEW f \in Forms, Submit(f) PROVE RunInv'
  BY <1>3 DEF Submit, runVars, outVars
<1>4. ASSUME NEW m \in {"hot", "sweep"}, NEW d \in SUBSET Enabled, Begin(m, d) PROVE RunInv'
  BY <1>4 DEF Begin, outVars
<1>5. CASE GetIndex
  <2>1. Expand(Head(index)) \cap DOMAIN stored = {}
    BY DEF Expand
  <2> QED
    BY <1>5, <2>1 DEF GetIndex, outVars
<1>6. CASE Discovered
  BY <1>6 DEF Discovered, runVars, outVars
<1>7. ASSUME NEW h \in Homes, GetPage(h) PROVE RunInv'
  <2>1. /\ pc = "collect" /\ h \in tasks /\ tasks' = tasks \ {h}
        /\ UNCHANGED <<source, page, broken, pc, stored>>
    BY <1>7 DEF GetPage, outVars
  <2>2. CASE UNCHANGED rows
    BY <2>1, <2>2
  <2>3. CASE rows' = [g \in DOMAIN rows \cup {h} |->
                       IF g = h THEN Apply(source, page[h]) ELSE rows[g]]
    <3>1. DOMAIN rows' = DOMAIN rows \cup {h}
      BY <2>3
    <3>2. \A g \in DOMAIN rows : rows[g] = Apply(source, page[g])
      OBVIOUS
    <3>3. rows' = [g \in DOMAIN rows' |-> Apply(source, page[g])]
      BY <2>3, <3>1, <3>2
    <3> QED
      BY <2>1, <3>1, <3>3
  <2> QED
    BY <1>7, <2>2, <2>3 DEF GetPage
<1>8. CASE MarkBroken
  BY <1>8 DEF MarkBroken, EndRun, Nothing
<1>9. CASE ReconcileAndMatch
  <2>1. pc = "collect" /\ pc' = "idle" /\ tasks' = {} /\ rows' = Nothing /\ UNCHANGED broken
    BY <1>9 DEF ReconcileAndMatch, EndRun, Judged
  <2> QED
    BY <2>1 DEF Nothing
<1> QED
  BY <1>1, <1>2, <1>3, <1>4, <1>5, <1>6, <1>7, <1>8, <1>9 DEF Next

\* What a run keeps has just been made of its page, and it was not stored before.
LEMMA KeptStep ==
  ASSUME TypeInv, RunInv, ReconcileAndMatch
  PROVE  /\ \A h \in DOMAIN rows : rows[h] = Apply(source, page[h])
         /\ Accepted = {h \in DOMAIN rows : Valid(Listing(page[h]))}
         /\ Accepted \cap DOMAIN stored = {}
         /\ DOMAIN stored' = Accepted \cup DOMAIN stored
         /\ \A h \in DOMAIN stored : stored'[h] = stored[h]
         /\ \A h \in Accepted : stored'[h] = Listing(page[h])
<1>1. \A h \in DOMAIN rows : rows[h] = Apply(source, page[h])
  BY DEF RunInv
<1>2. \A h \in DOMAIN rows : Normalize(source, rows[h]) = Listing(page[h])
  BY <1>1 DEF Listing
<1>3. Accepted = {h \in DOMAIN rows : Valid(Listing(page[h]))}
  BY <1>2 DEF Accepted
<1>4. Accepted \cap DOMAIN stored = {}
  BY <1>3 DEF RunInv
<1>5. stored' = [h \in Accepted \cup DOMAIN stored |->
                  IF h \in Accepted THEN Normalize(source, rows[h]) ELSE stored[h]]
  BY DEF ReconcileAndMatch
<1> QED
  BY <1>1, <1>2, <1>3, <1>4, <1>5

LEMMA StoredStep ==
  ASSUME TypeInv, RunInv, StoredInv, Next
  PROVE  StoredInv'
<1>1. CASE ReconcileAndMatch
  <2>1. UNCHANGED <<source, page>> /\ read' = read \cup DOMAIN rows
    BY <1>1 DEF ReconcileAndMatch
  <2>2. \A h : (Listing(page[h]))' = Listing(page[h])
    BY <2>1 DEF Listing
  <2>3. ASSUME NEW h \in DOMAIN stored'
        PROVE  stored'[h] = Listing(page[h]) /\ Valid(Listing(page[h]))
    BY <1>1, KeptStep DEF StoredInv
  <2>4. ASSUME NEW h \in read' \ DOMAIN stored'
        PROVE  ~Valid(Listing(page[h]))
    BY <1>1, <2>1, KeptStep DEF StoredInv
  <2> QED
    BY <2>2, <2>3, <2>4 DEF StoredInv
<1>2. CASE UNCHANGED <<source, page, stored, read>>
  BY <1>2 DEF StoredInv, Listing
<1> QED
  BY <1>1, <1>2 DEF Next, Publish, Withdraw, Submit, Begin, GetIndex, Discovered, GetPage,
     MarkBroken, runVars, outVars

LEMMA MatchStep ==
  ASSUME TypeInv, RunInv, MatchInv, Next
  PROVE  MatchInv'
<1>1. CASE ReconcileAndMatch
  <2>1. UNCHANGED <<criteria, form>>
    BY <1>1 DEF ReconcileAndMatch
  <2>2. CASE criteria = Nil
    <3>1. handed' = handed /\ alerted' = alerted
      BY <1>1, <2>2 DEF ReconcileAndMatch
    <3> QED
      BY <2>1, <2>2, <3>1 DEF MatchInv
  <2>3. CASE criteria # Nil
    <3>1. /\ handed' = handed \cup Accepted
          /\ alerted' = alerted \cup {h \in Accepted : Matches(criteria, stored'[h])}
      BY <1>1, <2>3 DEF ReconcileAndMatch
    <3>2. ASSUME NEW h \in handed' PROVE h \in alerted' <=> Matches(criteria, stored'[h])
      <4>1. CASE h \in handed
        <5>1. h \in DOMAIN stored /\ h \notin Accepted /\ stored'[h] = stored[h]
          BY <1>1, <4>1, KeptStep DEF TypeInv
        <5> QED
          BY <3>1, <4>1, <5>1 DEF MatchInv
      <4>2. CASE h \in Accepted
        <5>1. h \notin alerted
          BY <1>1, <4>2, KeptStep DEF TypeInv
        <5> QED
          BY <3>1, <4>2, <5>1
      <4> QED
        BY <3>1, <3>2, <4>1, <4>2
    <3> QED
      BY <2>1, <2>3, <3>2 DEF MatchInv
  <2> QED
    BY <2>2, <2>3
<1>2. ASSUME NEW f \in Forms, Submit(f) PROVE MatchInv'
  <2>1. f # Nil /\ ParseForm(f) # Nil
    BY FormsAssumption
  <2>2. /\ criteria = Nil /\ criteria' = ParseForm(f) /\ form' = f
        /\ UNCHANGED <<handed, alerted, stored>>
    BY <1>2 DEF Submit, outVars
  <2>3. handed = {}
    BY <2>2 DEF MatchInv
  <2> QED
    BY <2>1, <2>2, <2>3 DEF MatchInv
<1>3. CASE UNCHANGED <<criteria, form, handed, alerted, stored>>
  BY <1>3 DEF MatchInv
<1> QED
  BY <1>1, <1>2, <1>3 DEF Next, Publish, Withdraw, Begin, GetIndex, Discovered, GetPage,
     MarkBroken, runVars, outVars

-----------------------------------------------------------------------------
(***************************************************************************)
(* The search pages of a run                                               *)
(***************************************************************************)

LEMMA Quotient ==
  ASSUME NEW a \in Nat, NEW p \in Nat \ {0}
  PROVE  /\ a \div p \in Int /\ a % p \in 0..p - 1
         /\ a - (a \div p) * p = a % p
<1>1. a \div p \in Int /\ a % p \in Int
  OBVIOUS
<1>2. 0 <= a % p /\ a % p < p
  OBVIOUS
<1>3. a - (a \div p) * p = a % p
  OBVIOUS
<1> QED
  BY <1>1, <1>2, <1>3

\* Quotient and remainder are the only ones.
LEMMA OneQuotient ==
  ASSUME NEW p \in Nat \ {0}, NEW q \in Int, NEW r \in 0..p - 1,
         NEW x \in Int, NEW s \in 0..p - 1, q * p + r = x * p + s
  PROVE  q = x /\ r = s
<1>1. (q - x) * p = s - r
  OBVIOUS
<1>2. ~(q - x >= 1)
  BY <1>1
<1>3. ~(q - x <= -1)
  BY <1>1
<1> QED
  BY <1>1, <1>2, <1>3

LEMMA DividesInto ==
  ASSUME NEW p \in Nat \ {0}, NEW q \in Nat, NEW r \in 0..p - 1
  PROVE  q * p + r \in Nat /\ (q * p + r) \div p = q /\ (q * p + r) % p = r
<1> DEFINE a == q * p + r
<1>1. a \in Nat
  OBVIOUS
<1> HIDE DEF a
<1>2. /\ a \div p \in Int /\ a % p \in 0..p - 1
      /\ a - (a \div p) * p = a % p
  BY <1>1, Quotient
<1> DEFINE x == a \div p
           s == a % p
<1>3. x \in Int /\ s \in 0..p - 1 /\ a = x * p + s
  BY <1>1, <1>2
<1> HIDE DEF x, s
<1>4. q = x /\ r = s
  BY <1>3, OneQuotient DEF a
<1> QED
  BY <1>1, <1>4 DEF a, x, s

\* A quotient of a number below n * p is below n.
LEMMA QuotientBelow ==
  ASSUME NEW p \in Nat \ {0}, NEW n \in Nat, NEW a \in Nat, a < n * p
  PROVE  a \div p \in 0..n - 1
<1> DEFINE q == a \div p
           r == a % p
<1>1. q \in Int /\ r \in 0..p - 1 /\ a - q * p = r
  BY Quotient
<1> HIDE DEF q, r
<1>2. q >= 0
  BY <1>1
<1>3. q < n
  BY <1>1
<1> QED
  BY <1>1, <1>2, <1>3 DEF q

\* The enabled districts in some order, each once.
LEMMA CodesAre ==
  LET codes == SetToSeq(Enabled)
      n == Cardinality(Enabled)
  IN /\ n \in Nat /\ codes \in [1..n -> Enabled] /\ Len(codes) = n
     /\ \A i, j \in 1..n : codes[i] = codes[j] => i = j
     /\ \A c \in Enabled : \E i \in 1..n : codes[i] = c
<1> DEFINE n == Cardinality(Enabled)
           codes == SetToSeq(Enabled)
<1>1. IsFiniteSet(Enabled)
  BY EnabledAssumption
<1>2. n \in Nat /\ ExistsBijection(1..n, Enabled)
  BY <1>1, FS_CardinalityType
<1>3. \E f \in [1..n -> Enabled] : IsInjective(f)
  BY <1>2 DEF ExistsBijection, Bijection, Injection
<1>4. codes \in [1..n -> Enabled] /\ IsInjective(codes)
  BY <1>3 DEF SetToSeq
<1> HIDE DEF codes
<1>5. codes \in Seq(Enabled) /\ Len(codes) = n
  BY <1>2, <1>4
<1>6. \A i, j \in 1..n : codes[i] = codes[j] => i = j
  BY <1>4 DEF IsInjective
<1>7. codes \in Injection(1..n, Enabled)
  BY <1>4 DEF Injection
<1>8. IsFiniteSet(1..n) /\ Cardinality(1..n) = n
  BY <1>2, FS_Interval
<1>9. codes \in Surjection(1..n, Enabled)
  BY <1>1, <1>7, <1>8, FS_Injection
<1>10. \A c \in Enabled : \E i \in 1..n : codes[i] = c
  BY <1>9 DEF Surjection
<1> QED
  BY <1>2, <1>4, <1>5, <1>6, <1>10 DEF codes

LEMMA PagesReadPositive ==
  ASSUME NEW m
  PROVE  PagesRead(m) \in Nat \ {0}
BY SearchAssumption DEF PagesRead

\* Rightmove's search pages: every page of every enabled district, and those of one
\* district in their order.
LEMMA DiscoverOnRightmove ==
  ASSUME source = "rightmove", NEW m
  PROVE  /\ Discover(m) \in Seq([code : Enabled, number : Nat])
         /\ \A i, j \in DOMAIN Discover(m) :
              i < j /\ Discover(m)[i].code = Discover(m)[j].code
                => Discover(m)[i].number < Discover(m)[j].number
         /\ \A c \in Enabled, k \in 0..PagesRead(m) - 1 :
              [code |-> c, number |-> k] \in ToSet(Discover(m))
<1> DEFINE codes == SetToSeq(Enabled)
           n == Cardinality(Enabled)
           p == PagesRead(m)
           all == Discover(m)
<1>1. /\ n \in Nat /\ codes \in [1..n -> Enabled] /\ Len(codes) = n
      /\ \A i, j \in 1..n : codes[i] = codes[j] => i = j
      /\ \A c \in Enabled : \E i \in 1..n : codes[i] = c
  BY CodesAre
<1>2. p \in Nat \ {0}
  BY PagesReadPositive
<1> HIDE DEF codes, n, p
<1>3. all = [i \in 1..n * p |-> [code |-> codes[(i - 1) \div p + 1], number |-> (i - 1) % p]]
  BY <1>1 DEF Discover, codes, p
<1> HIDE DEF all
<1>4. n * p \in Nat
  BY <1>1, <1>2
<1>5. ASSUME NEW i \in 1..n * p
      PROVE  \E q \in 0..n - 1, r \in 0..p - 1 :
               /\ i - 1 = q * p + r
               /\ all[i] = [code |-> codes[q + 1], number |-> r]
  <2> DEFINE a == i - 1
             q == a \div p
             r == a % p
  <2>1. a \in Nat /\ a < n * p
    BY <1>4
  <2>2. all[i] = [code |-> codes[q + 1], number |-> r]
    BY <1>3
  <2> HIDE DEF a
  <2>3. q \in 0..n - 1
    BY <1>1, <1>2, <2>1, QuotientBelow
  <2>4. r \in 0..p - 1 /\ a - q * p = r
    BY <1>2, <2>1, Quotient
  <2> HIDE DEF q, r
  <2>5. a = q * p + r
    BY <1>2, <2>1, <2>3, <2>4
  <2> QED
    BY <2>2, <2>3, <2>4, <2>5 DEF a
<1>6. DOMAIN all = 1..n * p
  BY <1>3
<1>7. ASSUME NEW i \in 1..n * p
      PROVE  all[i] \in [code : Enabled, number : Nat]
  <2>1. PICK q \in 0..n - 1, r \in 0..p - 1 : all[i] = [code |-> codes[q + 1], number |-> r]
    BY <1>5
  <2>2. codes[q + 1] \in Enabled /\ r \in Nat
    BY <1>1, <1>2
  <2> QED
    BY <2>1, <2>2
<1>8. all \in Seq([code : Enabled, number : Nat])
  <2> DEFINE S == [code : Enabled, number : Nat]
             u == n * p
  <2>1. u \in Nat /\ DOMAIN all = 1..u /\ \A i \in 1..u : all[i] \in S
    BY <1>4, <1>6, <1>7
  <2>2. all = [i \in 1..u |-> all[i]]
    BY <1>3, <1>6
  <2> HIDE DEF S, u
  <2>3. all \in [1..u -> S]
    BY <2>1, <2>2
  <2>4. all \in Seq(S)
    BY <2>1, <2>3
  <2> QED
    BY <2>4 DEF S
<1>9. ASSUME NEW i \in 1..n * p, NEW j \in 1..n * p, i < j, all[i].code = all[j].code
      PROVE  all[i].number < all[j].number
  <2>1. PICK qi \in 0..n - 1, ri \in 0..p - 1 :
               i - 1 = qi * p + ri /\ all[i] = [code |-> codes[qi + 1], number |-> ri]
    BY <1>5
  <2>2. PICK qj \in 0..n - 1, rj \in 0..p - 1 :
               j - 1 = qj * p + rj /\ all[j] = [code |-> codes[qj + 1], number |-> rj]
    BY <1>5
  <2>i. /\ qi \in Int /\ qj \in Int /\ qi + 1 \in 1..n /\ qj + 1 \in 1..n
        /\ codes[qi + 1] = codes[qj + 1]
        /\ all[i].number = ri /\ all[j].number = rj
    BY <1>1, <1>9, <2>1, <2>2
  <2>3. qi + 1 = qj + 1
    BY <1>1, <2>i
  <2>4. qi = qj
    BY <2>3, <2>i
  <2>5. ri < rj
    <3>1. qi * p = qj * p
      BY <2>4
    <3> DEFINE t == qi * p
    <3>2. t \in Int /\ i - 1 = t + ri /\ j - 1 = t + rj
      BY <1>2, <2>1, <2>2, <2>i, <3>1
    <3> HIDE DEF t
    <3> QED
      BY <1>2, <1>4, <1>9, <3>2
  <2> QED
    BY <2>5, <2>i
<1>10. ASSUME NEW c \in Enabled, NEW k \in 0..p - 1
       PROVE  [code |-> c, number |-> k] \in ToSet(all)
  <2>1. PICK x \in 1..n : codes[x] = c
    BY <1>1
  <2> DEFINE a == (x - 1) * p + k
  <2>2. x - 1 \in Nat
    BY <1>1
  <2>3. a \in Nat /\ a \div p = x - 1 /\ a % p = k
    BY <1>2, <2>2, DividesInto
  <2>4. a < n * p
    <3>1. (x - 1) * p + p <= n * p
      <4>1. (n - x) * p >= 0
        BY <1>1, <1>2
      <4> QED
        BY <1>1, <1>2, <4>1
    <3> DEFINE t == (x - 1) * p
               u == n * p
    <3>2. t \in Int /\ u \in Int /\ k \in Int /\ k < p /\ t + p <= u
      BY <1>1, <1>2, <2>2, <3>1
    <3> HIDE DEF t, u
    <3>3. t + k < u
      BY <1>2, <3>2
    <3> QED
      BY <3>3 DEF t, u
  <2> HIDE DEF a
  <2>5. a + 1 \in 1..n * p /\ (a + 1) - 1 = a
    BY <1>4, <2>3, <2>4
  <2>6. all[a + 1] = [code |-> codes[((a + 1) - 1) \div p + 1], number |-> ((a + 1) - 1) % p]
    BY <1>3, <2>5
  <2>7. (x - 1) + 1 = x
    BY <1>1
  <2>8. all[a + 1] = [code |-> c, number |-> k]
    BY <2>1, <2>3, <2>5, <2>6, <2>7
  <2> QED
    BY <1>6, <2>5, <2>8 DEF ToSet
<1> QED
  BY <1>6, <1>8, <1>9, <1>10 DEF all, p

\* OpenRent's is one.
LEMMA DiscoverOnOpenRent ==
  ASSUME source = "openrent", NEW m
  PROVE  /\ Discover(m) \in Seq([code : {Nil}, number : Nat])
         /\ DOMAIN Discover(m) = {1}
<1>1. Discover(m) = <<[code |-> Nil, number |-> 0]>>
  BY DEF Discover
<1> QED
  BY <1>1

LEMMA IndexStep ==
  ASSUME TypeInv, IndexInv, Next
  PROVE  IndexInv'
<1>1. ASSUME NEW m \in {"hot", "sweep"}, NEW d \in SUBSET Enabled, Begin(m, d) PROVE IndexInv'
  <2>1. index' = Discover(m) /\ source' = source
    BY <1>1 DEF Begin
  <2>2. CASE source = "openrent"
    <3>1. Discover(m) = <<[code |-> Nil, number |-> 0]>>
      BY <2>2 DEF Discover
    <3>2. [code |-> Nil, number |-> 0] \in SearchPages
      BY DEF SearchPages
    <3>3. /\ index' \in Seq(SearchPages) /\ DOMAIN index' = {1}
          /\ index'[1].code = Nil
      BY <2>1, <3>1, <3>2
    <3>4. \A i, j \in DOMAIN index' : ~(i < j)
      BY <3>3
    <3> QED
      BY <2>1, <2>2, <3>3, <3>4 DEF IndexInv
  <2>3. CASE source = "rightmove"
    <3> DEFINE S == [code : Enabled, number : Nat]
    <3>1. /\ index' \in Seq(S)
          /\ \A i, j \in DOMAIN index' :
               i < j /\ index'[i].code = index'[j].code => index'[i].number < index'[j].number
      BY <2>1, <2>3, DiscoverOnRightmove
    <3>2. S \subseteq SearchPages /\ \A t \in S : t.code # Nil
      BY EnabledAssumption DEF SearchPages
    <3> HIDE DEF S
    <3>3. index' \in Seq(SearchPages)
      BY <3>1, <3>2, SeqMonotonic
    <3>4. \A i \in DOMAIN index' : index'[i] \in S
      BY <3>1, LenProperties, ElementOfSeq
    <3>5. \A i \in DOMAIN index' : index'[i].code # Nil
      BY <3>2, <3>4
    <3>6. source' # "openrent"
      BY <2>1, <2>3
    <3> QED
      BY <3>1, <3>3, <3>5, <3>6 DEF IndexInv
  <2> QED
    BY <2>2, <2>3 DEF TypeInv, Sources
<1>2. CASE GetIndex
  <2>1. index # <<>> /\ index' = Tail(index) /\ source' = source
    BY <1>2 DEF GetIndex
  <2>2. index \in Seq(SearchPages)
    BY DEF IndexInv
  <2>3. /\ index' \in Seq(SearchPages) /\ Len(index') = Len(index) - 1
        /\ \A i \in 1..Len(index') : index'[i] = index[i + 1]
    BY <2>1, <2>2, HeadTailProperties
  <2>4. /\ DOMAIN index = 1..Len(index) /\ Len(index) \in Nat
        /\ DOMAIN index' = 1..Len(index')
    BY <2>2, <2>3, LenProperties
  <2>5. \A i \in DOMAIN index' :
          i \in Int /\ i + 1 \in DOMAIN index /\ index'[i] = index[i + 1]
    BY <2>3, <2>4
  <2>6. \A i \in DOMAIN index' : index'[i].code = Nil <=> source' = "openrent"
    BY <2>1, <2>5 DEF IndexInv
  <2>7. ASSUME NEW i \in DOMAIN index', NEW j \in DOMAIN index', i < j,
               index'[i].code = index'[j].code
        PROVE  index'[i].number < index'[j].number
    <3>1. i + 1 \in DOMAIN index /\ j + 1 \in DOMAIN index /\ i + 1 < j + 1
      BY <2>5, <2>7
    <3> QED
      BY <2>5, <2>7, <3>1 DEF IndexInv
  <2> QED
    BY <2>3, <2>6, <2>7 DEF IndexInv
<1>3. CASE EndRun /\ UNCHANGED source
  <2>1. index' = <<>>
    BY <1>3 DEF EndRun
  <2> QED
    BY <2>1 DEF IndexInv
<1>4. CASE UNCHANGED <<index, source>>
  BY <1>4 DEF IndexInv
<1> QED
  BY <1>1, <1>2, <1>3, <1>4 DEF Next, Publish, Withdraw, Submit, Discovered, GetPage,
     MarkBroken, ReconcileAndMatch, runVars, outVars

-----------------------------------------------------------------------------
(***************************************************************************)
(* Paging                                                                  *)
(***************************************************************************)

\* The homes that the same search shows before one.
Ahead(h) ==
  {g \in ToSet(market) :
     /\ page[g].listed = page[h].listed
     /\ \E i, j \in DOMAIN market : i < j /\ market[i] = g /\ market[j] = h}

LEMMA BeforeType ==
  ASSUME TypeInv, NEW h
  PROVE  IsFiniteSet(Ahead(h)) /\ Before(h) = Cardinality(Ahead(h)) /\ Before(h) \in Nat
<1>1. Ahead(h) \subseteq Homes
  BY MarketHomes DEF Ahead
<1>2. IsFiniteSet(Ahead(h))
  BY <1>1, HomesAssumption, FS_Subset
<1>3. Before(h) = Cardinality(Ahead(h))
  BY DEF Before, Ahead
<1> QED
  BY <1>2, <1>3, FS_CardinalityType

\* A new home puts no other further on.
LEMMA PublishPushes ==
  ASSUME TypeInv, TypeInv', NEW x \in Homes, Publish(x), NEW h
  PROVE  Before(h) \in Nat /\ Before(h)' \in Nat /\ Before(h) <= Before(h)'
<1>1. page' = page /\ market' = <<x>> \o market /\ market \in Seq(Homes)
  BY DEF Publish, TypeInv
<1>2. \A i \in DOMAIN market : i + 1 \in DOMAIN market' /\ market'[i + 1] = market[i]
  BY <1>1, PutFirst
<1>3. DOMAIN market = 1..Len(market) /\ Len(market) \in Nat
  BY <1>1, LenProperties
<1>4. ASSUME NEW g \in Ahead(h) PROVE g \in Ahead(h)'
  <2>1. g \in ToSet(market) /\ page[g].listed = page[h].listed
    BY <1>4 DEF Ahead
  <2>2. PICK i \in DOMAIN market, j \in DOMAIN market :
               i < j /\ market[i] = g /\ market[j] = h
    BY <1>4 DEF Ahead
  <2>3. /\ i + 1 \in DOMAIN market' /\ j + 1 \in DOMAIN market' /\ i + 1 < j + 1
        /\ market'[i + 1] = g /\ market'[j + 1] = h
    BY <1>2, <1>3, <2>2
  <2>4. g \in ToSet(market')
    BY <2>3 DEF ToSet
  <2> QED
    BY <1>1, <2>1, <2>3, <2>4 DEF Ahead
<1>5. Before(h) = Cardinality(Ahead(h)) /\ Before(h) \in Nat
  BY BeforeType
<1>6. /\ IsFiniteSet(Ahead(h)') /\ Before(h)' = Cardinality(Ahead(h)')
      /\ Before(h)' \in Nat
  <2>1. market' \in Seq(Homes)
    BY DEF TypeInv
  <2>2. \A i \in DOMAIN market' : market'[i] \in Homes
    BY <2>1, ElementOfSeq, LenProperties
  <2>3. Ahead(h)' \subseteq Homes
    BY <2>2 DEF Ahead, ToSet
  <2>4. IsFiniteSet(Ahead(h)')
    BY <2>3, HomesAssumption, FS_Subset
  <2>5. Before(h)' = Cardinality(Ahead(h)')
    BY DEF Before, Ahead
  <2> QED
    BY <2>4, <2>5, FS_CardinalityType
<1>7. Ahead(h) \subseteq Ahead(h)'
  BY <1>4
<1>8. Cardinality(Ahead(h)) <= Cardinality(Ahead(h)')
  BY <1>6, <1>7, FS_Subset
<1> QED
  BY <1>5, <1>6, <1>8

LEMMA Offsets ==
  ASSUME NEW n \in Nat
  PROVE  /\ Offset(n) \in Nat /\ Offset(0) = 0
         /\ Offset(n + 1) = Offset(n) + PageSize /\ PageSize \in Nat \ {0}
BY SearchAssumption DEF Offset

\* A search page asked for shows the home, or is not the one that it is on: then
\* the home is further on, or an earlier page of the search is still to come.
LEMMA ReachedByGetIndex ==
  ASSUME TypeInv, IndexInv, GetIndex, NEW h \in owed \ DOMAIN stored,
         InScope(page[h].advert, scope), Reached(h)
  PROVE  Reached(h)'
<1> DEFINE t == Head(index)
<1>1. /\ index # <<>> /\ tasks' = tasks \cup Expand(t) /\ index' = Tail(index)
      /\ UNCHANGED <<source, page, market, mode>>
  BY DEF GetIndex
<1>2. index \in Seq(SearchPages)
  BY DEF IndexInv
<1>3. /\ DOMAIN index = 1..Len(index) /\ Len(index) \in Nat \ {0}
      /\ 1 \in DOMAIN index /\ t = index[1]
  BY <1>1, <1>2, LenProperties, EmptySeq
<1>4. /\ \A i \in 1..Len(index') : index'[i] = index[i + 1]
      /\ Len(index') = Len(index) - 1 /\ DOMAIN index' = 1..Len(index')
  BY <1>1, <1>2, HeadTailProperties, LenProperties
<1>5. h \in ToSet(market)
  BY DEF TypeInv
<1> HIDE DEF t
<1>6. CASE h \in tasks
  BY <1>1, <1>6 DEF Reached
<1>7. CASE source = "openrent"
  <2>1. t.code = Nil
    BY <1>3, <1>7 DEF IndexInv
  <2>2. h \in Expand(t)
    BY <1>5, <2>1 DEF Expand, Shown
  <2> QED
    BY <1>1, <2>2 DEF Reached
<1>8. CASE source = "rightmove" /\ h \in Expand(t)
  BY <1>1, <1>8 DEF Reached
<1>9. CASE source = "rightmove" /\ h \notin Expand(t) /\ h \notin tasks
  <2> DEFINE c == page[h].listed
             at(n) == [code |-> c, number |-> n]
  <2>1. \A n \in 0..PagesRead(mode) - 1 : at(n) \in ToSet(index) \/ Before(h) >= Offset(n + 1)
    BY <1>9 DEF Reached
  <2>2. Before(h) \in Nat
    BY BeforeType
  <2>3. t.code # Nil
    BY <1>3, <1>9 DEF IndexInv
  <2>4. h \notin Shown(t)
    BY <1>9 DEF Expand
  <2>5. \A i \in DOMAIN index : i # 1 => index[i] \in ToSet(index')
    <3>1. ASSUME NEW i \in DOMAIN index, i # 1
          PROVE  i - 1 \in DOMAIN index' /\ index'[i - 1] = index[i]
      BY <1>3, <1>4, <3>1
    <3> QED
      BY <3>1 DEF ToSet
  <2>6. ASSUME NEW n \in 0..PagesRead(mode) - 1
        PROVE  at(n) \in ToSet(index') \/ Before(h) >= Offset(n + 1)
    <3>1. n \in Nat /\ PagesRead(mode) \in Nat
      BY PagesReadPositive
    <3>2. /\ Offset(n) \in Nat /\ Offset(0) = 0
          /\ Offset(n + 1) = Offset(n) + PageSize /\ PageSize \in Nat \ {0}
      BY <3>1, Offsets
    <3> SUFFICES ASSUME at(n) \notin ToSet(index'), ~(Before(h) >= Offset(n + 1)) PROVE FALSE
      OBVIOUS
    <3>3. PICK i \in DOMAIN index : index[i] = at(n)
      BY <2>1 DEF ToSet
    <3>4. i = 1 /\ t = at(n)
      BY <1>3, <2>5, <3>3
    <3>5. t.code = c /\ t.number = n
      BY <3>4
    <3>6. Before(h) \notin Offset(n)..Offset(n) + PageSize - 1
      BY <1>5, <2>3, <2>4, <3>5 DEF Shown
    <3>7. Before(h) < Offset(n)
      BY <2>2, <3>2, <3>6
    <3>8. n # 0
      BY <2>2, <3>2, <3>7
    <3>9. n - 1 \in 0..PagesRead(mode) - 1 /\ (n - 1) + 1 = n
      BY <3>1, <3>8
    <3>10. at(n - 1) \in ToSet(index)
      BY <2>1, <2>2, <3>2, <3>7, <3>9
    <3>11. PICK j \in DOMAIN index : index[j] = at(n - 1)
      BY <3>10 DEF ToSet
    <3>12. index[j].code = c /\ index[j].number = n - 1
      BY <3>11
    <3>13. j # 1
      BY <1>3, <3>1, <3>5, <3>12
    <3>14. 1 < j
      BY <1>3, <3>13
    <3>15. index[1].number < index[j].number
      BY <1>3, <3>5, <3>12, <3>14 DEF IndexInv
    <3> QED
      BY <1>3, <3>1, <3>5, <3>12, <3>15
  <2>7. Before(h)' = Before(h)
    BY <1>1 DEF Before
  <2> QED
    BY <1>1, <1>9, <2>6, <2>7 DEF Reached
<1> QED
  BY <1>6, <1>7, <1>8, <1>9 DEF TypeInv, Sources

LEMMA ReachedStep ==
  ASSUME TypeInv, TypeInv', IndexInv, ReachedInv, Next
  PROVE  ReachedInv'
<1>1. ASSUME NEW x \in Homes, Publish(x) PROVE ReachedInv'
  <2>1. UNCHANGED <<source, page, pc, mode, scope, index, tasks, owed, stored>>
    BY <1>1 DEF Publish, runVars, outVars
  <2> SUFFICES ASSUME pc = "discover", NEW h \in owed \ DOMAIN stored,
                      page[h].listed \in Enabled, InScope(page[h].advert, scope)
               PROVE  Reached(h)'
    BY <2>1 DEF ReachedInv
  <2>2. Reached(h)
    BY DEF ReachedInv
  <2>3. Before(h) \in Nat /\ Before(h)' \in Nat /\ Before(h) <= Before(h)'
    BY <1>1, PublishPushes
  <2>4. ASSUME NEW n \in 0..PagesRead(mode) - 1, Before(h) >= Offset(n + 1)
        PROVE  Before(h)' >= Offset(n + 1)
    <3>1. n + 1 \in Nat
      BY PagesReadPositive
    <3>2. Offset(n + 1) \in Nat
      BY <3>1, Offsets
    <3> QED
      BY <2>3, <2>4, <3>2
  <2>5. CASE h \in tasks
    BY <2>1, <2>5 DEF Reached
  <2>6. CASE source = "openrent" /\ index # <<>>
    BY <2>1, <2>6 DEF Reached
  <2>7. CASE /\ source = "rightmove"
             /\ \A n \in 0..PagesRead(mode) - 1 :
                  \/ [code |-> page[h].listed, number |-> n] \in ToSet(index)
                  \/ Before(h) >= Offset(n + 1)
    <3>1. \A n \in 0..PagesRead(mode) - 1 :
            \/ [code |-> page[h].listed, number |-> n] \in ToSet(index)
            \/ Before(h)' >= Offset(n + 1)
      BY <2>4, <2>7
    <3> QED
      BY <2>1, <2>7, <3>1 DEF Reached
  <2> QED
    BY <2>2, <2>5, <2>6, <2>7 DEF Reached
<1>2. ASSUME NEW x \in Homes, Withdraw(x) PROVE ReachedInv'
  BY <1>2 DEF Withdraw, ReachedInv
<1>3. ASSUME NEW f \in Forms, Submit(f) PROVE ReachedInv'
  BY <1>3 DEF Submit, runVars, outVars, ReachedInv, Reached, Before
<1>4. ASSUME NEW m \in {"hot", "sweep"}, NEW d \in SUBSET Enabled, Begin(m, d) PROVE ReachedInv'
  <2>1. index' = Discover(m) /\ mode' = m /\ UNCHANGED <<source, page>>
    BY <1>4 DEF Begin
  <2> SUFFICES ASSUME NEW h, page[h].listed \in Enabled
               PROVE  Reached(h)'
    BY <2>1 DEF ReachedInv
  <2>2. CASE source = "openrent"
    <3>1. Discover(m) # <<>>
      BY <2>2, DiscoverOnOpenRent
    <3> QED
      BY <2>1, <2>2, <3>1 DEF Reached
  <2>3. CASE source = "rightmove"
    <3>1. \A n \in 0..PagesRead(m) - 1 :
            [code |-> page[h].listed, number |-> n] \in ToSet(Discover(m))
      BY <2>3, DiscoverOnRightmove
    <3> QED
      BY <2>1, <2>3, <3>1 DEF Reached
  <2> QED
    BY <2>2, <2>3 DEF TypeInv, Sources
<1>5. CASE GetIndex
  <2>1. UNCHANGED <<page, pc, scope, owed, stored>>
    BY <1>5 DEF GetIndex, outVars
  <2> SUFFICES ASSUME pc = "discover", NEW h \in owed \ DOMAIN stored,
                      page[h].listed \in Enabled, InScope(page[h].advert, scope)
               PROVE  Reached(h)'
    BY <2>1 DEF ReachedInv
  <2>2. Reached(h)
    BY DEF ReachedInv
  <2> QED
    BY <1>5, <2>2, ReachedByGetIndex
<1>6. CASE pc' # "discover"
  BY <1>6 DEF ReachedInv
<1> QED
  BY <1>1, <1>2, <1>3, <1>4, <1>5, <1>6 DEF Next, Discovered, GetPage, MarkBroken,
     ReconcileAndMatch, EndRun

-----------------------------------------------------------------------------
(***************************************************************************)
(* The verdict                                                             *)
(***************************************************************************)

\* A share that is not large enough is too small.
LEMMA TooFew ==
  ASSUME NEW r, IsFiniteSet(DOMAIN r), NEW some \in SUBSET DOMAIN r
  PROVE  ~FillsEnough(some, r) <=> 100 * Cardinality(some) < FillFloor * Cardinality(DOMAIN r)
<1> DEFINE n == Cardinality(DOMAIN r)
           k == Cardinality(some)
           share == FillFloor * n
<1>1. n \in Nat /\ k \in Nat /\ FillFloor \in Int
  BY FS_CardinalityType, FS_Subset, FillAssumption
<1>2. share \in Int
  BY <1>1
<1>3. FillsEnough(some, r) <=> 100 * k >= share
  BY DEF FillsEnough
<1> HIDE DEF n, k, share
<1>4. ~(100 * k >= share) <=> 100 * k < share
  BY <1>1, <1>2
<1> QED
  BY <1>3, <1>4 DEF n, k, share

\* The rows of a run have a field where its pages show it to a reader.
LEMMA VerdictOnRows ==
  ASSUME TypeInv, RunInv, rows # Nothing
  PROVE  Broken(rows) <=>
           \/ 100 * Cardinality({h \in DOMAIN rows : StatedRent(page[h]) # {}})
                < FillFloor * Cardinality(DOMAIN rows)
           \/ 100 * Cardinality({h \in DOMAIN rows : ShowsBeds(page[h])})
                < FillFloor * Cardinality(DOMAIN rows)
<1>1. \A h \in DOMAIN rows : rows[h] = Apply(source, page[h])
  BY DEF RunInv
<1>2. \A h \in DOMAIN rows : /\ rows[h].price = Price(source, page[h])
                             /\ rows[h].bedrooms = BedroomsText(source, page[h])
  BY <1>1 DEF Apply
<1>3. DOMAIN rows # {}
  <2> SUFFICES ASSUME DOMAIN rows = {} PROVE FALSE
    OBVIOUS
  <2>1. rows = [h \in {} |-> Apply(source, page[h])]
    BY DEF RunInv
  <2> QED
    BY <2>1 DEF Nothing
<1>4. IsFiniteSet(DOMAIN rows)
  BY HomesAssumption, FS_Subset DEF TypeInv
<1>5. \A h \in DOMAIN rows : source \in Sources /\ page[h] \in Pages[source]
  BY DEF TypeInv
<1> DEFINE rent == {h \in DOMAIN rows : StatedRent(page[h]) # {}}
           beds == {h \in DOMAIN rows : ShowsBeds(page[h])}
<1>6. rent = {h \in DOMAIN rows : rows[h].price # <<>>}
  BY <1>2, <1>5, RentRead
<1>7. beds = {h \in DOMAIN rows : rows[h].bedrooms # Nil}
  BY <1>2, <1>5, TextIsNil
<1>8. rent \in SUBSET DOMAIN rows /\ beds \in SUBSET DOMAIN rows
  OBVIOUS
<1>9. Broken(rows) <=> ~FillsEnough(rent, rows) \/ ~FillsEnough(beds, rows)
  BY <1>3, <1>6, <1>7 DEF Broken
<1> HIDE DEF rent, beds
<1>10. Broken(rows) <=> \/ 100 * Cardinality(rent) < FillFloor * Cardinality(DOMAIN rows)
                        \/ 100 * Cardinality(beds) < FillFloor * Cardinality(DOMAIN rows)
  BY <1>4, <1>8, <1>9, TooFew
<1> QED
  BY <1>10 DEF rent, beds

-----------------------------------------------------------------------------
(***************************************************************************)
(* The invariant, and what it implies                                      *)
(***************************************************************************)

THEOREM InvAlways == Spec => []IInv
<1>1. Init => IInv
  BY InitInv
<1>2. ASSUME IInv, Next PROVE IInv'
  <2>1. TypeInv' /\ RunInv' /\ StoredInv' /\ MatchInv' /\ IndexInv'
    BY <1>2, TypeStep, RunStep, StoredStep, MatchStep, IndexStep DEF IInv
  <2>2. ReachedInv'
    BY <1>2, <2>1, ReachedStep DEF IInv
  <2> QED
    BY <2>1, <2>2 DEF IInv
<1>3. ASSUME IInv, UNCHANGED vars PROVE IInv'
  <2>1. /\ UNCHANGED <<source, page, market, broken, criteria, form, pc>>
        /\ UNCHANGED <<mode, scope, index, tasks, rows, owed>>
        /\ UNCHANGED <<stored, alerted, read, handed>>
    BY <1>3 DEF vars, runVars, outVars
  <2>2. TypeInv'
    <3>1. ToSet(market)' = ToSet(market)
      BY <2>1
    <3> QED
      BY <1>3, <2>1, <3>1 DEF IInv, TypeInv
  <2>r. RunInv'
    BY <1>3, <2>1 DEF IInv, RunInv
  <2>3. StoredInv' /\ MatchInv'
    BY <1>3, <2>1 DEF IInv, StoredInv, MatchInv, Listing
  <2>4. IndexInv' /\ ReachedInv'
    BY <1>3, <2>1 DEF IInv, IndexInv, ReachedInv, Reached, Before
  <2> QED
    BY <2>2, <2>r, <2>3, <2>4 DEF IInv
<1> QED
  BY <1>1, <1>2, <1>3, PTL DEF Spec

\* The homes advertised are as many as the market is long.
LEMMA MarketLength ==
  ASSUME TypeInv
  PROVE  Len(market) = Cardinality(ToSet(market))
<1>1. /\ market \in Seq(Homes) /\ \A i, j \in DOMAIN market : market[i] = market[j] => i = j
  BY DEF TypeInv
<1>2. Len(market) \in Nat /\ DOMAIN market = 1..Len(market) /\ market = [i \in 1..Len(market) |-> market[i]]
  BY <1>1, LenProperties
<1>3. market \in [1..Len(market) -> ToSet(market)]
  BY <1>2 DEF ToSet
<1>4. market \in Bijection(1..Len(market), ToSet(market))
  BY <1>1, <1>2, <1>3 DEF ToSet, Bijection, Injection, Surjection, IsInjective
<1>5. ExistsBijection(1..Len(market), ToSet(market))
  BY <1>4 DEF ExistsBijection
<1> QED
  BY <1>2, <1>5, FS_CountingElements

\* Every variable has its type, and what is stored is within the bounds that the
\* columns and the matcher rely on, whatever the pages state.
THEOREM TypeCorrect == Spec => []TypeOK
<1>1. IInv => TypeOK
  <2> SUFFICES ASSUME IInv PROVE TypeOK
    OBVIOUS
  <2>1. ToSet(market) \subseteq Homes /\ Len(market) = Cardinality(ToSet(market))
    BY MarketHomes, MarketLength DEF IInv
  <2>2. \A h \in DOMAIN stored : stored[h].price \in Rents /\ stored[h].bedrooms \in 0..20
    BY DEF IInv, StoredInv, Valid
  <2>3. DOMAIN page = Homes /\ (criteria = Nil <=> form = Nil)
    BY DEF IInv, TypeInv, MatchInv
  <2>4. owed \subseteq Homes
    BY <2>1 DEF IInv, TypeInv
  <2> QED
    BY <2>1, <2>2, <2>3, <2>4 DEF IInv, TypeInv, TypeOK
<1> QED
  BY <1>1, InvAlways, PTL

\* Whatever figures a page shows, the stored rent is the one a reader finds by the
\* month, and no page that has one is left out but for an implausible number.
THEOREM RentIsMonthlyAlways == Spec => []RentIsMonthly
<1>1. IInv => RentIsMonthly
  <2> SUFFICES ASSUME IInv PROVE RentIsMonthly
    OBVIOUS
  <2>1. source \in Sources /\ \A h \in Homes : page[h] \in Pages[source]
    BY DEF IInv, TypeInv
  <2>2. ASSUME NEW h \in DOMAIN stored PROVE stored[h].price \in StatedRent(page[h])
    <3>1. h \in Homes /\ stored[h] = Listing(page[h]) /\ Valid(Listing(page[h]))
      BY DEF IInv, TypeInv, StoredInv
    <3>2. StatedRent(page[h]) = {Listing(page[h]).price}
      BY <2>1, <3>1, ValidRent
    <3> QED
      BY <3>1, <3>2
  <2>3. ASSUME NEW h \in read \ DOMAIN stored
        PROVE  StatedRent(page[h]) \cap Rents = {} \/ Implausible(page[h])
    <3>1. h \in Homes /\ ~Valid(Listing(page[h]))
      BY DEF IInv, TypeInv, StoredInv
    <3> QED
      BY <2>1, <3>1, InvalidForAReason
  <2> QED
    BY <2>2, <2>3 DEF RentIsMonthly
<1> QED
  BY <1>1, InvAlways, PTL

\* For any form and any page, a person is alerted to a home only if its page answers
\* all that the form asks but the bedrooms; and to exactly those that answer them too,
\* unless the form asks about bedrooms and the page's number is a guess.
THEOREM AlertsAnswerTheFormAlways == Spec => []AlertsAnswerTheForm
<1>1. IInv => AlertsAnswerTheForm
  <2> SUFFICES ASSUME IInv, NEW h \in handed
               PROVE  /\ h \in alerted => HasTheRest(form, page[h])
                      /\ ~AsksBeds(form) \/ ~Guessed(page[h]) =>
                           (h \in alerted
                              <=> HasTheRest(form, page[h]) /\ HasTheBeds(form, page[h]))
    BY DEF AlertsAnswerTheForm
  <2>1. /\ h \in Homes /\ h \in DOMAIN stored /\ source \in Sources
        /\ page[h] \in Pages[source]
    BY DEF IInv, TypeInv
  <2>2. stored[h] = Listing(page[h]) /\ Valid(Listing(page[h]))
    BY <2>1 DEF IInv, StoredInv
  <2>3. criteria = ParseForm(form) /\ (h \in alerted <=> Matches(criteria, stored[h]))
    BY DEF IInv, MatchInv
  <2>4. /\ Matches(ParseForm(form), Listing(page[h])) => HasTheRest(form, page[h])
        /\ ~AsksBeds(form) \/ ~Guessed(page[h]) =>
             (Matches(ParseForm(form), Listing(page[h]))
                <=> HasTheRest(form, page[h]) /\ HasTheBeds(form, page[h]))
    BY <2>1, <2>2, MatchIsAnswer
  <2> QED
    BY <2>2, <2>3, <2>4
<1> QED
  BY <1>1, InvAlways, PTL

\* Whatever the floor, the pages and how many a run has read, its verdict is what the
\* share of pages that show a rent, and a number of bedrooms, makes it.
THEOREM VerdictOnThePagesAlways == Spec => VerdictOnThePages
<1> DEFINE tooFew(pages) == 100 * Cardinality(pages) < FillFloor * Cardinality(DOMAIN rows)
           verdict == \/ tooFew({h \in DOMAIN rows : StatedRent(page[h]) # {}})
                      \/ tooFew({h \in DOMAIN rows : ShowsBeds(page[h])})
<1>1. ASSUME IInv, Next, pc = "collect", pc' = "idle", rows # Nothing
      PROVE  broken' <=> verdict
  <2>1. MarkBroken \/ ReconcileAndMatch
    BY <1>1 DEF Next, Publish, Withdraw, Submit, Begin, GetIndex, Discovered, GetPage
  <2>2. Broken(rows) <=> verdict
    BY <1>1, VerdictOnRows DEF IInv
  <2>3. broken = FALSE
    BY <1>1 DEF IInv, TypeInv, RunInv
  <2> HIDE DEF verdict
  <2>4. CASE MarkBroken
    BY <1>1, <2>2, <2>4 DEF MarkBroken, Judged
  <2>5. CASE ReconcileAndMatch
    BY <1>1, <2>2, <2>3, <2>5 DEF ReconcileAndMatch, Judged
  <2> QED
    BY <2>1, <2>4, <2>5
<1>2. IInv /\ [Next]_vars =>
        [pc = "collect" /\ pc' = "idle" /\ rows # Nothing => (broken' <=> verdict)]_vars
  BY <1>1
<1> QED
  BY <1>2, InvAlways, PTL DEF Spec, VerdictOnThePages

\* For any number of homes, districts and pages, a home in scope that was advertised
\* when the run began and is within the pages it asks for is queued, however many new
\* ones came first in the meantime.
THEOREM PagingSkipsNothingAlways == Spec => PagingSkipsNothing
<1>1. ASSUME IInv, Next, pc = "discover", pc' = "collect", NEW h \in owed \ DOMAIN stored,
             page[h].listed \in Enabled, InScope(page[h].advert, scope),
             Before(h) < PagesRead(mode) * PageSize
      PROVE  h \in tasks
  <2>1. index = <<>>
    BY <1>1 DEF Next, Publish, Withdraw, Submit, Begin, GetIndex, Discovered, GetPage,
       MarkBroken, ReconcileAndMatch, EndRun
  <2>2. Reached(h)
    BY <1>1 DEF IInv, ReachedInv
  <2>3. CASE source = "rightmove"
    <3> DEFINE n == PagesRead(mode) - 1
    <3>1. n \in Nat /\ n + 1 = PagesRead(mode) /\ n \in 0..PagesRead(mode) - 1
      BY PagesReadPositive
    <3>2. [code |-> page[h].listed, number |-> n] \notin ToSet(index)
      BY <2>1 DEF ToSet
    <3>3. h \in tasks \/ Before(h) >= Offset(n + 1)
      BY <2>2, <2>3, <3>1, <3>2 DEF Reached
    <3>4. Offset(n + 1) = PagesRead(mode) * PageSize /\ Offset(n + 1) \in Nat
      BY <3>1, Offsets DEF Offset
    <3>5. Before(h) \in Nat
      BY <1>1, BeforeType DEF IInv
    <3> HIDE DEF n
    <3> QED
      BY <1>1, <3>3, <3>4, <3>5
  <2>4. CASE source = "openrent"
    BY <2>1, <2>2, <2>4 DEF Reached
  <2> QED
    BY <1>1, <2>3, <2>4 DEF IInv, TypeInv, Sources
<1>2. IInv /\ [Next]_vars =>
        [pc = "discover" /\ pc' = "collect" =>
           \A h \in owed \ DOMAIN stored :
             /\ page[h].listed \in Enabled
             /\ InScope(page[h].advert, scope)
             /\ Before(h) < PagesRead(mode) * PageSize
             => h \in tasks]_vars
  BY <1>1
<1> QED
  BY <1>2, InvAlways, PTL DEF Spec, PagingSkipsNothing
=============================================================================
