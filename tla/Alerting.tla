------------------------------ MODULE Alerting ------------------------------
(***************************************************************************)
(* From a form and a page to an alert: what the runs of one source find,   *)
(* read, judge, store and match for one person.  _discover, _collect and   *)
(* _schema_for of worker/pipeline/run.py, the discovery of both adapters   *)
(* and queue_matches, over Extraction and Criteria.                        *)
(*                                                                         *)
(* Runs come one after the other and requests succeed.  Statements, 304s,  *)
(* failures and overlapping runs are in Scrape, the outbox in Outbox.      *)
(***************************************************************************)
EXTENDS Extraction, SequencesExt
INSTANCE Criteria

CONSTANTS
  Homes,       \* homes that may be let
  Pages,       \* Pages[s]: what the page of a home may state on source s
  Forms,       \* forms a person may submit
  Enabled,     \* districts enabled in source_locations
  PageSize,    \* results shown on a search page; PAGE_SIZE
  HotPages,    \* HOT_PAGES
  SweepPages   \* SWEEP_PAGES

ASSUME HomesAssumption == IsFiniteSet(Homes) /\ Nil \notin Homes
ASSUME EnabledAssumption == Enabled # {} /\ IsFiniteSet(Enabled) /\ Nil \notin Enabled
ASSUME SearchAssumption == {PageSize, HotPages, SweepPages} \subseteq Nat \ {0}
ASSUME FormsAssumption == \A f \in Forms : Nil \notin {f, ParseForm(f)}

\* What a page states.  OpenRent prints one figure in the row "Rent PCM".  Rightmove
\* prints the weekly figure inside the monthly one, so after it, and each once.
ASSUME PagesAssumption ==
  /\ DOMAIN Pages = Sources
  /\ \A s \in Sources : \A p \in Pages[s] :
       /\ p.rent \in Seq([amount : Nat, period : {"pcm", "pw", "none"}])
       /\ s = "openrent" => Len(p.rent) <= 1
       /\ \A j \in DOMAIN p.rent : \A i \in 1..j - 1 :
            <<p.rent[i].period, p.rent[j].period>>
              \notin {<<"pcm", "pcm">>, <<"pw", "pw">>, <<"pw", "pcm">>}
       /\ {p.beds, p.tenancy} \subseteq Nat \cup {Nil}
       /\ p.district # Nil => p.district \in DOMAIN NumberIn /\ NumberIn[p.district] \in Nat

VARIABLES
  \* the source
  source,      \* its adapter
  page,        \* what the page of each home states
  market,      \* homes advertised, the newest first
  \* the database
  broken,      \* sources.health
  stored,      \* rows of listings, by home
  criteria,    \* of the person's subscription, Nil without one
  alerted,     \* homes queued for the person
  \* the run
  pc,
  mode,        \* "hot" or "sweep"
  scope,       \* districts it is limited to
  index,       \* search pages still to ask for
  tasks,       \* listing pages still to ask for
  rows,        \* what was extracted, by home
  \* history
  form,        \* the form behind the subscription
  owed,        \* homes advertised when the run began, none once one is let since
  read,        \* homes whose page some run has read and kept
  handed       \* homes matched against the subscription

runVars == <<mode, scope, index, tasks, rows, owed>>
outVars == <<stored, alerted, read, handed>>
vars == <<source, page, market, broken, criteria, form, pc, runVars, outVars>>

Nothing == [h \in {} |-> Nil]

Init ==
  /\ source \in Sources
  /\ page \in [Homes -> Pages[source]]
  /\ market = <<>>
  /\ broken = FALSE
  /\ stored = Nothing
  /\ criteria = Nil
  /\ alerted = {}
  /\ pc = "idle"
  /\ mode = "hot"
  /\ scope = {}
  /\ index = <<>>
  /\ tasks = {}
  /\ rows = Nothing
  /\ form = Nil
  /\ owed = {}
  /\ read = {}
  /\ handed = {}

-----------------------------------------------------------------------------
(***************************************************************************)
(* The market and the person                                               *)
(***************************************************************************)

\* A new home comes first.
Publish(h) ==
  /\ h \notin ToSet(market)
  /\ market' = <<h>> \o market
  /\ UNCHANGED <<source, page, broken, criteria, form, pc, runVars, outVars>>

\* A home is let; the ones after it move up.
Withdraw(h) ==
  /\ \E i \in DOMAIN market : market[i] = h /\ market' = RemoveAt(market, i)
  /\ owed' = {}
  /\ UNCHANGED <<source, page, broken, criteria, form, pc, mode, scope, index, tasks,
                 rows, outVars>>

\* The form, parsed; one that cannot be is refused and leaves nothing.
Submit(f) ==
  /\ criteria = Nil
  /\ ~InvalidForm(f, Enabled)
  /\ criteria' = ParseForm(f)
  /\ form' = f
  /\ UNCHANGED <<source, page, market, broken, pc, runVars, outVars>>

-----------------------------------------------------------------------------
(***************************************************************************)
(* Discovery                                                               *)
(***************************************************************************)

PagesRead(m) == IF m = "sweep" THEN SweepPages ELSE HotPages

\* discover: OpenRent's sitemaps name every home; Rightmove has search pages for
\* each enabled district, read in order, whatever districts the run is limited to.
Discover(m) ==
  IF source = "openrent" THEN <<[code |-> Nil, number |-> 0]>>
  ELSE LET codes == SetToSeq(Enabled)
           pages == PagesRead(m)
       IN [i \in 1..Len(codes) * pages |->
             [code |-> codes[(i - 1) \div pages + 1], number |-> (i - 1) % pages]]

\* The results on a search page, counted from an offset; the variant has it a
\* result too far.
OffsetV1(number) == number * (PageSize + 1)
Offset(number) == number * PageSize

\* How many homes the same search shows before this one.
Before(h) ==
  Cardinality({g \in ToSet(market) :
                 /\ page[g].listed = page[h].listed
                 /\ \E i, j \in DOMAIN market : i < j /\ market[i] = g /\ market[j] = h})

Shown(task) ==
  IF task.code = Nil THEN ToSet(market)
  ELSE {h \in ToSet(market) :
          /\ page[h].listed = task.code
          /\ Before(h) \in Offset(task.number)..Offset(task.number) + PageSize - 1}

\* _scope: a run by hand may be limited to some of the enabled districts.
Begin(m, districts) ==
  /\ pc = "idle"
  /\ ~broken
  /\ districts \subseteq Enabled
  /\ mode' = m
  /\ scope' = IF districts = {} THEN Enabled ELSE districts
  /\ index' = Discover(m)
  /\ owed' = ToSet(market)
  /\ pc' = "discover"
  /\ UNCHANGED <<source, page, market, broken, criteria, form, tasks, rows, outVars>>

\* expand: homes that are not stored and not advertised somewhere else.
Expand(task) ==
  {h \in Shown(task) \ DOMAIN stored : InScope(page[h].advert, scope)}

GetIndex ==
  /\ pc = "discover"
  /\ index # <<>>
  /\ tasks' = tasks \cup Expand(Head(index))
  /\ index' = Tail(index)
  /\ UNCHANGED <<source, page, market, broken, criteria, form, pc, mode, scope,
                 rows, owed, outVars>>

Discovered ==
  /\ pc = "discover"
  /\ index = <<>>
  /\ pc' = "collect"
  /\ UNCHANGED <<source, page, market, broken, criteria, form, runVars, outVars>>

-----------------------------------------------------------------------------
(***************************************************************************)
(* Collection                                                              *)
(***************************************************************************)

\* A listing page, in any order, read by the adapter's schema, which the first page
\* of all puts in force; or an unusable one.
GetPage(h) ==
  /\ pc = "collect"
  /\ h \in tasks
  /\ tasks' = tasks \ {h}
  /\ \/ rows' = [g \in DOMAIN rows \cup {h} |->
                  IF g = h THEN Apply(source, page[h]) ELSE rows[g]]
     \/ UNCHANGED rows
  /\ UNCHANGED <<source, page, market, broken, criteria, form, pc, mode, scope, index,
                 owed, outVars>>

\* What normalize accepts of the rows; the variant stops at the first that it
\* does not.
AcceptedV1 ==
  IF \A h \in DOMAIN rows : Valid(Normalize(source, rows[h])) THEN DOMAIN rows ELSE {}
Accepted == {h \in DOMAIN rows : Valid(Normalize(source, rows[h]))}

\* Everything a run holds in memory, dropped.
EndRun ==
  /\ pc' = "idle"
  /\ mode' = "hot"
  /\ scope' = {}
  /\ index' = <<>>
  /\ tasks' = {}
  /\ rows' = Nothing
  /\ owed' = {}

\* The verdict is about the rows, accepted or not, and only if there are any.
Judged(verdict) ==
  /\ pc = "collect"
  /\ tasks = {}
  /\ verdict = (rows # Nothing /\ Broken(rows))

MarkBroken ==
  /\ Judged(TRUE)
  /\ broken' = TRUE
  /\ EndRun
  /\ UNCHANGED <<source, page, market, criteria, form, outVars>>

\* _reconcile, then queue_matches for what was inserted.
ReconcileAndMatch ==
  /\ Judged(FALSE)
  /\ stored' = [h \in Accepted \cup DOMAIN stored |->
                  IF h \in Accepted THEN Normalize(source, rows[h]) ELSE stored[h]]
  /\ alerted' = alerted \cup
       {h \in Accepted : criteria # Nil /\ Matches(criteria, stored'[h])}
  /\ handed' = IF criteria = Nil THEN handed ELSE handed \cup Accepted
  /\ read' = read \cup DOMAIN rows
  /\ EndRun
  /\ UNCHANGED <<source, page, market, broken, criteria, form>>

Next ==
  \/ \E h \in Homes : Publish(h)
  \/ \E h \in Homes : Withdraw(h)
  \/ \E f \in Forms : Submit(f)
  \/ \E m \in {"hot", "sweep"}, d \in SUBSET Enabled : Begin(m, d)
  \/ GetIndex
  \/ Discovered
  \/ \E h \in Homes : GetPage(h)
  \/ MarkBroken
  \/ ReconcileAndMatch

Spec == Init /\ [][Next]_vars
-----------------------------------------------------------------------------
(***************************************************************************)
(* Properties                                                              *)
(***************************************************************************)

\* Every variable has its type, and what is stored is within the bounds that the
\* columns and the matcher rely on.
TypeOK ==
  /\ source \in Sources
  /\ DOMAIN page = Homes
  /\ ToSet(market) \subseteq Homes /\ Len(market) = Cardinality(ToSet(market))
  /\ broken \in BOOLEAN
  /\ DOMAIN stored \subseteq Homes
  /\ \A h \in DOMAIN stored : /\ stored[h].price \in Rents
                              /\ stored[h].bedrooms \in 0..20
  /\ criteria = Nil <=> form = Nil
  /\ alerted \subseteq handed /\ handed \subseteq DOMAIN stored
  /\ pc \in {"idle", "discover", "collect"}
  /\ mode \in {"hot", "sweep"} /\ scope \subseteq Enabled /\ tasks \subseteq Homes /\ DOMAIN rows \subseteq Homes
  /\ read \subseteq Homes /\ owed \subseteq Homes

\* The monthly rent a reader finds on a page: a monthly figure, or else a weekly
\* one converted, or else, in OpenRent's row of monthly rents, a bare amount.
StatedRent(p) ==
  LET with(period) == {p.rent[i].amount : i \in {j \in DOMAIN p.rent : p.rent[j].period = period}}
  IN IF with("pcm") # {} THEN with("pcm")
     ELSE IF with("pw") # {} THEN {Monthly(a) : a \in with("pw")}
     ELSE IF source = "openrent" THEN with("none") ELSE {}

\* The number of bedrooms a reader finds on a page: the one it names, none for a
\* studio, one for a room; otherwise it is unknown.
Beds(p) ==
  IF p.beds # Nil THEN p.beds
  ELSE IF p.type = "studio" THEN 0
  ELSE IF p.type = "room" THEN 1 ELSE Nil

\* A page that names no number and is no studio: OpenRent's adapter makes one up
\* from the digits of the district, if it has any, and otherwise only counts a room as
\* one; whatever is then left unknown is stored as zero, and so are all of
\* Rightmove's.
MadeUp(p) == source = "openrent" /\ p.beds = Nil /\ p.type # "studio" /\ p.district # Nil
Guessed(p) ==
  /\ p.beds = Nil /\ p.type # "studio"
  /\ source = "openrent" /\ p.type = "room" => p.district # Nil

\* More bedrooms or a longer tenancy than a listing may have.
Implausible(p) ==
  \/ p.beds # Nil /\ p.beds > 20
  \/ p.tenancy # Nil /\ p.tenancy > 120
  \/ MadeUp(p) /\ NumberIn[p.district] > 20

\* A page that a run reads and does not find broken is stored with the rent it
\* states by the month, however many figures it shows; it is left out only when it
\* states none that a home can have, or is implausible, and takes no other with it.
RentIsMonthly ==
  /\ \A h \in read \ DOMAIN stored :
       StatedRent(page[h]) \cap Rents = {} \/ Implausible(page[h])
  /\ \A h \in DOMAIN stored : stored[h].price \in StatedRent(page[h])

\* A page on which the site shows a number of bedrooms where the schema looks for
\* it: not the reel of Rightmove's studios and rooms.
ShowsBeds(p) == Beds(p) # Nil /\ (p.beds # Nil \/ source = "openrent")

\* The verdict at the end of a run is about what the pages it read show a reader,
\* whatever becomes of their listings: the source is put out of action when fewer
\* than FillFloor percent of them show a rent, or a number of bedrooms, and never
\* otherwise, so not by rents that no home has.  A Rightmove studio counts against
\* its source here, although the code says elsewhere that it has no bedrooms, which
\* is not the same as an unknown number: the property states what the run does.
VerdictOnThePages ==
  [][pc = "collect" /\ pc' = "idle" /\ rows # Nothing =>
       LET tooFew(pages) == 100 * Cardinality(pages) < FillFloor * Cardinality(DOMAIN rows)
       IN broken' <=> \/ tooFew({h \in DOMAIN rows : StatedRent(page[h]) # {}})
                      \/ tooFew({h \in DOMAIN rows : ShowsBeds(page[h])})]_vars

\* What a type in the form takes in.  (Sites call many houses terraced, detached and
\* so on; the form's "house" is none of them.)
Called(type) == IF type = "flat" THEN {"flat", "apartment"} ELSE {type}

\* What the form asks, read off the page.  Where a field is blank anything goes;
\* where it is not, a page that does not say will not do, and Rightmove's are not read
\* for pets, bills or tenancy.  An answer that the form does not offer counts as none.
AsksBeds(f) == f.bedrooms_min # Nil \/ f.bedrooms_max # Nil

HasTheBeds(f, p) ==
  AsksBeds(f) =>
    /\ Beds(p) # Nil
    /\ f.bedrooms_min # Nil => Beds(p) >= f.bedrooms_min
    /\ f.bedrooms_max # Nil => Beds(p) <= f.bedrooms_max

HasTheRest(f, p) ==
  LET types == f.types \cap PropertyTypes
      furnished == f.furnished \cap Furnished
      says(wanted, value) == ~wanted \/ (source = "openrent" /\ value = TRUE)
  IN /\ f.price_min # Nil => \A r \in StatedRent(p) : r >= f.price_min
     /\ f.price_max # Nil => \A r \in StatedRent(p) : r <= f.price_max
     /\ types = {} \/ \E t \in types : p.type \in Called(t)
     /\ furnished = {} \/ p.furnished \in furnished
     /\ f.districts = {} \/ p.district \in f.districts
     /\ says(f.pets, p.pets) /\ says(f.bills, p.bills)
     /\ f.tenancy # Nil => source = "openrent" /\ p.tenancy # Nil /\ p.tenancy <= f.tenancy
     /\ f.direct => source = "openrent"

\* A person is alerted to exactly the homes whose page answers the form, from the
\* field on the page to the field in the form: silence about pets, bills, tenancy,
\* furnishing or place fails a question about it, and nothing fails a blank.  Not so
\* for bedrooms, where the matcher says that the unknown does not pass: an unknown
\* number reaches it as a guess.  So of pages whose number is guessed, when the form
\* asks for one, the property says only that an alert is right about all the rest.
AlertsAnswerTheForm ==
  \A h \in handed :
    LET p == page[h]
    IN /\ h \in alerted => HasTheRest(form, p)
       /\ ~AsksBeds(form) \/ ~Guessed(p) =>
            (h \in alerted <=> HasTheRest(form, p) /\ HasTheBeds(form, p))

\* New homes push a search's results down while a run walks its pages; still, a
\* home in scope that was advertised when the run began, and is within the pages
\* the run asks for when it is done, is queued.  (Not so when a home was let in the
\* meantime: the results move up, and one may pass between two pages.)
PagingSkipsNothing ==
  [][pc = "discover" /\ pc' = "collect" =>
       \A h \in owed \ DOMAIN stored :
         /\ page[h].listed \in Enabled
         /\ InScope(page[h].advert, scope)
         /\ Before(h) < PagesRead(mode) * PageSize
         => h \in tasks]_vars
=============================================================================
