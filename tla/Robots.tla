------------------------------- MODULE Robots -------------------------------
(***************************************************************************)
(* What worker/fetch/robots.py makes of a robots.txt, and beside it the    *)
(* reading its docstring promises, stated on the lines of the file.        *)
(*                                                                         *)
(* A file is the sequence of its lines that have a field and a value.  A   *)
(* token or a piece of a path is a string; pieces have length one.         *)
(***************************************************************************)
EXTENDS Integers, Sequences, FiniteSetsExt

CONSTANTS
  Ours,      \* User-agent values contained in our product token
  TokenLen   \* [Ours -> Nat \ {0}], their lengths

ASSUME TokensAssumption == TokenLen \in [Ours -> Nat \ {0}] /\ "*" \notin Ours

\* The lines.  A delay that is not a number is left out, and so leaves no
\* trace but the end of a block of User-agent lines: an Other line.
Agent(t) == [key |-> "user-agent", token |-> t]
Allow(p) == [key |-> "rule", allow |-> TRUE, pattern |-> p]
Disallow(p) == [key |-> "rule", allow |-> FALSE, pattern |-> p]
CrawlDelay(d) == [key |-> "crawl-delay", delay |-> d]
Other == [key |-> "other"]

Line ==
  [key : {"user-agent"}, token : STRING]
  \cup [key : {"rule"}, allow : BOOLEAN, pattern : Seq(STRING)]
  \cup [key : {"crawl-delay"}, delay : Nat]
  \cup [key : {"other"}]

\* What a loop over s has made of base after each number of rounds.
Rounds(Op(_, _), base, s) ==
  LET after[n \in 0..Len(s)] == IF n = 0 THEN base ELSE Op(after[n - 1], s[n])
  IN after

\* "*" stands for any pieces, trailing "$"s anchor the end, the start always is.
Matches(p, path) ==
  LET body == SubSeq(p, 1, Max({n \in 0..Len(p) : n = 0 \/ p[n] # "$"}))
  IN \E at \in [1..Len(body) + 1 -> 1..Len(path) + 1] :
       /\ at[1] = 1
       /\ \A i \in 1..Len(body) :
            \/ body[i] = "*" /\ at[i + 1] >= at[i]
            \/ at[i] <= Len(path) /\ body[i] = path[at[i]] /\ at[i + 1] = at[i] + 1
       /\ Len(body) < Len(p) => at[Len(body) + 1] = Len(path) + 1

-----------------------------------------------------------------------------
(***************************************************************************)
(* RobotsTxt.parse                                                         *)
(***************************************************************************)

NewGroup == [tokens |-> {}, rules |-> <<>>, delay |-> 0]

\* Consecutive User-agent lines share a group; the variant opens one each.
GroupsV1(s) == Append(s.groups, NewGroup)
Groups(s) == IF s.starting THEN s.groups ELSE Append(s.groups, NewGroup)

\* What a line that is not a User-agent line adds to the group it is in.
Extended(group, line) ==
  IF line.key = "rule" /\ line.pattern # <<>>
  THEN [group EXCEPT !.rules = Append(@, line)]
  ELSE IF line.key = "crawl-delay" THEN [group EXCEPT !.delay = line.delay]
  ELSE group

ParseLine(s, line) ==
  IF line.key = "user-agent"
  THEN LET gs == Groups(s)
       IN [groups |-> [gs EXCEPT ![Len(gs)].tokens = @ \cup {line.token}],
           starting |-> TRUE]
  ELSE [groups |-> IF s.groups = <<>> THEN <<>>
                   ELSE [s.groups EXCEPT ![Len(s.groups)] = Extended(@, line)],
        starting |-> FALSE]

Reading(file) == Rounds(ParseLine, [groups |-> <<>>, starting |-> FALSE], file)

Parse(file) == Reading(file)[Len(file)].groups

(***************************************************************************)
(* Queries: the group for us, then the rule for the path.                  *)
(***************************************************************************)

LongestToken(group) == Max({0} \cup {TokenLen[t] : t \in group.tokens \cap Ours})

Better(best, group) ==
  IF LongestToken(group) > LongestToken(best) THEN group ELSE best
Best(groups) == Rounds(Better, NewGroup, groups)

\* The first group with the longest token wins; "*" is a last resort, and no
\* group at all is an empty one.
GroupFor(groups) ==
  LET named == Best(groups)[Len(groups)]
      wild == {k \in DOMAIN groups : "*" \in groups[k].tokens}
  IN IF named # NewGroup THEN named
     ELSE IF wild # {} THEN groups[Min(wild)] ELSE NewGroup

Wins(rule, winner) ==
  \/ Len(rule.pattern) > Len(winner.pattern)
  \/ Len(rule.pattern) = Len(winner.pattern) /\ rule.allow
Winners(lines, path) ==
  LET Stronger(winner, rule) ==
        IF Matches(rule.pattern, path) /\ Wins(rule, winner) THEN rule ELSE winner
  IN Rounds(Stronger, Allow(<<>>), lines)

\* can_fetch
MayFetch(groups, path) ==
  LET lines == GroupFor(groups).rules
  IN Winners(lines, path)[Len(lines)].allow

-----------------------------------------------------------------------------
(***************************************************************************)
(* The promised reading, without parsing.  The lines that bind us are      *)
(* those after the run of User-agent lines with the longest token that is  *)
(* ours, the first such run, or else the first with "*"; among the rules   *)
(* that match, the longest decide, and one Allow among them is enough.     *)
(***************************************************************************)

IsAgent(file, i) == i \in DOMAIN file /\ file[i].key = "user-agent"

\* The runs of User-agent lines, by their first and last line.
Runs(file) ==
  {r \in (DOMAIN file) \X (DOMAIN file) :
     /\ r[1] <= r[2] /\ ~IsAgent(file, r[1] - 1) /\ ~IsAgent(file, r[2] + 1)
     /\ \A i \in r[1]..r[2] : IsAgent(file, i)}

Rank(file, run) ==
  Max({0} \cup {TokenLen[t] : t \in Ours \cap {file[i].token : i \in run[1]..run[2]}})

\* The run that speaks to us, if any does.
Addressed(file) ==
  LET runs == Runs(file)
      top == Max({0} \cup {Rank(file, r) : r \in runs})
      named == {r \in runs : top > 0 /\ Rank(file, r) = top}
      wild == {r \in runs : \E i \in r[1]..r[2] : file[i].token = "*"}
      candidates == IF named # {} THEN named ELSE wild
  IN {r \in candidates : \A q \in candidates : r[1] <= q[1]}

Binding(file) ==
  LET addressed == Addressed(file)
  IN {i \in DOMAIN file : \E r \in addressed :
        i > r[2] /\ \A j \in r[2] + 1..i : ~IsAgent(file, j)}

Permitted(file, path) ==
  LET relevant == {i \in Binding(file) :
                     /\ file[i].key = "rule" /\ file[i].pattern # <<>>
                     /\ Matches(file[i].pattern, path)}
      decisive == {i \in relevant :
                     \A j \in relevant : Len(file[j].pattern) <= Len(file[i].pattern)}
  IN decisive # {} => \E i \in decisive : file[i].allow

\* The wait asked for between two requests: the last one written counts.
AskedDelay(file) ==
  LET delays == {i \in Binding(file) : file[i].key = "crawl-delay"}
  IN IF delays = {} THEN 0 ELSE file[Max(delays)].delay
=============================================================================
