------------------------------- MODULE LogBuffer -------------------------------
(***************************************************************************)
(* The log of a full cycle: the buffer in memory that keeps the newest     *)
(* lines, the file, and the page that polls the buffer with the index of   *)
(* the next line it wants.  A line is its index; "notice" lines say that   *)
(* lines were dropped.                                                     *)
(***************************************************************************)
EXTENDS Integers, Sequences, SequencesExt

CONSTANTS
  Capacity,   \* _MAX
  MaxLines    \* bound: lines of the cycle

LogAssumption == Capacity \in Nat \ {0, 1} /\ MaxLines \in Nat

VARIABLES
  buffer,     \* the deque: records of an index and whether it is the notice
  counter,    \* the next index
  file,       \* the indices of the lines of the file
  page,       \* what the page has: the next index, and the lines it shows
  answer      \* an answer on its way to the page

vars == <<buffer, counter, file, page, answer>>

NoAnswer == [lines |-> <<>>, next |-> -1]

Init == buffer = <<>> /\ counter = 0 /\ file = <<>> /\ page = [since |-> 0, shows |-> <<>>] /\ answer = NoAnswer

\* a deque with a maximal length drops its oldest
Push(b, e) == IF Len(b) = Capacity THEN Append(Tail(b), e) ELSE Append(b, e)
Full       == Len(buffer) = Capacity
Truncated  == counter > Len(file)

\* append: a line, the notice when it is the first that drops another, the file
AppendLine ==
  /\ Len(file) < MaxLines /\ file' = Append(file, counter)
  /\ LET one == Push(buffer, [index |-> counter, notice |-> FALSE])
     IN IF Full /\ ~Truncated
          THEN buffer' = Push(one, [index |-> counter + 1, notice |-> TRUE]) /\ counter' = counter + 2
          ELSE buffer' = one /\ counter' = counter + 1
  /\ UNCHANGED <<page, answer>>

\* get_full_cycle_logs: the indices grow along the buffer, so that those from
\* since on are its end
Poll ==
  /\ answer = NoAnswer
  /\ \E first \in 1..(Len(buffer) + 1) :
       /\ \A i \in DOMAIN buffer : i >= first <=> buffer[i].index >= page.since
       /\ LET lines == SubSeq(buffer, first, Len(buffer))
          IN answer' = [lines |-> lines, next |-> IF lines = <<>> THEN page.since ELSE Last(lines).index + 1]
  /\ UNCHANGED <<buffer, counter, file, page>>

\* The effect of the page; an empty answer changes nothing.
Show ==
  /\ answer # NoAnswer /\ answer' = NoAnswer
  /\ page' = IF answer.lines = <<>> THEN page
             ELSE [since |-> answer.next, shows |-> page.shows \o answer.lines]
  /\ UNCHANGED <<buffer, counter, file>>

Next == AppendLine \/ Poll \/ Show
Spec == Init /\ [][Next]_vars
\* The page polls every 1.5 seconds while the cycle runs.
FairSpec == Spec /\ WF_vars(Poll) /\ WF_vars(Show)

---------------------------------------------------------------------------
(* Properties.                                                             *)

\* The types of the state: the buffer is bounded and in the order of the indices.
TypeOK ==
  /\ Len(buffer) <= Capacity /\ counter \in Nat /\ Len(file) <= MaxLines
  /\ \A i \in DOMAIN buffer : i > 1 => buffer[i].index > buffer[i - 1].index

\* The page shows no line twice and every line in its order.
ShownInOrder == \A i \in DOMAIN page.shows : i > 1 => page.shows[i].index > page.shows[i - 1].index

\* A line is only missed when it was dropped: what is between two shown lines
\* is not in the buffer.
MissedIsDropped == \A i \in DOMAIN buffer : buffer[i].index < page.since =>
                     buffer[i] \in ToSet(page.shows)

\* The page gets to the newest line.
CatchesUp == <>[](buffer = <<>> \/ page.since = Last(buffer).index + 1)

=============================================================================
