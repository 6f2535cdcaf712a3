------------------------------ MODULE CandleStore ------------------------------
(***************************************************************************)
(* The candles of one pair and timeframe: the table, the syncer that keeps *)
(* it up to date (one loop, and the gap fill of the start-up), the job     *)
(* that downloads the history, and the reads by dates.                     *)
(*                                                                         *)
(* A candle is its slot of time and whether it was still forming when it   *)
(* was fetched.  Prices and volumes are left out, and so are the candles   *)
(* that PriceStream builds from ticks.                                     *)
(***************************************************************************)
EXTENDS Naturals, FiniteSets, FiniteSetsExt

CONSTANTS
  Syncs,      \* who syncs: the loop, and the start-up's gap fill
  MaxTime,    \* bound: the last slot
  Closed,     \* slots of the weekend, without candles
  Lookback,   \* slots a cold start goes back (_COLD_START_LOOKBACK)
  Pages,      \* how many candles an answer may have at most (5000 in the code)
  Chunk,      \* rows that are kept before they are inserted (_SQLITE_CHUNK)
  Years,      \* slots the download goes back
  PerDay,     \* slots of a day
  Downloads,  \* whether the history is downloaded
  MaxStops    \* bound: restarts of the server

CandleAssumption ==
  /\ {MaxTime, Chunk, PerDay} \cup Pages \subseteq Nat \ {0} /\ {Lookback, Years, MaxStops} \subseteq Nat
  /\ Closed \subseteq 1..MaxTime /\ 1 \notin Closed /\ Downloads \in BOOLEAN

VARIABLES
  page,      \* the candles of an answer at most
  now,       \* the slot that is forming, unless the market is closed
  candles,   \* the table: slot -> "none", "forming" or "final"
  sync,      \* per syncer: pc, since, the rows it holds
  download,  \* the download job: pc, the time it has reached, its rows and
             \* whether a request failed
  stops

vars == <<page, now, candles, sync, download, stops>>

Slots  == 1..MaxTime
Market == Slots \ Closed
Idle   == [pc |-> "idle", since |-> 0, rows |-> {}]

Init ==
  /\ page \in Pages /\ now = 1 /\ candles = [s \in Slots |-> "none"] /\ stops = 0
  /\ sync = [x \in Syncs |-> Idle]
  /\ download = [pc |-> "none", at |-> 0, from |-> 0, end |-> 0, rows |-> {}, failed |-> FALSE]

\* _is_forex_weekend
Weekend(s) == s \in Closed

\* what the broker answers: the first candles from a time on
FormNow(s)  == IF s = now THEN "forming" ELSE "final"
From(since) == {s \in Market : since <= s /\ s <= now}
Answer(since) == {[slot |-> s, form |-> FormNow(s)] :
                    s \in {x \in From(since) : Cardinality({y \in From(since) : y < x}) < page}}
Last(rows) == CHOOSE r \in rows : \A q \in rows : q.slot <= r.slot

\* insert_candles_batch: INSERT OR REPLACE
Insert(rows) == [s \in Slots |-> IF \E r \in rows : r.slot = s
                                   THEN (CHOOSE r \in rows : r.slot = s).form ELSE candles[s]]

Stored == {s \in Slots : candles[s] # "none"}

---------------------------------------------------------------------------
Tick == now < MaxTime /\ now' = now + 1 /\ UNCHANGED <<page, candles, sync, download, stops>>

\* _get_latest_ts, or a cold start
Since == IF Stored = {} THEN IF now > Lookback THEN now - Lookback ELSE 1 ELSE Max(Stored)

\* The newest candle of the table; nothing is done on a weekend.
Start(x) ==
  /\ sync[x].pc = "idle"
  /\ sync' = [sync EXCEPT ![x] = IF Weekend(now) THEN [Idle EXCEPT !.pc = "done"]
                                 ELSE [pc |-> "fetch", since |-> Since, rows |-> {}]]
  /\ UNCHANGED <<page, now, candles, download, stops>>

\* slip: the next page leaves out a candle
FetchSkips(x) ==
  /\ sync[x].pc = "fetch"
  /\ LET batch == Answer(sync[x].since)
         rows  == sync[x].rows \cup batch
         whole == Cardinality(batch) = page
     IN sync' = [sync EXCEPT ![x] =
          [pc    |-> IF batch = {} \/ ~whole THEN "insert" ELSE IF Cardinality(rows) >= Chunk THEN "chunk" ELSE "fetch",
           since |-> IF batch = {} THEN @.since ELSE Last(batch).slot + 2,
           rows  |-> rows]]
  /\ UNCHANGED <<page, now, candles, download, stops>>

\* A page; it is inserted at once when enough rows are held.
Fetch(x) ==
  /\ sync[x].pc = "fetch"
  /\ LET batch == Answer(sync[x].since)
         rows  == sync[x].rows \cup batch
         whole == Cardinality(batch) = page
     IN sync' = [sync EXCEPT ![x] =
          [pc    |-> IF batch = {} \/ ~whole THEN "insert" ELSE IF Cardinality(rows) >= Chunk THEN "chunk" ELSE "fetch",
           since |-> IF batch = {} THEN @.since ELSE Last(batch).slot + 1,
           rows  |-> rows]]
  /\ UNCHANGED <<page, now, candles, download, stops>>

\* The broker refuses the token: an empty page, and no error.
FetchRefused(x) ==
  /\ sync[x].pc = "fetch" /\ sync' = [sync EXCEPT ![x] = [@ EXCEPT !.pc = "insert"]]
  /\ UNCHANGED <<page, now, candles, download, stops>>

\* The request raises: what is held is inserted and the loop starts again later.
FetchFails(x) ==
  /\ sync[x].pc = "fetch" /\ candles' = Insert(sync[x].rows) /\ sync' = [sync EXCEPT ![x] = Idle]
  /\ UNCHANGED <<page, now, download, stops>>

InsertChunk(x) ==
  /\ sync[x].pc = "chunk" /\ candles' = Insert(sync[x].rows)
  /\ sync' = [sync EXCEPT ![x] = [@ EXCEPT !.pc = "fetch", !.rows = {}]]
  /\ UNCHANGED <<page, now, download, stops>>

InsertLast(x) ==
  /\ sync[x].pc = "insert" /\ candles' = Insert(sync[x].rows)
  /\ sync' = [sync EXCEPT ![x] = [Idle EXCEPT !.pc = "done"]]
  /\ UNCHANGED <<page, now, download, stops>>

\* The interval of the loop; the gap fill runs once.
Again(x) ==
  /\ sync[x].pc = "done" /\ x # "startup" /\ sync' = [sync EXCEPT ![x] = Idle]
  /\ UNCHANGED <<page, now, candles, download, stops>>

Restart ==
  /\ stops < MaxStops /\ stops' = stops + 1 /\ sync' = [x \in Syncs |-> Idle]
  /\ download' = [download EXCEPT !.pc = IF @ = "none" THEN @ ELSE "ended"]
  /\ UNCHANGED <<page, now, candles>>

---------------------------------------------------------------------------
\* The download job: from some years ago until the time it starts.
StartDownload ==
  /\ Downloads /\ download.pc = "none"
  /\ LET from == IF now > Years THEN now - Years ELSE 1
     IN download' = [pc |-> "fetch", at |-> from, from |-> from, end |-> now, rows |-> {}, failed |-> FALSE]
  /\ UNCHANGED <<page, now, candles, sync, stops>>

\* A page of complete candles before the end.
DownloadPage ==
  /\ download.pc = "fetch"
  /\ LET batch == {r \in Answer(download.at) : r.form = "final" /\ r.slot < download.end}
     IN download' = IF download.at >= download.end \/ batch = {} THEN [download EXCEPT !.pc = "insert"]
                    ELSE [download EXCEPT !.rows = @ \cup batch, !.at = Last(batch).slot + 1]
  /\ UNCHANGED <<page, now, candles, sync, stops>>

\* A request fails: the pages end here and what came is taken for all.
DownloadFails ==
  /\ download.pc = "fetch" /\ download.at < download.end
  /\ download' = [download EXCEPT !.pc = "insert", !.failed = TRUE]
  /\ UNCHANGED <<page, now, candles, sync, stops>>

DownloadInsert ==
  /\ download.pc = "insert" /\ candles' = Insert(download.rows)
  /\ download' = [download EXCEPT !.pc = "completed"]
  /\ UNCHANGED <<page, now, sync, stops>>

---------------------------------------------------------------------------
SyncStep(x) == Start(x) \/ Fetch(x) \/ FetchRefused(x) \/ FetchFails(x) \/ InsertChunk(x) \/ InsertLast(x) \/ Again(x)

Next ==
  \/ Tick \/ Restart \/ \E x \in Syncs : SyncStep(x)
  \/ StartDownload \/ DownloadPage \/ DownloadFails \/ DownloadInsert

Spec == Init /\ [][Next]_vars

\* Time passes; the loop never stops, and some request succeeds.
FairSpec == Spec /\ WF_vars(Tick) /\ \A x \in Syncs :
  /\ WF_vars(Start(x)) /\ SF_vars(Fetch(x)) /\ WF_vars(InsertChunk(x) \/ InsertLast(x)) /\ WF_vars(Again(x))

---------------------------------------------------------------------------
(* Reads.  The bounds are compared as strings with keys like               *)
(* "2024-01-02 10:00:00+00:00".  The page of prices writes its bounds with *)
(* "+0000", which comes before "+00:00"; a backtest gives dates, to which  *)
(* _normalize_ts adds "+00:00", which comes after a blank.                 *)
Day(s) == (s - 1) \div PerDay

ReadPrices(from, to) == {s \in Stored : from <= s /\ s < to}
ReadDates(d1, d2)    == {s \in Stored : d1 < Day(s) /\ Day(s) <= d2}

---------------------------------------------------------------------------
(* Properties.                                                             *)

\* The types of the state.
TypeOK ==
  /\ page \in Pages /\ now \in Slots /\ candles \in [Slots -> {"none", "forming", "final"}] /\ stops \in 0..MaxStops
  /\ \A x \in Syncs : sync[x].pc \in {"idle", "fetch", "chunk", "insert", "done"} /\ sync[x].since \in 0..MaxTime + 1
  /\ download.at \in 0..MaxTime /\ {r.slot : r \in download.rows} \subseteq Market

\* Between two stored candles every candle is stored, after any restart, as long
\* as no history is downloaded.
NoHole == download.pc = "none" => \A s \in Market : (\E a, b \in Stored : a < s /\ s < b) => s \in Stored

\* Only the newest candle may have been stored while it was forming, if an answer
\* has all of them.
FinalBehindNewest == page > MaxTime /\ download.pc = "none" => \A s \in Stored : s # Max(Stored) => candles[s] = "final"

\* A candle is never replaced by an older state of it.
NeverOlder == [][\A s \in Slots : candles[s] = "final" => candles'[s] = "final"]_vars

\* The table catches up with the market once and for all that is over.
CatchesUp == <>[](now \in Stored /\ \A s \in Stored : s < now => candles[s] = "final")

\* A download without an error has stored every candle of its years.
DownloadWhole == download.pc = "completed" /\ ~download.failed =>
                   \A s \in Market : download.from <= s /\ s < download.end => s \in Stored

\* A completed download has stored every candle of its years.
CompletedIsWhole == download.pc = "completed" =>
                      \A s \in Market : download.from <= s /\ s < download.end => s \in Stored

\* When the gap fill of the start-up is over, the newest candle is stored.
StartupFills == \A x \in Syncs : x = "startup" /\ sync[x].pc = "done" /\ Stored # {} =>
                  \A s \in Market : Max(Stored) < s => s >= now

\* A read by dates has every stored candle of its days.
DatesRead == \A d1, d2 \in 0..Day(MaxTime) :
               ReadDates(d1, d2) = {s \in Stored : d1 <= Day(s) /\ Day(s) <= d2}

=============================================================================
