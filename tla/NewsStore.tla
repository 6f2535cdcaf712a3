------------------------------ MODULE NewsStore ------------------------------
(* The archive of news articles: fetch_all of news/scraper.py, with          *)
(* load_cache and save_cache, as the request threads of the service, the     *)
(* news socket and the workers call it, without a lock.  A step of a caller  *)
(* runs from one access to a file or a feed to the next.                     *)
EXTENDS Integers, FiniteSets

CONSTANTS Fetchers,
          Window,   \* how long a feed shows an article
          Keep,     \* how long the archive keeps one: 60 days
          Limit,    \* how many it keeps: 2000
          MaxTime, MaxStops  \* bounds

NewsAssumption ==
  /\ {Window, Limit, MaxTime} \subseteq Nat \ {0} /\ {Keep, MaxStops} \subseteq Nat

VARIABLES
  now,
  file, tmp,  \* articles.parquet and articles.tmp: [is, has]
  caller,     \* per caller: [at, list, fd, latest]
  shared,     \* whether one opened the temporary file while another was about it
  stops

news == <<now, file, tmp, caller, shared, stops>>

(* An article is the time it appeared; one appears at each time.             *)
Feed == {t \in 1..now : t > now - Window}

NoFile == [is |-> "absent", has |-> {}]
AtRest == [at |-> "idle", list |-> {}, fd |-> "none", latest |-> FALSE]
Saving(c) == caller[c].at \in {"write", "replace"}

----------------------------------------------------------------------------
(* fetch_all.                                                                *)

(* A file that is half written or was written by two is unreadable, and then *)
(* the archive is taken for empty; one written by two may also be read.      *)
LoadCache(c) ==
  /\ caller[c].at = "idle"
  /\ \E had \in {file.has} \cup (IF file.is = "mixed" THEN {{}} ELSE {}) :
       caller' = [caller EXCEPT ![c] = [at |-> "fetch", list |-> IF file.is = "part" THEN {} ELSE had,
                                        fd |-> "none", latest |-> TRUE]]
  /\ UNCHANGED <<now, file, tmp, shared, stops>>

(* The feeds, or none if they cannot be reached.                             *)
FetchRss(c) ==
  /\ caller[c].at = "fetch"
  /\ \E fresh \in {Feed \ caller[c].list, {}} :
       caller' = [caller EXCEPT ![c].list = @ \cup fresh, ![c].at = IF fresh = {} THEN "idle" ELSE "save"]
  /\ UNCHANGED <<now, file, tmp, shared, stops>>

----------------------------------------------------------------------------
(* save_cache: the newest of the young articles, to the temporary file that  *)
(* all callers share, which then takes the place of the archive.             *)

\* slip: one article less than the limit
TrimShort(list) == {a \in list : a >= now - Keep /\ Cardinality({b \in list : b > a}) < Limit - 1}

Trim(list) == {a \in list : a >= now - Keep /\ Cardinality({b \in list : b > a}) < Limit}

OpenTmp(c) ==
  /\ caller[c].at = "save"
  /\ tmp' = [is |-> IF \E d \in Fetchers : caller[d].fd = "tmp" THEN "mixed" ELSE "part", has |-> {}]
  /\ caller' = [caller EXCEPT ![c].list = Trim(@), ![c].fd = "tmp", ![c].at = "write"]
  /\ shared' = (shared \/ \E d \in Fetchers \ {c} : Saving(d))
  /\ UNCHANGED <<now, file, stops>>

Written(f, list) == [is |-> IF f.is = "mixed" THEN "mixed" ELSE "whole", has |-> list]

(* The file that was opened may have taken the archive's place since.        *)
WriteTmp(c) ==
  /\ caller[c].at = "write"
  /\ tmp'  = IF caller[c].fd = "tmp"  THEN Written(tmp, caller[c].list)  ELSE tmp
  /\ file' = IF caller[c].fd = "file" THEN Written(file, caller[c].list) ELSE file
  /\ caller' = [caller EXCEPT ![c].fd = "none", ![c].at = "replace"]
  /\ UNCHANGED <<now, shared, stops>>

(* What a file opened before is after the rename.                            *)
Moved(fd) == CASE fd = "tmp" -> "file" [] fd = "file" -> "gone" [] OTHER -> fd

Replace(c) ==
  /\ caller[c].at = "replace" /\ tmp.is # "absent"
  /\ file' = tmp /\ tmp' = NoFile
  /\ caller' = [d \in Fetchers |->
       IF d = c THEN AtRest
       ELSE [caller[d] EXCEPT !.fd = Moved(@), !.latest = FALSE]]
  /\ UNCHANGED <<now, shared, stops>>

(* Another has taken the temporary file away, or (on Windows) has it open.   *)
ReplaceFails(c) ==
  /\ caller[c].at = "replace" /\ (tmp.is = "absent" \/ \E d \in Fetchers : caller[d].fd = "tmp")
  /\ caller' = [caller EXCEPT ![c] = AtRest]
  /\ UNCHANGED <<now, file, tmp, shared, stops>>

----------------------------------------------------------------------------
NewsTick ==
  /\ now < MaxTime /\ now' = now + 1
  /\ UNCHANGED <<file, tmp, caller, shared, stops>>

(* The service is killed: what was half written stays so.                    *)
Killed ==
  /\ stops < MaxStops /\ stops' = stops + 1
  /\ caller' = [c \in Fetchers |-> AtRest]
  /\ UNCHANGED <<now, file, tmp, shared>>

NewsInit ==
  /\ now = 1 /\ file = NoFile /\ tmp = NoFile /\ stops = 0
  /\ caller = [c \in Fetchers |-> AtRest] /\ shared = FALSE

Fetches(c) == LoadCache(c) \/ FetchRss(c) \/ OpenTmp(c) \/ WriteTmp(c) \/ Replace(c) \/ ReplaceFails(c)

NewsNext == (\E c \in Fetchers : Fetches(c)) \/ NewsTick \/ Killed

NewsSpec == NewsInit /\ [][NewsNext]_news

(* A caller asks again and again, as the news socket does every 30 seconds,  *)
(* and the feeds can be reached again and again.                             *)
NewsFairSpec ==
  /\ NewsSpec /\ WF_news(NewsTick)
  /\ \A c \in Fetchers : WF_news(Fetches(c)) /\ SF_news(FetchRss(c) /\ caller'[c].at = "save")

----------------------------------------------------------------------------
NewsTypeOK ==
  /\ now \in 1..MaxTime /\ stops \in 0..MaxStops /\ shared \in BOOLEAN
  /\ {file, tmp} \subseteq [is : {"absent", "part", "whole", "mixed"}, has : SUBSET (1..now)]
  /\ caller \in [Fetchers -> [at : {"idle", "fetch", "save", "write", "replace"}, list : SUBSET (1..now),
                             fd : {"none", "tmp", "file", "gone"}, latest : BOOLEAN]]

(* The archive is whole whenever it is read, though the service was killed   *)
(* while it was written, as long as two callers do not save at once.         *)
ArchiveWhole == ~shared => file.is \in {"absent", "whole"}

(* A save leaves out of the archive only what is too old or has Limit newer  *)
(* articles before it, unless another caller saved since this one loaded.    *)
ArchiveKeeps ==
  [][\A c \in Fetchers :
       caller[c].at = "replace" /\ caller'[c].at = "idle" /\ file' # file /\ caller[c].latest /\ ~shared =>
         \A a \in file.has \ file'.has : a < now - Keep \/ Cardinality({b \in file'.has : b > a}) >= Limit]_news

ArchiveHolds == []ArchiveWhole /\ ArchiveKeeps

(* The archive catches up with the feeds.                                    *)
CatchesUp == <>[](\A a \in Feed : a \in file.has \/ a \notin Trim(Feed \cup file.has))

=============================================================================
