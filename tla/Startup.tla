------------------------------- MODULE Startup -------------------------------
(***************************************************************************)
(* main.run up to the moment the servers listen, with denylist.New line by *)
(* line: the file is scanned once to count its entries and once to load    *)
(* them.  Firewall starts where this module ends.                          *)
(*                                                                         *)
(* Every step that can return an error may do so here, whatever the reason *)
(* (a bad file, URL, certificate, an over-long line).                      *)
(***************************************************************************)
EXTENDS Integers, Sequences, FiniteSets

CONSTANTS
  Capacities,  \* values of Server.ClientPoolCapacity
  BigPool,     \* 100: from this capacity on the pool starts with BigPool clients
  Tenths,      \* 10: progress is logged every totalEntries / Tenths tokens
  Line,        \* a line with a token on it
  Empty,       \* an empty line
  MaxLines,    \* the bound on the length of a denylist file
  NoFile       \* Denylist.Tokens.File is ""

ASSUME StartupAssumption ==
  /\ Capacities \subseteq Int
  /\ BigPool \in Nat \ {0} /\ Tenths \in Nat \ {0} /\ MaxLines \in Nat
  /\ Line # Empty

Files == UNION {[1 .. n -> {Line, Empty}] : n \in 0 .. MaxLines}

\* nil, as a *DeniedTokens
Nil == -1

VARIABLES
  stage,          \* where run() is
  capacity,       \* cfg.Server.ClientPoolCapacity
  file,           \* the denylist file, or NoFile
  pooled,         \* how many clients NewChanPool put into the pool
  pos,            \* lines of the file consumed since it was opened or rewound
  totalEntries,   \* non-empty lines counted
  numOfElements,  \* tokens the cache took
  reported,       \* tokens it refused, logged as errors
  deniedTokens    \* ElementsNum of what denylist.New returned, or Nil

vars == <<stage, capacity, file, pooled, pos, totalEntries, numOfElements, reported,
          deniedTokens>>
configVars == <<capacity, file>>
loadVars == <<pos, totalEntries, numOfElements, reported>>

Stages == {"config", "spec", "pool", "denylist", "count", "rewind", "load", "close",
           "loaded", "host", "serving", "exited", "failed", "panicked"}

TypeOK ==
  /\ stage \in Stages
  /\ capacity \in Capacities
  /\ file \in Files \cup {NoFile}
  /\ pooled \in 0 .. BigPool
  /\ pos \in 0 .. MaxLines
  /\ totalEntries \in 0 .. MaxLines
  /\ numOfElements \in 0 .. totalEntries
  /\ reported \in 0 .. totalEntries
  /\ deniedTokens \in 0 .. MaxLines \cup {Nil}

Init ==
  /\ stage = "config"
  /\ capacity \in Capacities
  /\ file \in Files \cup {NoFile}
  /\ pooled = 0
  /\ pos = 0 /\ totalEntries = 0 /\ numOfElements = 0 /\ reported = 0
  /\ deniedTokens = Nil

Goto(from, to) == stage = from /\ stage' = to

\* Return err: wherever a call may fail.
Fail ==
  /\ stage \in {"config", "spec", "pool", "denylist", "count", "rewind", "load", "close", "host"}
  /\ stage' = "failed"
  /\ UNCHANGED <<configVars, pooled, loadVars, deniedTokens>>

\* conf.Parse and the validator: --help and --version end here, a capacity that is not
\* positive is an error.
ParseConfig ==
  /\ \/ Goto("config", "exited")
     \/ capacity <= 0 /\ Goto("config", "failed")
     \/ capacity > 0 /\ Goto("config", "spec")
  /\ UNCHANGED <<configVars, pooled, loadVars, deniedTokens>>

\* The OpenAPI document, its routes, the backend's URL.
LoadSpec ==
  /\ Goto("spec", "pool")
  /\ UNCHANGED <<configVars, pooled, loadVars, deniedTokens>>

\* MUTANT: BigPool clients whatever the capacity.
initialCap_Fixed == BigPool

initialCap == IF capacity < BigPool THEN 1 ELSE BigPool

NewPool ==
  /\ \/ /\ initialCap > capacity
        /\ Goto("pool", "failed")
        /\ UNCHANGED pooled
     \/ /\ initialCap <= capacity
        /\ Goto("pool", "denylist")
        /\ pooled' = initialCap
  /\ UNCHANGED <<configVars, loadVars, deniedTokens>>

-----------------------------------------------------------------------------
(* denylist.New *)

\* No file: nil, nil.
OpenDenylist ==
  /\ IF file = NoFile THEN Goto("denylist", "loaded") ELSE Goto("denylist", "count")
  /\ UNCHANGED <<configVars, pooled, loadVars, deniedTokens>>

More == pos < Len(file)
Current == file[pos + 1]

\* MUTANT: the first scan begins at the second line.
CountLine_SkipsFirst ==
  /\ stage = "count" /\ More
  /\ totalEntries' = IF Current = Empty \/ pos = 0 THEN totalEntries ELSE totalEntries + 1
  /\ pos' = pos + 1
  /\ UNCHANGED <<stage, configVars, pooled, numOfElements, reported, deniedTokens>>

\* First scan.
CountLine ==
  /\ stage = "count" /\ More
  /\ totalEntries' = IF Current = Empty THEN totalEntries ELSE totalEntries + 1
  /\ pos' = pos + 1
  /\ UNCHANGED <<stage, configVars, pooled, numOfElements, reported, deniedTokens>>

CountDone ==
  /\ Goto("count", "rewind")
  /\ ~More
  /\ UNCHANGED <<configVars, pooled, loadVars, deniedTokens>>

\* MUTANT: the file is not rewound between the scans.
Rewind_NoSeek ==
  /\ IF totalEntries = 0 THEN Goto("rewind", "failed") ELSE Goto("rewind", "load")
  /\ UNCHANGED <<configVars, pooled, loadVars, deniedTokens>>

\* Seek to the start and make the cache, which refuses a capacity of zero.
Rewind ==
  /\ IF totalEntries = 0 THEN Goto("rewind", "failed") ELSE Goto("rewind", "load")
  /\ pos' = 0
  /\ UNCHANGED <<configVars, pooled, totalEntries, numOfElements, reported, deniedTokens>>

\* cache.Set took the token: numOfElements%totalEntries10P, an integer division by zero
\* when there are fewer than Tenths entries.
LoadToken ==
  /\ stage = "load" /\ More /\ Current # Empty
  /\ stage' = IF totalEntries \div Tenths = 0 THEN "panicked" ELSE stage
  /\ numOfElements' = numOfElements + 1
  /\ pos' = pos + 1
  /\ UNCHANGED <<configVars, pooled, totalEntries, reported, deniedTokens>>

\* cache.Set refused it.
RefuseToken ==
  /\ stage = "load" /\ More /\ Current # Empty
  /\ reported' = reported + 1
  /\ pos' = pos + 1
  /\ UNCHANGED <<stage, configVars, pooled, totalEntries, numOfElements, deniedTokens>>

SkipLine ==
  /\ stage = "load" /\ More /\ Current = Empty
  /\ pos' = pos + 1
  /\ UNCHANGED <<stage, configVars, pooled, totalEntries, numOfElements, reported, deniedTokens>>

LoadDone ==
  /\ Goto("load", "close")
  /\ ~More
  /\ UNCHANGED <<configVars, pooled, loadVars, deniedTokens>>

CloseFile ==
  /\ Goto("close", "loaded")
  /\ deniedTokens' = totalEntries
  /\ UNCHANGED <<configVars, pooled, loadVars>>

-----------------------------------------------------------------------------

\* "Loaded %d tokens to the cache": the field of a nil pointer when there is no file.
LogLoaded ==
  /\ IF deniedTokens = Nil THEN Goto("loaded", "panicked") ELSE Goto("loaded", "host")
  /\ UNCHANGED <<configVars, pooled, loadVars, deniedTokens>>

\* The API host's URL, the handlers, the two listeners.
Listen ==
  /\ Goto("host", "serving")
  /\ UNCHANGED <<configVars, pooled, loadVars, deniedTokens>>

Done == stage \in {"serving", "exited", "failed", "panicked"} /\ UNCHANGED vars

Next ==
  \/ Fail \/ ParseConfig \/ LoadSpec \/ NewPool \/ OpenDenylist
  \/ CountLine \/ CountDone \/ Rewind
  \/ LoadToken \/ RefuseToken \/ SkipLine \/ LoadDone \/ CloseFile
  \/ LogLoaded \/ Listen \/ Done

Spec == Init /\ [][Next]_vars

-----------------------------------------------------------------------------
(* Properties *)

\* The entries of the file, counted without scanning.
Entries == Cardinality({i \in DOMAIN file : file[i] = Line})

\* A firewall that serves with a denylist has offered every entry of the file to the
\* cache, once, and what the cache refused is in the log; its ElementsNum is the number
\* of entries, so that mid.Denylist looks tokens up whenever there is one.
EveryEntryOffered ==
  stage = "serving" /\ file # NoFile =>
    /\ numOfElements + reported = Entries
    /\ deniedTokens = Entries

\* A validated capacity always gives a pool with a client in it: on neither side of
\* the BigPool threshold does NewChanPool's own test of its two capacities fail.
CapacityAccepted == stage = "pool" => initialCap \in 1 .. capacity

\* What mid/denylist.go:22 says, "check existence and emptiness of the cache", and
\* config.go:37, where the file is empty by default: the denylist is optional.
DenylistOptional == file = NoFile => stage # "panicked"

\* What denylist.go:39 says, "count non-empty entries": any number of them can be
\* loaded, and an entry is never what brings the process down.
AnyNumberOfEntriesLoads == file # NoFile => stage # "panicked"
==============================================================================
