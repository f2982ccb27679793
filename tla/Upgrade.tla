-------------------------------- MODULE Upgrade --------------------------------
(***************************************************************************)
(* How darq replaces its own binary, and how it learns that there is a      *)
(* newer one (cli.py, core/upgrade.py, infra/downloader_http.py): several   *)
(* processes at once, each with the version and the clock it was started    *)
(* with, over one binary and one cache that nothing locks; and a server     *)
(* whose latest release, checksums and binaries change between two          *)
(* requests.                                                               *)
(*                                                                         *)
(* A process checks once, when the interface opens. Hours stand for time;   *)
(* a request may take any of it.                                           *)
(***************************************************************************)
EXTENDS Integers, Sequences, FiniteSets

CONSTANTS
  Processes,
  Versions,     \* the spellings of released versions
  KeyOf,        \* version -> its numbers, None when it is not numeric
  Unsafe,       \* versions SAFE_VERSION does not match
  SuccessTtl, FailureTtl,   \* UPDATE_CHECK_TTL_SECONDS, UPDATE_CHECK_FAILURE_TTL_SECONDS
  MaxBuilds, MaxEvents,   \* bounds on the instance TLC explores
  None

Stamps  == 0..MaxEvents \cup {None}
Cached  == [latest : Versions \cup {None}, success : Stamps, failure : Stamps]
Started == [version : Versions, now : 0..MaxEvents]

ASSUME Parameters ==
  /\ KeyOf \in [Versions -> Seq(Nat) \cup {None}] /\ Unsafe \subseteq Versions
  /\ {SuccessTtl, FailureTtl, MaxEvents} \subseteq Nat
  /\ MaxBuilds \in Nat \ {0}
  /\ None \notin Versions /\ None \notin 0..MaxEvents
  /\ None \notin Cached /\ None \notin Started

Builds == 1..MaxBuilds
Damaged == 0   \* bytes nobody published

VARIABLES
  hour,
  latest,    \* the version the release server calls the latest
  asset,     \* version -> the build its checksum names, and the bytes served
  binary,    \* the binary on disk: a version and a build
  cache,     \* update-check.json: [latest, success, failure], or None
  proc,      \* process -> the version and clock it started with, or None
  check,     \* process -> the cache its check read, while it asks; else None
  upgrading, \* process -> its upgrade: phase, version, expected checksum, bytes
  vouched,   \* ghost: version -> the builds its checksum ever named
  answered,  \* ghost: the last answer a check wrote, and its clock
  failed,    \* ghost: the clock of the last failure a check wrote
  crossed,   \* ghost: a check began while another one was asking
  releases   \* bound: what happened on the server

server == <<latest, asset, releases>>
checks == <<cache, check, answered, failed, crossed>>
upgrades == <<binary, upgrading>>
vars == <<hour, server, vouched, proc, checks, upgrades>>

Resting == [phase |-> "none"]

-----------------------------------------------------------------------------
(* _is_older: numbers compared with the shorter one padded with zeros; a    *)
(* version that is not numeric is provably older than none.                *)
Part(v, i) == IF i <= Len(KeyOf[v]) THEN KeyOf[v][i] ELSE 0
IsOlder(v, w) ==
  /\ KeyOf[v] # None /\ KeyOf[w] # None
  /\ \E i \in 1..(Len(KeyOf[v]) + Len(KeyOf[w])) :
       /\ Part(v, i) < Part(w, i)
       /\ \A j \in 1..(i - 1) : Part(v, j) = Part(w, j)

(* _timestamp_is_fresh, by the clock the process started with.              *)
Fresh(stamp, now, ttl) == stamp # None /\ now - stamp < ttl
(* A failure is trusted for less time than an answer; either one means the  *)
(* network is left alone.                                                  *)
Trusted(now) ==
  /\ cache # None
  /\ Fresh(cache.failure, now, FailureTtl) \/ Fresh(cache.success, now, SuccessTtl)

(* _write_update_cache: what this process read, and what it has learned.    *)
Learned(version, now) == [latest |-> version, success |-> now, failure |-> None]

(* Broken: a failure starts from nothing.                                  *)
MissedAfresh(read, now) == [latest |-> None, success |-> None, failure |-> now]

Missed(read, now) ==
  IF read = None THEN [latest |-> None, success |-> None, failure |-> now]
  ELSE [read EXCEPT !.failure = now]

-----------------------------------------------------------------------------
(* The interface opens: it runs the binary there is, and its check reads    *)
(* the cache, answers from it or begins to ask; a user may have turned it   *)
(* off.                                                                    *)
NoCache == [latest |-> None, success |-> None, failure |-> None]
Launch(p) ==
  /\ proc[p] = None
  /\ proc' = [proc EXCEPT ![p] = [version |-> binary.version, now |-> hour]]
  /\ \/ UNCHANGED <<check, crossed>>
     \/ /\ ~Trusted(hour)
        /\ check' = [check EXCEPT ![p] = [read |-> IF cache = None THEN NoCache ELSE cache]]
        /\ crossed' = (crossed \/ \E q \in Processes : check[q] # None)
  /\ UNCHANGED <<hour, server, vouched, cache, answered, failed, upgrades>>

(* The cache is written with the process's own clock, or could not be.      *)
CheckAnswers(p) ==
  /\ check[p] # None
  /\ check' = [check EXCEPT ![p] = None]
  /\ \/ /\ cache' = Learned(latest, proc[p].now)
        /\ answered' = [version |-> latest, at |-> proc[p].now]
        /\ failed' = None
     \/ UNCHANGED <<cache, answered, failed>>
  /\ UNCHANGED <<hour, server, vouched, proc, crossed, upgrades>>
CheckFails(p) ==
  /\ check[p] # None
  /\ check' = [check EXCEPT ![p] = None]
  /\ \/ cache' = Missed(check[p].read, proc[p].now) /\ failed' = proc[p].now
     \/ UNCHANGED <<cache, failed>>
  /\ UNCHANGED <<hour, server, vouched, proc, answered, crossed, upgrades>>

-----------------------------------------------------------------------------
(* upgrade: the latest version is asked for, never read from the cache, and *)
(* compared with the version that is running.                              *)
BeginUpgrade(p) ==
  /\ proc[p] # None /\ upgrading[p] = Resting
  /\ latest # proc[p].version /\ ~IsOlder(latest, proc[p].version)
  /\ upgrading' = [upgrading EXCEPT ![p] = [phase |-> "checksum", version |-> latest]]
  /\ UNCHANGED <<hour, server, vouched, proc, checks, binary>>

(* fetch_and_verify: the checksum, then the bytes, each as they are served  *)
(* at that moment. No address is made of an unsafe version.                 *)
FetchChecksum(p) ==
  LET u == upgrading[p] IN
  /\ u.phase = "checksum" /\ u.version \notin Unsafe
  /\ upgrading' = [upgrading EXCEPT ![p] =
       [phase |-> "bytes", version |-> u.version, expected |-> asset[u.version].checksum]]
  /\ UNCHANGED <<hour, server, vouched, proc, checks, binary>>

(* Broken: bytes are bytes.                                                *)
Downloaded(u, bytes) == bytes \in Nat

Verified(u, bytes) == bytes = u.expected

FetchBinary(p) ==
  LET u == upgrading[p]
      bytes == asset[u.version].bytes
  IN  /\ u.phase = "bytes" /\ Verified(u, bytes)
      /\ upgrading' = [upgrading EXCEPT ![p] =
           [phase |-> "replace", version |-> u.version, bytes |-> bytes]]
      /\ UNCHANGED <<hour, server, vouched, proc, checks, binary>>

(* replace_binary: atomic, and the process goes on running what it ran.     *)
Replace(p) ==
  LET u == upgrading[p] IN
  /\ u.phase = "replace"
  /\ binary' = [version |-> u.version, build |-> u.bytes]
  /\ upgrading' = [upgrading EXCEPT ![p] = Resting]
  /\ UNCHANGED <<hour, server, vouched, proc, checks>>

(* An unsafe version, a request that fails, a digest that does not match or *)
(* a binary that cannot be written: nothing was replaced.                   *)
GiveUp(p) ==
  /\ upgrading[p] # Resting
  /\ upgrading' = [upgrading EXCEPT ![p] = Resting]
  /\ UNCHANGED <<hour, server, vouched, proc, checks, binary>>

(* Broken: the check goes on after the process.                            *)
QuitAtOnce(p) ==
  /\ proc[p] # None
  /\ proc' = [proc EXCEPT ![p] = None]
  /\ upgrading' = [upgrading EXCEPT ![p] = Resting]
  /\ UNCHANGED <<hour, server, vouched, checks, binary>>

(* The process ends, or is killed: its check and its upgrade end with it.   *)
Quit(p) ==
  /\ proc[p] # None
  /\ proc' = [proc EXCEPT ![p] = None]
  /\ check' = [check EXCEPT ![p] = None]
  /\ upgrading' = [upgrading EXCEPT ![p] = Resting]
  /\ UNCHANGED <<hour, server, vouched, cache, answered, failed, crossed, binary>>

-----------------------------------------------------------------------------
(* The release server. A release may be withdrawn, so that the latest one   *)
(* goes back; a rebuilt one has its checksum and its bytes replaced one     *)
(* after the other; a proxy may serve anything.                            *)
Happens == hour + releases < MaxEvents /\ releases' = releases + 1
Named(v) ==
  /\ Happens /\ v # latest /\ latest' = v
  /\ UNCHANGED <<hour, asset, vouched, proc, checks, upgrades>>
Uploaded(v, b) ==
  /\ Happens
  /\ \/ asset' = [asset EXCEPT ![v].checksum = b] /\ vouched' = [vouched EXCEPT ![v] = @ \cup {b}]
     \/ asset' = [asset EXCEPT ![v].bytes = b] /\ UNCHANGED vouched
  /\ UNCHANGED <<hour, latest, proc, checks, upgrades>>
Corrupted(v) ==
  /\ Happens /\ asset' = [asset EXCEPT ![v].bytes = Damaged]
  /\ UNCHANGED <<hour, latest, vouched, proc, checks, upgrades>>

Tick ==
  /\ hour + releases < MaxEvents /\ hour' = hour + 1
  /\ UNCHANGED <<server, vouched, proc, checks, upgrades>>

Init ==
  /\ hour = 0 /\ releases = 0
  /\ asset = [v \in Versions |-> [checksum |-> 1, bytes |-> 1]]
  /\ vouched = [v \in Versions |-> {1}]
  /\ binary \in [version : Versions, build : {1}] /\ latest = binary.version
  /\ cache = None /\ answered = None /\ failed = None /\ crossed = FALSE
  /\ proc = [p \in Processes |-> None] /\ check = proc
  /\ upgrading = [p \in Processes |-> Resting]

Next ==
  \/ \E p \in Processes :
       \/ Launch(p) \/ CheckAnswers(p) \/ CheckFails(p)
       \/ BeginUpgrade(p) \/ FetchChecksum(p) \/ FetchBinary(p) \/ Replace(p) \/ GiveUp(p)
       \/ Quit(p)
  \/ \E v \in Versions : Named(v) \/ Corrupted(v) \/ \E b \in Builds : Uploaded(v, b)
  \/ Tick

Spec == Init /\ [][Next]_vars

-----------------------------------------------------------------------------
(* Properties.                                                             *)

(* Type invariant. A cache with a latest version has the time of a success, *)
(* and none that holds neither an answer nor a failure is ever written.     *)
TypeOK ==
  /\ hour \in 0..MaxEvents /\ latest \in Versions
  /\ binary \in [version : Versions, build : Builds]
  /\ cache \in Cached \cup {None}
  /\ cache # None =>
       /\ cache.latest # None <=> cache.success # None
       /\ cache.success # None \/ cache.failure # None
  /\ proc \in [Processes -> Started \cup {None}]
  /\ \A p \in Processes : proc[p] = None => check[p] = None /\ upgrading[p] = Resting

(* The binary is replaced only by bytes some published checksum of that     *)
(* version names, whatever was served; never by a version provably older    *)
(* than the one that asked, and so, unless another process replaced it      *)
(* meanwhile, never by one older than what was there.                       *)
ReplacedSafely ==
  [][binary' # binary =>
       /\ binary'.build \in vouched[binary'.version]
       /\ binary'.version \notin Unsafe
       /\ \E p \in Processes :
            /\ upgrading[p].phase = "replace" /\ upgrading'[p] = Resting
            /\ ~IsOlder(binary'.version, proc[p].version)
            /\ proc[p].version = binary.version => ~IsOlder(binary'.version, binary.version)]_vars

(* Checks that do not overlap never lose the version that was learned, and  *)
(* a process asks again only when the last failure is FailureTtl old and    *)
(* the last answer SuccessTtl old: the server limits anonymous requests.    *)
AsksSparingly ==
  [][~crossed' =>
       /\ answered # None => cache'.latest = answered'.version
       /\ \A p \in Processes : (check[p] = None /\ check'[p] # None) =>
            /\ failed # None => hour - failed >= FailureTtl
            /\ answered # None => hour - answered.at >= SuccessTtl]_vars
=============================================================================
