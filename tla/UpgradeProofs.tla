----------------------------- MODULE UpgradeProofs -----------------------------
(***************************************************************************)
(* Theorems about Upgrade: for any number of processes, versions, builds    *)
(* and hours, whatever the server does between two requests.               *)
(***************************************************************************)
EXTENDS Upgrade, TLAPS

Upgrades ==
  {Resting}
    \cup [phase : {"checksum"}, version : Versions]
    \cup [phase : {"bytes"}, version : Versions, expected : Builds]
    \cup [phase : {"replace"}, version : Versions, bytes : Builds]

Paired(c) == c.latest # None <=> c.success # None

(* What a checksum names now, it has named.                                *)
ServerInv ==
  /\ releases \in Nat
  /\ asset \in [Versions -> [checksum : Builds, bytes : Builds \cup {Damaged}]]
  /\ vouched \in [Versions -> SUBSET Builds]
  /\ \A v \in Versions : asset[v].checksum \in vouched[v]

CheckInv ==
  /\ check \in [Processes -> [read : Cached] \cup {None}]
  /\ \A p \in Processes : check[p] # None => Paired(check[p].read)

(* What a process has fetched was vouched for when it fetched it, and what  *)
(* was ever vouched for stays so.                                          *)
UpgradeInv ==
  /\ upgrading \in [Processes -> Upgrades]
  /\ \A p \in Processes :
       LET u == upgrading[p] IN
       /\ u # Resting => ~ IsOlder(u.version, proc[p].version)
       /\ u.phase \in {"bytes", "replace"} => u.version \notin Unsafe
       /\ u.phase = "bytes" => u.expected \in vouched[u.version]
       /\ u.phase = "replace" => u.bytes \in vouched[u.version]

Inv == TypeOK /\ ServerInv /\ CheckInv /\ UpgradeInv

-----------------------------------------------------------------------------
LEMMA InvInit == Init => Inv
<1> SUFFICES ASSUME Init PROVE Inv  OBVIOUS
<1>1. 1 \in Builds /\ MaxEvents \in Nat
  BY Parameters DEF Builds
<1>2. TypeOK
  BY <1>1, Parameters DEF Init, TypeOK, Cached, Stamps
<1>3. ServerInv
  BY <1>1 DEF Init, ServerInv
<1>4. CheckInv
  BY DEF Init, CheckInv
<1>5. UpgradeInv
  BY DEF Init, UpgradeInv, Upgrades, Resting
<1> QED  BY <1>2, <1>3, <1>4, <1>5 DEF Inv

LEMMA TypesNext == Inv /\ [Next]_vars => TypeOK'
<1> SUFFICES ASSUME Inv, [Next]_vars PROVE TypeOK'  OBVIOUS
<1> USE Parameters DEF Inv
<1>1. CASE UNCHANGED vars
  BY <1>1 DEF TypeOK, vars, server, checks, upgrades
<1>2. ASSUME NEW p \in Processes, Launch(p) PROVE TypeOK'
  <2>1. UNCHANGED <<hour, latest, binary, cache, upgrading>>
    BY <1>2 DEF Launch, server, upgrades
  <2> DEFINE started == [version |-> binary.version, now |-> hour]
  <2>2. started \in Started
    BY DEF TypeOK, Started
  <2>3. started # None
    BY <2>2
  <2>4. proc' = [proc EXCEPT ![p] = started]
    BY <1>2 DEF Launch
  <2> HIDE DEF started
  <2>5. \A q \in Processes \ {p} : check'[q] = check[q]
    BY <1>2 DEF Launch, CheckInv
  <2> QED  BY <2>1, <2>2, <2>3, <2>4, <2>5 DEF TypeOK
<1>3. ASSUME NEW p \in Processes, CheckAnswers(p) PROVE TypeOK'
  <2>1. proc[p] \in Started
    BY <1>3 DEF CheckAnswers, TypeOK
  <2>2. Learned(latest, proc[p].now) \in Cached
    BY <2>1 DEF Learned, Cached, Stamps, Started, TypeOK
  <2>3. cache' = Learned(latest, proc[p].now) \/ cache' = cache
    BY <1>3 DEF CheckAnswers
  <2>4. /\ cache' \in Cached \cup {None}
        /\ cache' # None => /\ cache'.latest # None <=> cache'.success # None
                            /\ cache'.success # None \/ cache'.failure # None
    BY <2>1, <2>2, <2>3 DEF Learned, Started, TypeOK
  <2> QED  BY <1>3, <2>4 DEF CheckAnswers, TypeOK, CheckInv, server, upgrades
<1>4. ASSUME NEW p \in Processes, CheckFails(p) PROVE TypeOK'
  <2>1. proc[p] \in Started
    BY <1>4 DEF CheckFails, TypeOK
  <2>2. check[p].read \in Cached /\ Paired(check[p].read)
    BY <1>4 DEF CheckFails, CheckInv
  <2> DEFINE m == Missed(check[p].read, proc[p].now)
  <2>3. m \in Cached /\ Paired(m) /\ m.failure # None
    BY <2>1, <2>2 DEF Missed, Cached, Stamps, Started, Paired
  <2>4. cache' = m \/ cache' = cache
    BY <1>4 DEF CheckFails
  <2> HIDE DEF m
  <2>5. cache' # None =>
          /\ cache'.latest # None <=> cache'.success # None
          /\ cache'.success # None \/ cache'.failure # None
    BY <2>3, <2>4 DEF Paired, TypeOK
  <2>6. cache' \in Cached \cup {None}
    BY <2>3, <2>4 DEF TypeOK
  <2> QED  BY <1>4, <2>5, <2>6 DEF CheckFails, TypeOK, CheckInv, server, upgrades
<1>5. ASSUME NEW p \in Processes,
             BeginUpgrade(p) \/ FetchChecksum(p) \/ FetchBinary(p) \/ GiveUp(p)
      PROVE  TypeOK'
  <2>1. upgrading[p] # Resting \/ proc[p] # None
    BY <1>5 DEF BeginUpgrade, FetchChecksum, FetchBinary, GiveUp, Resting
  <2>2. \A q \in Processes \ {p} : upgrading'[q] = upgrading[q]
    BY <1>5 DEF BeginUpgrade, FetchChecksum, FetchBinary, GiveUp, UpgradeInv
  <2>3. UNCHANGED <<hour, latest, binary, cache, proc, check>>
    BY <1>5 DEF BeginUpgrade, FetchChecksum, FetchBinary, GiveUp, server, checks
  <2> QED  BY <2>1, <2>2, <2>3 DEF TypeOK
<1>6. ASSUME NEW p \in Processes, Replace(p) PROVE TypeOK'
  <2>1. upgrading[p] \in [phase : {"replace"}, version : Versions, bytes : Builds]
    BY <1>6 DEF Replace, UpgradeInv, Upgrades, Resting
  <2> QED  BY <1>6, <2>1 DEF Replace, TypeOK, UpgradeInv, server, checks
<1>7. ASSUME NEW p \in Processes, Quit(p) PROVE TypeOK'
  BY <1>7 DEF Quit, TypeOK, CheckInv, UpgradeInv, server
<1>8. ASSUME NEW v \in Versions, Named(v) \/ Corrupted(v) \/ \E b \in Builds : Uploaded(v, b)
      PROVE  TypeOK'
  BY <1>8 DEF Named, Corrupted, Uploaded, TypeOK, checks, upgrades
<1>9. CASE Tick
  <2>1. hour' \in 0..MaxEvents
    BY <1>9 DEF Tick, TypeOK, ServerInv
  <2> QED  BY <1>9, <2>1 DEF Tick, TypeOK, server, checks, upgrades
<1> QED
  BY <1>1, <1>2, <1>3, <1>4, <1>5, <1>6, <1>7, <1>8, <1>9 DEF Next

LEMMA ServerNext == Inv /\ [Next]_vars => ServerInv'
<1> SUFFICES ASSUME Inv, [Next]_vars PROVE ServerInv'  OBVIOUS
<1> USE DEF Inv
<1>1. ASSUME UNCHANGED <<server, vouched>> PROVE ServerInv'
  BY <1>1 DEF ServerInv, server
<1>2. ASSUME NEW v \in Versions, NEW b \in Builds, Uploaded(v, b) PROVE ServerInv'
  <2>1. releases' \in Nat
    BY <1>2 DEF Uploaded, Happens, ServerInv
  <2>2. CASE /\ asset' = [asset EXCEPT ![v].checksum = b]
             /\ vouched' = [vouched EXCEPT ![v] = @ \cup {b}]
    BY <2>1, <2>2 DEF ServerInv
  <2>3. CASE asset' = [asset EXCEPT ![v].bytes = b] /\ UNCHANGED vouched
    BY <2>1, <2>3 DEF ServerInv
  <2> QED  BY <1>2, <2>2, <2>3 DEF Uploaded
<1>3. ASSUME NEW v \in Versions, Corrupted(v) PROVE ServerInv'
  BY <1>3 DEF Corrupted, Happens, ServerInv
<1>4. ASSUME NEW v \in Versions, Named(v) PROVE ServerInv'
  BY <1>4 DEF Named, Happens, ServerInv
<1>5. ASSUME NEW p \in Processes,
             \/ Launch(p) \/ CheckAnswers(p) \/ CheckFails(p) \/ BeginUpgrade(p)
             \/ FetchChecksum(p) \/ FetchBinary(p) \/ Replace(p) \/ GiveUp(p) \/ Quit(p)
      PROVE  UNCHANGED <<server, vouched>>
  BY <1>5 DEF Launch, CheckAnswers, CheckFails, BeginUpgrade, FetchChecksum,
              FetchBinary, Replace, GiveUp, Quit
<1>6. Tick \/ UNCHANGED vars => UNCHANGED <<server, vouched>>
  BY DEF Tick, vars
<1> QED  BY <1>1, <1>2, <1>3, <1>4, <1>5, <1>6 DEF Next

LEMMA CheckNext == Inv /\ [Next]_vars => CheckInv'
<1> SUFFICES ASSUME Inv, [Next]_vars PROVE CheckInv'  OBVIOUS
<1> USE DEF Inv
<1>1. ASSUME UNCHANGED check PROVE CheckInv'
  BY <1>1 DEF CheckInv
<1>2. ASSUME NEW p \in Processes, Launch(p) PROVE CheckInv'
  <2> DEFINE read == IF cache = None THEN NoCache ELSE cache
  <2>1. read \in Cached /\ Paired(read)
    BY DEF TypeOK, NoCache, Cached, Stamps, Paired
  <2>2. UNCHANGED check \/ check' = [check EXCEPT ![p] = [read |-> read]]
    BY <1>2 DEF Launch
  <2> HIDE DEF read
  <2> QED  BY <2>1, <2>2 DEF CheckInv, Paired
<1>3. ASSUME NEW p \in Processes, CheckAnswers(p) \/ CheckFails(p) \/ Quit(p)
      PROVE  CheckInv'
  <2>1. check' = [check EXCEPT ![p] = None]
    BY <1>3 DEF CheckAnswers, CheckFails, Quit
  <2> QED  BY <2>1 DEF CheckInv, Paired
<1>4. ASSUME NEW p \in Processes,
             \/ BeginUpgrade(p) \/ FetchChecksum(p) \/ FetchBinary(p)
             \/ Replace(p) \/ GiveUp(p)
      PROVE  UNCHANGED check
  BY <1>4 DEF BeginUpgrade, FetchChecksum, FetchBinary, Replace, GiveUp, checks
<1>5. ASSUME NEW v \in Versions, Named(v) \/ Corrupted(v) \/ \E b \in Builds : Uploaded(v, b)
      PROVE  UNCHANGED check
  BY <1>5 DEF Named, Corrupted, Uploaded, checks
<1>6. Tick \/ UNCHANGED vars => UNCHANGED check
  BY DEF Tick, vars, checks
<1> QED  BY <1>1, <1>2, <1>3, <1>4, <1>5, <1>6 DEF Next

(* An upgrade under way is not disturbed by what others do: no version is   *)
(* vouched for less, and no process changes its own version.               *)
LEMMA UpgradeKept ==
  ASSUME Inv, UNCHANGED upgrading,
         \A v \in Versions : vouched[v] \subseteq vouched'[v],
         \A p \in Processes : upgrading[p] # Resting => proc'[p] = proc[p]
  PROVE  UpgradeInv'
<1>1. ASSUME NEW p \in Processes, upgrading[p] # Resting
      PROVE  upgrading[p].version \in Versions
  BY <1>1 DEF Inv, UpgradeInv, Upgrades
<1>2. ASSUME NEW p \in Processes, upgrading[p] = Resting
      PROVE  upgrading[p].phase = "none"
  BY <1>2 DEF Resting
<1> QED  BY <1>1, <1>2 DEF Inv, UpgradeInv

LEMMA UpgradeNext == Inv /\ [Next]_vars => UpgradeInv'
<1> SUFFICES ASSUME Inv, [Next]_vars PROVE UpgradeInv'  OBVIOUS
<1> USE DEF Inv
<1>1. ASSUME UNCHANGED <<upgrading, vouched, proc>> PROVE UpgradeInv'
  BY <1>1, UpgradeKept
<1>2. ASSUME NEW v \in Versions, NEW b \in Builds, Uploaded(v, b) PROVE UpgradeInv'
  <2>1. \A w \in Versions : vouched[w] \subseteq vouched'[w]
    BY <1>2 DEF Uploaded, ServerInv
  <2> QED  BY <1>2, <2>1, UpgradeKept DEF Uploaded, upgrades
<1>3. ASSUME NEW p \in Processes, Launch(p) PROVE UpgradeInv'
  <2>1. upgrading[p] = Resting
    BY <1>3 DEF Launch, TypeOK
  <2>2. \A q \in Processes \ {p} : proc'[q] = proc[q]
    BY <1>3 DEF Launch, TypeOK
  <2> QED  BY <1>3, <2>1, <2>2, UpgradeKept DEF Launch, upgrades
(* A process at rest, or at its next phase, beside others as they were.    *)
<1>4. ASSUME NEW p \in Processes, NEW u \in Upgrades,
             upgrading' = [upgrading EXCEPT ![p] = u], UNCHANGED vouched,
             \A q \in Processes \ {p} : proc'[q] = proc[q],
             u # Resting => ~ IsOlder(u.version, proc'[p].version),
             u.phase \in {"bytes", "replace"} => u.version \notin Unsafe,
             u.phase = "bytes" => u.expected \in vouched[u.version],
             u.phase = "replace" => u.bytes \in vouched[u.version]
      PROVE  UpgradeInv'
  <2>1. upgrading' \in [Processes -> Upgrades]
    BY <1>4 DEF UpgradeInv
  <2>2. upgrading'[p] = u /\ \A q \in Processes \ {p} : upgrading'[q] = upgrading[q]
    BY <1>4 DEF UpgradeInv
  <2> QED  BY <1>4, <2>1, <2>2 DEF UpgradeInv
<1>5. ASSUME NEW p \in Processes, Replace(p) \/ GiveUp(p) \/ Quit(p) PROVE UpgradeInv'
  <2>1. /\ upgrading' = [upgrading EXCEPT ![p] = Resting] /\ UNCHANGED vouched
        /\ \A q \in Processes \ {p} : proc'[q] = proc[q]
    BY <1>5 DEF Replace, GiveUp, Quit, TypeOK
  <2>2. Resting \in Upgrades /\ Resting.phase = "none"
    BY DEF Upgrades, Resting
  <2> QED  BY <1>4, <2>1, <2>2
<1>6. ASSUME NEW p \in Processes, BeginUpgrade(p) PROVE UpgradeInv'
  <2> DEFINE u == [phase |-> "checksum", version |-> latest]
  <2>1. u \in Upgrades /\ u.phase = "checksum" /\ u.version = latest
    BY DEF Upgrades, TypeOK
  <2>2. upgrading' = [upgrading EXCEPT ![p] = u] /\ UNCHANGED <<vouched, proc>>
        /\ ~ IsOlder(latest, proc[p].version)
    BY <1>6 DEF BeginUpgrade
  <2> HIDE DEF u
  <2>3. ~ IsOlder(u.version, proc'[p].version)
    BY <2>1, <2>2
  <2> QED  BY <1>4, <2>1, <2>2, <2>3
<1>7. ASSUME NEW p \in Processes, FetchChecksum(p) PROVE UpgradeInv'
  <2> DEFINE w == upgrading[p].version
             u == [phase |-> "bytes", version |-> w, expected |-> asset[w].checksum]
  <2>1. upgrading[p] # Resting /\ w \in Versions /\ w \notin Unsafe
    BY <1>7 DEF FetchChecksum, UpgradeInv, Upgrades, Resting
  <2>2. u.expected \in vouched[w] /\ asset[w].checksum \in Builds
    BY <2>1 DEF ServerInv
  <2>3. u \in Upgrades /\ u.phase = "bytes" /\ u.version = w
    BY <2>1, <2>2 DEF Upgrades
  <2>4. upgrading' = [upgrading EXCEPT ![p] = u] /\ UNCHANGED <<vouched, proc>>
    BY <1>7 DEF FetchChecksum
  <2>5. ~ IsOlder(w, proc[p].version)
    BY <2>1 DEF UpgradeInv
  <2> HIDE DEF u
  <2>6. ~ IsOlder(u.version, proc'[p].version)
    BY <2>3, <2>4, <2>5
  <2> QED  BY <1>4, <2>1, <2>2, <2>3, <2>4, <2>6
<1>8. ASSUME NEW p \in Processes, FetchBinary(p) PROVE UpgradeInv'
  <2> DEFINE w == upgrading[p].version
             u == [phase |-> "replace", version |-> w, bytes |-> asset[w].bytes]
  <2>1. /\ upgrading[p] \in [phase : {"bytes"}, version : Versions, expected : Builds]
        /\ upgrading[p] # Resting
    BY <1>8 DEF FetchBinary, UpgradeInv, Upgrades, Resting
  <2>2. asset[w].bytes = upgrading[p].expected
    BY <1>8 DEF FetchBinary, Verified
  <2>3. u \in Upgrades /\ u.phase = "replace" /\ u.version = w /\ u.bytes = asset[w].bytes
    BY <2>1, <2>2 DEF Upgrades
  <2>4. /\ w \notin Unsafe /\ asset[w].bytes \in vouched[w]
        /\ ~ IsOlder(w, proc[p].version)
    BY <2>1, <2>2 DEF UpgradeInv
  <2>5. upgrading' = [upgrading EXCEPT ![p] = u] /\ UNCHANGED <<vouched, proc>>
    BY <1>8 DEF FetchBinary
  <2> HIDE DEF u
  <2>6. ~ IsOlder(u.version, proc'[p].version)
    BY <2>3, <2>4, <2>5
  <2> QED  BY <1>4, <2>3, <2>4, <2>5, <2>6
<1>9. ASSUME NEW p \in Processes, CheckAnswers(p) \/ CheckFails(p)
      PROVE  UNCHANGED <<upgrading, vouched, proc>>
  BY <1>9 DEF CheckAnswers, CheckFails, upgrades
<1>10. ASSUME NEW v \in Versions, Named(v) \/ Corrupted(v)
       PROVE  UNCHANGED <<upgrading, vouched, proc>>
  BY <1>10 DEF Named, Corrupted, upgrades
<1>11. Tick \/ UNCHANGED vars => UNCHANGED <<upgrading, vouched, proc>>
  BY DEF Tick, vars, upgrades
<1> QED
  BY <1>1, <1>2, <1>3, <1>5, <1>6, <1>7, <1>8, <1>9, <1>10, <1>11 DEF Next

LEMMA InvNext == Inv /\ [Next]_vars => Inv'
  BY TypesNext, ServerNext, CheckNext, UpgradeNext DEF Inv

(* Every state is of its type (the caches that are written among them).    *)
THEOREM Types == Spec => []TypeOK
<1>1. Inv => TypeOK  BY DEF Inv
<1> QED  BY <1>1, InvInit, InvNext, PTL DEF Spec

-----------------------------------------------------------------------------
LEMMA ReplacesSafely == Inv /\ [Next]_vars =>
  (binary' # binary =>
     /\ binary'.build \in vouched[binary'.version]
     /\ binary'.version \notin Unsafe
     /\ \E p \in Processes :
          /\ upgrading[p].phase = "replace" /\ upgrading'[p] = Resting
          /\ ~IsOlder(binary'.version, proc[p].version)
          /\ proc[p].version = binary.version => ~IsOlder(binary'.version, binary.version))
<1> SUFFICES ASSUME Inv, [Next]_vars, binary' # binary
             PROVE  /\ binary'.build \in vouched[binary'.version]
                    /\ binary'.version \notin Unsafe
                    /\ \E p \in Processes :
                         /\ upgrading[p].phase = "replace" /\ upgrading'[p] = Resting
                         /\ ~IsOlder(binary'.version, proc[p].version)
                         /\ proc[p].version = binary.version
                              => ~IsOlder(binary'.version, binary.version)
  OBVIOUS
<1>1. PICK p \in Processes : Replace(p)
  BY DEF Next, vars, upgrades, Launch, CheckAnswers, CheckFails, BeginUpgrade,
         FetchChecksum, FetchBinary, GiveUp, Quit, Named, Corrupted, Uploaded, Tick
<1> DEFINE u == upgrading[p]
<1>2. u.phase = "replace" /\ u # Resting
  BY <1>1 DEF Replace, Resting
<1>3. binary'.version = u.version /\ binary'.build = u.bytes
  BY <1>1 DEF Replace
<1>4. upgrading'[p] = Resting
  BY <1>1 DEF Replace, Inv, UpgradeInv
<1>5. /\ u.bytes \in vouched[u.version] /\ u.version \notin Unsafe
      /\ ~IsOlder(u.version, proc[p].version)
  BY <1>2 DEF Inv, UpgradeInv
<1> HIDE DEF u
<1> QED  BY <1>2, <1>3, <1>4, <1>5 DEF u

(* Whatever the server serves between two requests and whoever else         *)
(* replaces the binary meanwhile, what lands was published and is not       *)
(* provably older than the process that fetched it (upgrade, cli.py).       *)
THEOREM SafelyReplaced == Spec => ReplacedSafely
<1>1. Inv /\ [Next]_vars =>
        [binary' # binary =>
           /\ binary'.build \in vouched[binary'.version]
           /\ binary'.version \notin Unsafe
           /\ \E p \in Processes :
                /\ upgrading[p].phase = "replace" /\ upgrading'[p] = Resting
                /\ ~IsOlder(binary'.version, proc[p].version)
                /\ proc[p].version = binary.version
                     => ~IsOlder(binary'.version, binary.version)]_vars
  BY ReplacesSafely
<1> QED  BY <1>1, InvInit, InvNext, PTL DEF Spec, ReplacedSafely

-----------------------------------------------------------------------------
Now == IF cache = None THEN NoCache ELSE cache

(* While checks did not overlap, the cache says what was last learned and   *)
(* what was last missed, and the one check that may be asking read it as it *)
(* is now.                                                                 *)
LearnedInv ==
  /\ failed \in Stamps
  /\ answered # None => answered.at \in 0..MaxEvents
  /\ ~ crossed =>
       /\ answered # None => /\ cache # None
                             /\ cache.latest = answered.version
                             /\ cache.success = answered.at
       /\ failed # None => cache # None /\ cache.failure = failed
       /\ \A p \in Processes : check[p] # None => check[p].read = Now
       /\ \A p, q \in Processes : check[p] # None /\ check[q] # None => p = q

LEMMA LearnedInit == Init => LearnedInv
  BY DEF Init, LearnedInv, Stamps

LEMMA LearnedNext == Inv /\ LearnedInv /\ [Next]_vars => LearnedInv'
<1> SUFFICES ASSUME Inv, LearnedInv, [Next]_vars PROVE LearnedInv'  OBVIOUS
<1> USE DEF Inv
<1>1. ASSUME UNCHANGED checks PROVE LearnedInv'
  BY <1>1 DEF LearnedInv, Now, checks
<1>2. ASSUME NEW p \in Processes, Launch(p) PROVE LearnedInv'
  <2>1. UNCHANGED <<cache, answered, failed>>
    BY <1>2 DEF Launch
  <2>2. CASE UNCHANGED <<check, crossed>>
    BY <2>1, <2>2 DEF LearnedInv, Now
  <2>3. CASE /\ check' = [check EXCEPT ![p] = [read |-> Now]]
             /\ crossed' = (crossed \/ \E q \in Processes : check[q] # None)
    <3>1. \A q \in Processes : check'[q] = IF q = p THEN [read |-> Now] ELSE check[q]
      BY <2>3 DEF CheckInv
    <3>2. ~ crossed' => ~ crossed /\ \A q \in Processes : check[q] = None
      BY <2>3
    <3>3. Now' = Now
      BY <2>1 DEF Now
    <3> QED  BY <2>1, <3>1, <3>2, <3>3 DEF LearnedInv
  <2> QED  BY <1>2, <2>2, <2>3 DEF Launch, Now
(* The only check there is has ended.                                      *)
<1>3. ASSUME NEW p \in Processes, check[p] # None, check' = [check EXCEPT ![p] = None],
             UNCHANGED crossed
      PROVE  ~ crossed => \A q \in Processes : check'[q] = None
  BY <1>3 DEF LearnedInv, CheckInv
<1>4. ASSUME NEW p \in Processes, CheckAnswers(p) PROVE LearnedInv'
  <2>1. check[p] # None /\ check' = [check EXCEPT ![p] = None] /\ UNCHANGED crossed
    BY <1>4 DEF CheckAnswers
  <2>2. proc[p].now \in 0..MaxEvents
    BY <2>1 DEF TypeOK, Started
  <2>3. Learned(latest, proc[p].now) # None
    BY <2>2, Parameters DEF Learned, Cached, Stamps, TypeOK
  <2>4. CASE /\ cache' = Learned(latest, proc[p].now)
             /\ answered' = [version |-> latest, at |-> proc[p].now] /\ failed' = None
    <3>1. /\ cache'.latest = answered'.version /\ cache'.success = answered'.at
          /\ answered'.at = proc[p].now /\ cache' # None
      BY <2>3, <2>4 DEF Learned
    <3> QED  BY <1>3, <2>1, <2>2, <2>4, <3>1 DEF LearnedInv, Stamps
  <2>5. CASE UNCHANGED <<cache, answered, failed>>
    BY <1>3, <2>1, <2>5 DEF LearnedInv
  <2> QED  BY <1>4, <2>4, <2>5 DEF CheckAnswers
<1>5. ASSUME NEW p \in Processes, CheckFails(p) PROVE LearnedInv'
  <2>1. /\ check[p] # None /\ check' = [check EXCEPT ![p] = None]
        /\ UNCHANGED <<crossed, answered>>
    BY <1>5 DEF CheckFails
  <2>2. proc[p].now \in 0..MaxEvents /\ check[p].read \in Cached
    BY <2>1 DEF TypeOK, Started, CheckInv
  <2>3. CASE cache' = Missed(check[p].read, proc[p].now) /\ failed' = proc[p].now
    <3>1. cache' = [check[p].read EXCEPT !.failure = proc[p].now]
      BY <2>2, <2>3, Parameters DEF Missed
    <3>2. /\ cache'.failure = proc[p].now /\ cache' \in Cached
          /\ cache'.latest = check[p].read.latest /\ cache'.success = check[p].read.success
      BY <2>2, <3>1 DEF Cached, Stamps
    <3>3. ~ crossed => check[p].read = Now
      BY <2>1 DEF LearnedInv
    <3>4. ~ crossed /\ answered # None =>
            cache'.latest = answered.version /\ cache'.success = answered.at
      BY <3>2, <3>3 DEF LearnedInv, Now
    <3> QED  BY <1>3, <2>1, <2>2, <2>3, <3>2, <3>4, Parameters DEF LearnedInv, Stamps
  <2>4. CASE UNCHANGED <<cache, failed>>
    BY <1>3, <2>1, <2>4 DEF LearnedInv
  <2> QED  BY <1>5, <2>3, <2>4 DEF CheckFails
<1>6. ASSUME NEW p \in Processes, Quit(p) PROVE LearnedInv'
  <2>1. \A q \in Processes : check'[q] = None \/ check'[q] = check[q]
    BY <1>6 DEF Quit, CheckInv
  <2> QED  BY <1>6, <2>1 DEF Quit, LearnedInv, Now
<1>7. ASSUME NEW p \in Processes,
             \/ BeginUpgrade(p) \/ FetchChecksum(p) \/ FetchBinary(p)
             \/ Replace(p) \/ GiveUp(p)
      PROVE  UNCHANGED checks
  BY <1>7 DEF BeginUpgrade, FetchChecksum, FetchBinary, Replace, GiveUp
<1>8. ASSUME NEW v \in Versions, Named(v) \/ Corrupted(v) \/ \E b \in Builds : Uploaded(v, b)
      PROVE  UNCHANGED checks
  BY <1>8 DEF Named, Corrupted, Uploaded
<1>9. Tick \/ UNCHANGED vars => UNCHANGED checks
  BY DEF Tick, vars
<1> QED  BY <1>1, <1>2, <1>4, <1>5, <1>6, <1>7, <1>8, <1>9 DEF Next

(* Only Launch begins a check, and only when the cache is not trusted.      *)
LEMMA BeginsUntrusted ==
  ASSUME Inv, [Next]_vars, NEW p \in Processes, check[p] = None, check'[p] # None
  PROVE  ~ Trusted(hour)
<1>1. ~ UNCHANGED check
  OBVIOUS
<1>2. ASSUME NEW q \in Processes, CheckAnswers(q) \/ CheckFails(q) \/ Quit(q) PROVE FALSE
  BY <1>2 DEF CheckAnswers, CheckFails, Quit, Inv, CheckInv
<1>3. ASSUME NEW q \in Processes, Launch(q) PROVE ~ Trusted(hour)
  BY <1>1, <1>3 DEF Launch
<1> QED
  BY <1>1, <1>2, <1>3
     DEF Next, vars, checks, BeginUpgrade, FetchChecksum, FetchBinary, Replace, GiveUp,
         Named, Corrupted, Uploaded, Tick

(* A process that asks does so because neither the last failure nor the     *)
(* last answer is young enough.                                            *)
LEMMA AsksLate ==
  ASSUME Inv, LearnedInv, ~ crossed, ~ Trusted(hour)
  PROVE  /\ failed # None => hour - failed >= FailureTtl
         /\ answered # None => hour - answered.at >= SuccessTtl
<1>1. hour \in Nat /\ FailureTtl \in Nat /\ SuccessTtl \in Nat
  BY Parameters DEF Inv, TypeOK
<1>2. ASSUME failed # None PROVE hour - failed >= FailureTtl
  <2>1. cache # None /\ cache.failure = failed /\ failed \in 0..MaxEvents
    BY <1>2 DEF LearnedInv, Stamps
  <2> QED  BY <1>1, <1>2, <2>1, Parameters DEF Trusted, Fresh
<1>3. ASSUME answered # None PROVE hour - answered.at >= SuccessTtl
  <2>1. cache # None /\ cache.success = answered.at /\ answered.at \in 0..MaxEvents
    BY <1>3 DEF LearnedInv
  <2>2. answered.at # None
    BY <2>1, Parameters
  <2> QED  BY <1>1, <2>1, <2>2, Parameters DEF Trusted, Fresh
<1> QED  BY <1>2, <1>3

LEMMA KeepsLearned ==
  ASSUME Inv, LearnedInv, LearnedInv', [Next]_vars, ~ crossed', answered # None
  PROVE  cache'.latest = answered'.version
<1>1. CASE UNCHANGED answered
  BY <1>1 DEF LearnedInv
<1>2. ASSUME NEW p \in Processes, CheckAnswers(p)
      PROVE  cache'.latest = answered'.version \/ UNCHANGED answered
  BY <1>2 DEF CheckAnswers, Learned
<1> QED
  BY <1>1, <1>2
     DEF Next, vars, checks, Launch, CheckFails, BeginUpgrade, FetchChecksum, FetchBinary,
         Replace, GiveUp, Quit, Named, Corrupted, Uploaded, Tick

(* Processes whose checks do not overlap never lose the version that was    *)
(* learned, and leave the server alone for as long as the last answer, or   *)
(* the last failure, is fresh by their clocks (check_for_update, cli.py).   *)
THEOREM SparinglyAsked == Spec => AsksSparingly
<1>1. Inv /\ LearnedInv /\ LearnedInv' /\ [Next]_vars =>
        [~crossed' =>
           /\ answered # None => cache'.latest = answered'.version
           /\ \A p \in Processes : (check[p] = None /\ check'[p] # None) =>
                /\ failed # None => hour - failed >= FailureTtl
                /\ answered # None => hour - answered.at >= SuccessTtl]_vars
  <2> SUFFICES ASSUME Inv, LearnedInv, LearnedInv', [Next]_vars, ~ crossed'
               PROVE  /\ answered # None => cache'.latest = answered'.version
                      /\ \A p \in Processes : (check[p] = None /\ check'[p] # None) =>
                           /\ failed # None => hour - failed >= FailureTtl
                           /\ answered # None => hour - answered.at >= SuccessTtl
    OBVIOUS
  <2>1. ~ crossed
    BY DEF Next, vars, checks, Launch, CheckAnswers, CheckFails, BeginUpgrade,
           FetchChecksum, FetchBinary, Replace, GiveUp, Quit, Named, Corrupted,
           Uploaded, Tick
  <2> QED  BY <2>1, KeepsLearned, BeginsUntrusted, AsksLate
<1> QED
  BY <1>1, InvInit, InvNext, LearnedInit, LearnedNext, PTL DEF Spec, AsksSparingly
=============================================================================
