----------------------------- MODULE PluginsProofs -----------------------------
(***************************************************************************)
(* Theorems about Plugins: for any sessions, sub-agents, values, suggested *)
(* names and texts, in either order of the two plugins, and any number of  *)
(* calls, failed registrations and restarts.                               *)
(***************************************************************************)
EXTENDS Plugins, TLAPS, FiniteSetTheorems, WellFoundedInduction

(* A value has one name and a name one value.                              *)
NameMap(names) ==
  /\ names \in [Values -> Entries \cup {None}]
  /\ \A v, w \in Known(names) : names[v].name = names[w].name => v = w

(* What is left of the hooks of a call. *)
Lefts == {<<"transport", "engram">>, <<"engram", "transport">>, <<"transport">>, <<"engram">>, << >>}
Readings == {Matched(t) : t \in Tokens}
CallType ==
  [kind: {"chat", "tool"}, use: {"post", "register", "none"}, left: Lefts,
   stage: {"hook", "session", "post"}, warned: SUBSET Readings, text: TextType]

Types ==
  /\ order \in {<<"transport", "engram">>, <<"engram", "transport">>}
  /\ NameMap(nameOf)
  /\ known \subseteq Sessions /\ subs \subseteq SubAgents /\ posting \subseteq Sessions
  /\ call \in [Sessions -> CallType \cup {None}]
  /\ life \in [Sessions -> {"none", "live", "deleted"}]

-----------------------------------------------------------------------------
(* What was put into a text is in the memory of the transport.             *)
ShownInv ==
  \A p \in shown : p.value \in Known(nameOf) /\ p.token.name = nameOf[p.value].name

SentInv ==
  sent # None =>
    /\ sent.text.ctx = None /\ \A spot \in sent.text.bare : spot.value \notin sent.known
    /\ sent.refused => sent.early \/ sent.session \in missed \cup SubAgents

(* Once the transport has seen a message its variables are explained, and  *)
(* whoever is about to post has been through the registration of its       *)
(* session, or is a sub-agent.                                             *)
Explained(names, c) ==
  \A t \in c.text.vars : t.tail = 1 \/ Reads(t) \in Used(names) \/ Reads(t) \in c.warned \/ c.text.quotes
Seen(c) == c.kind = "chat" /\ c.left \in {<<"engram">>, << >>}
InEngram(c) == c.stage \in {"session", "post"}
AtEngram(c) == c.left # << >> /\ Head(c.left) = "engram"
CallInv(s) ==
  call[s] # None =>
    /\ life[s] = "live"
    /\ InEngram(call[s]) =>
         AtEngram(call[s]) /\ s \in posting \cup server \cup missed \cup SubAgents
    /\ call[s].stage = "session" => s \in posting
    /\ Seen(call[s]) => Explained(nameOf, call[s])

(* The plugin's memory of a session and the life of the session: it knows  *)
(* a session it registered from before its creation is delivered, until    *)
(* its deletion is.                                                        *)
SessionInv(s) ==
  /\ life[s] = "none" => s \notin known \cup subs \cup posting \cup server \cup told
  /\ <<"created", s>> \in events => life[s] = "live"
  /\ <<"deleted", s>> \in events => life[s] = "deleted"
  /\ s \in known => s \in posting \cup server \cup missed
  /\ <<"created", s>> \in events /\ s \in server \cup posting => s \in known
  /\ s \in told => s \in subs /\ s \notin server \cup posting

Inv ==
  /\ Types /\ ShownInv /\ SentInv /\ told \subseteq subs
  /\ \A s \in Sessions : CallInv(s) /\ SessionInv(s)

-----------------------------------------------------------------------------
(* Names.                                                                  *)

LEMMA Sizes == IsFiniteSet(Values) /\ Cardinality(Values) \in Nat /\ None \notin Values
  BY Parameters, FS_CardinalityType

LEMMA KnownIs ==
  ASSUME NEW names, NameMap(names)
  PROVE  /\ Known(names) \subseteq Values /\ \A v \in Known(names) : names[v] \in Entries
         /\ Cardinality(Known(names)) \in Nat
<1>1. Known(names) \subseteq Values
  BY DEF Known
<1>2. IsFiniteSet(Known(names))
  BY <1>1, Sizes, FS_Subset
<1> QED  BY <1>1, <1>2, FS_CardinalityType DEF NameMap, Known

LEMMA EntryIs ==
  ASSUME NEW names, NameMap(names), NEW n \in Variables
  PROVE  Entry(names, n) \in Entries /\ Entry(names, n) # None /\ Entry(names, n).name = n
<1>1. Cardinality(Known(names)) + 1 \in Nat
  BY KnownIs
<1> QED  BY <1>1, Parameters DEF Entry, Entries

(* While a value has no name there is one left of those it may be given:   *)
(* each of the others has taken one at most.                               *)
LEMMA SomeNameIsFree ==
  ASSUME NEW names, NEW v \in Values, names[v] = None, NEW b
  PROVE  \E i \in 1..Cardinality(Values) : <<b, i>> \notin Used(names)
<1> DEFINE N == Cardinality(Values)
           Others == Values \ {v}
<1> SUFFICES ASSUME \A i \in 1..N : \E w \in Others : names[w].name = <<b, i>> PROVE FALSE
  BY DEF Used, Known
<1> DEFINE f == [i \in 1..N |-> CHOOSE w \in Others : names[w].name = <<b, i>>]
<1>1. \A i \in 1..N : f[i] \in Others /\ names[f[i]].name = <<b, i>>
  OBVIOUS
<1>2. IsFiniteSet(Others) /\ Cardinality(Others) = N - 1 /\ N \in Nat
  BY Sizes, FS_RemoveElement
<1>3. IsFiniteSet(1..N) /\ Cardinality(1..N) = N
  <2>1. 1 \in Int /\ N \in Int /\ (1 > N => N = 0)
    BY Sizes
  <2>2. IsFiniteSet(1..N) /\ Cardinality(1..N) = IF 1 > N THEN 0 ELSE N - 1 + 1
    BY <2>1, FS_Interval
  <2> QED  BY <2>1, <2>2
<1>4. Cardinality(Others) < Cardinality(1..N)
  BY <1>2, <1>3
<1>5. f \in [1..N -> Others]
  BY <1>1
<1> HIDE DEF f, Others, N
<1>6. PICK i \in 1..N, j \in 1..N : i # j /\ f[i] = f[j]
  BY <1>2, <1>3, <1>4, <1>5, FS_PigeonHole
<1>7. <<b, i>> = <<b, j>>
  BY <1>1, <1>6
<1> QED  BY <1>6, <1>7

LEMMA FreeNameIs ==
  ASSUME NEW names, NEW v \in Values, names[v] = None
  PROVE  FreeName(names, Base[v]) \in Variables /\ FreeName(names, Base[v]) \notin Used(names)
<1> DEFINE b == Base[v]
           N == Cardinality(Values)
           Free == {i \in 1..N : <<b, i>> \notin Used(names)}
<1>2. Free # {} /\ Free \in SUBSET Nat /\ N \in Nat
  BY SomeNameIsFree, Sizes
<1>3. PICK i \in Free : \A h \in Free : ~ (<<h, i>> \in OpToRel(<, Nat))
  BY <1>2, WFMin, NatLessThanWellFounded, Zenon
<1>4. \A h \in Free : ~ (h < i)
  BY <1>2, <1>3, Zenon DEF OpToRel
<1>5. i \in 1..N /\ <<b, i>> \notin Used(names) /\ i \in 1..(N + 1)
  BY <1>2
<1>6. \A j \in 1..(i - 1) : <<b, j>> \in Used(names)
  <2> SUFFICES ASSUME NEW j \in 1..(i - 1), <<b, j>> \notin Used(names) PROVE FALSE  OBVIOUS
  <2>1. j \in 1..N /\ j < i
    BY <1>2, <1>5
  <2> QED  BY <1>4, <2>1
<1> DEFINE P(n) == n \notin Used(names) /\ \A j \in 1..(n[2] - 1) : <<b, j>> \in Used(names)
           All  == {<<b, k>> : k \in 1..(N + 1)}
<1>7. <<b, i>> \in All /\ P(<<b, i>>)
  BY <1>5, <1>6
<1>8. FreeName(names, b) = CHOOSE n \in All : P(n)
  BY DEF FreeName
<1> DEFINE n == FreeName(names, b)
<1>9. n \in All /\ P(n)
  <2> HIDE DEF P, All
  <2> QED  BY <1>7, <1>8
<1>10. PICK k \in 1..(N + 1) : n = <<b, k>>
  BY <1>9
<1>11. k <= i
  <2> SUFFICES ASSUME i < k PROVE FALSE
    BY <1>2, <1>5
  <2>1. i \in 1..(n[2] - 1)
    BY <1>2, <1>5, <1>10
  <2> QED  BY <1>5, <1>9, <2>1
<1>12. k \in 1..N
  BY <1>2, <1>5, <1>11
<1> QED  BY <1>9, <1>10, <1>12 DEF Variables

(* The transport adds names and takes none away.                           *)
Grows(names, more) == \A v \in Values : names[v] # None => more[v] = names[v]

LEMMA RegisterIs ==
  ASSUME NEW names, NameMap(names), NEW v \in Values
  PROVE  /\ NameMap(Register(names, v)) /\ Grows(names, Register(names, v))
         /\ v \in Known(Register(names, v))
<1>1. CASE names[v] # None
  BY <1>1 DEF Register, Grows, Known
<1>2. CASE names[v] = None
  <2> DEFINE n == FreeName(names, Base[v])
             e == Entry(names, n)
  <2>1. names \in [Values -> Entries \cup {None}]
    BY DEF NameMap
  <2>2. n \in Variables /\ n \notin Used(names)
    BY <1>2, FreeNameIs
  <2>3. e \in Entries /\ e # None /\ e.name = n
    BY <2>2, EntryIs
  <2>4. Register(names, v) = [names EXCEPT ![v] = e]
    BY <1>2 DEF Register
  <2> HIDE DEF n, e
  <2>5. \A w \in Known(names) : names[w].name # n
    BY <2>2 DEF Used
  <2> QED  BY <1>2, <2>1, <2>3, <2>4, <2>5 DEF NameMap, Grows, Known
<1> QED  BY <1>1, <1>2

-----------------------------------------------------------------------------
(* Texts.                                                                  *)

LEMMA TextIs ==
  ASSUME NEW text \in TextType
  PROVE  /\ text.ctx \in Spots \cup {None} /\ text.bare \in SUBSET Spots
         /\ Contexts(text) \in SUBSET Spots
         /\ text.vars \in SUBSET Tokens /\ text.large \in BOOLEAN /\ text.quotes \in BOOLEAN
BY DEF TextType, Contexts

LEMMA DetectedIs ==
  ASSUME NEW names, NameMap(names), NEW text \in TextType
  PROVE  /\ NameMap(Detected(names, text)) /\ Grows(names, Detected(names, text))
         /\ ~text.large => \A m \in Contexts(text) : m.value \in Known(Detected(names, text))
<1>1. CASE text.large \/ text.ctx = None
  BY <1>1 DEF Detected, Grows, Contexts
<1>2. CASE ~(text.large \/ text.ctx = None)
  <2>1. text.ctx.value \in Values /\ Contexts(text) = {text.ctx}
    BY <1>2, TextIs DEF Spots, Contexts
  <2> QED  BY <1>2, <2>1, RegisterIs DEF Detected
<1> QED  BY <1>1, <1>2

(* Of what a spot holds the first registered is there to be found.         *)
LEMMA FirstIs ==
  ASSUME NEW names, NameMap(names), NEW spots \in SUBSET Spots, NEW spot \in Found(names, spots)
  PROVE  /\ First(names, spot) \in Spots /\ First(names, spot).value \in Known(names)
<1> DEFINE ms == Matches(names, spot)
           inner == Inside[spot.value]
           least(m) == \A o \in ms : names[m.value].nth <= names[o.value].nth
<1>1. spot \in Spots /\ spot.value \in Values /\ ms # {} /\ (inner # None => inner \in Spots)
  BY Parameters DEF Found, Spots
<1>2. \A m \in ms : m \in Spots /\ m.value \in Known(names) /\ names[m.value].nth \in Nat
  BY <1>1, KnownIs DEF Matches, Entries
<1>3. ms \subseteq {spot, inner}
  BY DEF Matches
<1>4. \E m \in ms : least(m)
  <2>1. PICK m \in ms : TRUE
    BY <1>1
  <2>2. CASE \A o \in ms : names[m.value].nth <= names[o.value].nth
    BY <2>1, <2>2
  <2>3. CASE \E o \in ms : ~(names[m.value].nth <= names[o.value].nth)
    <3>1. PICK o \in ms : ~(names[m.value].nth <= names[o.value].nth)
      BY <2>3
    <3>2. o # m /\ ms = {m, o}
      BY <1>2, <1>3, <2>1, <3>1
    <3>3. names[o.value].nth <= names[m.value].nth /\ names[o.value].nth <= names[o.value].nth
      BY <1>2, <2>1, <3>1
    <3>4. least(o)
      BY <3>2, <3>3
    <3> QED  BY <3>1, <3>4
  <2> QED  BY <2>2, <2>3
<1>5. First(names, spot) \in ms
  <2>1. First(names, spot) = CHOOSE m \in ms : least(m)
    BY DEF First
  <2> HIDE DEF ms, least
  <2> QED  BY <1>4, <2>1
<1> QED  BY <1>2, <1>5

LEMMA TokenIs ==
  ASSUME NEW names, NameMap(names), NEW m \in Spots, m.value \in Known(names)
  PROVE  /\ Token(names, m) \in Tokens /\ Token(names, m).name = names[m.value].name
BY KnownIs DEF Token, Tokens, Spots, Entries

LEMMA FirstsAre ==
  ASSUME NEW names, NameMap(names), NEW spots \in SUBSET Spots
  PROVE  \A m \in Firsts(names, spots) : m \in Spots /\ m.value \in Known(names)
BY FirstIs DEF Firsts

LEMMA RedactKnownIs ==
  ASSUME NEW names, NameMap(names), NEW text \in TextType
  PROVE  /\ RedactKnown(names, text) \in TextType
         /\ \A spot \in RedactKnown(names, text).bare : spot.value \notin Known(names)
         /\ text.ctx = None => RedactKnown(names, text).ctx = None
<1> DEFINE spots == text.bare \cup Contexts(text)
           found == Found(names, spots)
           more  == {Token(names, m) : m \in Firsts(names, spots)}
           x     == IF text.ctx \in found THEN None ELSE text.ctx
<1>0. spots \in SUBSET Spots
  BY TextIs
<1>1. more \subseteq Tokens
  <2> HIDE DEF spots
  <2> QED  BY <1>0, FirstsAre, TokenIs
<1>2. x \in Spots \cup {None} /\ (text.ctx = None => x = None)
  BY TextIs
<1>3. RedactKnown(names, text) =
        [text EXCEPT !.ctx = x, !.bare = text.bare \ found, !.vars = text.vars \cup more]
  BY DEF RedactKnown
<1>4. \A spot \in text.bare \ found : spot.value \notin Known(names)
  BY DEF Found, Matches
<1>5. (text.bare \ found) \subseteq Spots /\ (text.vars \cup more) \subseteq Tokens
  BY <1>1, TextIs
<1> HIDE DEF x, found, more, spots
<1> QED  BY <1>2, <1>3, <1>4, <1>5 DEF TextType

LEMMA ReplacedIs ==
  ASSUME NEW names, NameMap(names), NEW text \in TextType
  PROVE  /\ Replaced(names, text) \in TextType
         /\ ~text.large => Replaced(names, text).ctx = None
<1>1. CASE text.large
  BY <1>1, RedactKnownIs DEF Replaced
<1>2. CASE ~text.large
  <2> DEFINE more == {Token(Detected(names, text), m) : m \in Contexts(text)}
  <2>1. more \subseteq Tokens
    BY <1>2, DetectedIs, TextIs, TokenIs
  <2>2. Replaced(names, text) = [text EXCEPT !.ctx = None, !.vars = text.vars \cup more]
    BY <1>2 DEF Replaced
  <2>3. (text.vars \cup more) \subseteq Tokens
    BY <2>1, TextIs
  <2> HIDE DEF more
  <2> QED  BY <2>2, <2>3 DEF TextType
<1> QED  BY <1>1, <1>2

(* What is posted holds no value a context gave away and none known.       *)
LEMMA RedactedIs ==
  ASSUME NEW names, NameMap(names), NEW text \in TextType, ~text.large
  PROVE  /\ Redacted(names, text).ctx = None
         /\ \A spot \in Redacted(names, text).bare : spot.value \notin Known(Detected(names, text))
  BY DetectedIs, ReplacedIs, RedactKnownIs DEF Redacted

LEMMA CutIs ==
  ASSUME NEW text \in TextType, NEW cut \in Cut(text)
  PROVE  cut \in TextType /\ ~cut.large
<1>1. CASE ~text.large
  BY <1>1 DEF Cut
<1>2. CASE text.large
  <2>1. PICK x \in {None, text.ctx}, b \in SUBSET text.bare :
          cut = Part(text, x, b)
    BY <1>2 DEF Cut
  <2>2. x \in Spots \cup {None} /\ b \in SUBSET Spots
    BY TextIs
  <2> QED  BY <2>1, <2>2 DEF TextType, Part
<1> QED  BY <1>1, <1>2

(* What a text was rid of was known by then.                               *)
LEMMA TakenAre ==
  ASSUME NEW names, NameMap(names), NEW text \in TextType
  PROVE  \A m \in Taken(Detected(names, text), text) :
           m \in Spots /\ m.value \in Known(Detected(names, text))
<1>1. text.bare \cup Contexts(text) \in SUBSET Spots /\ Contexts(text) \in SUBSET Spots
  BY TextIs
<1> QED  BY <1>1, DetectedIs, FirstsAre DEF Taken

LEMMA PairsAreShown ==
  ASSUME NEW names, NameMap(names), NEW spots,
         \A m \in spots : m \in Spots /\ m.value \in Known(names), NEW p \in Pairs(names, spots)
  PROVE  p.value \in Known(names) /\ p.token.name = names[p.value].name
<1>1. PICK m \in spots : p = [token |-> Token(names, m), value |-> m.value]
  BY DEF Pairs
<1> QED  BY <1>1, TokenIs

-----------------------------------------------------------------------------
(* The hooks of a call.                                                    *)

LEMMA LeftIs ==
  ASSUME NEW l \in Lefts, l # << >>
  PROVE  /\ Tail(l) \in Lefts /\ Head(l) \in {"transport", "engram"}
         /\ Head(l) = "engram" /\ Tail(l) \in {<<"engram">>, << >>} => l = <<"engram">>
<1>1. l \in {<<"transport", "engram">>, <<"engram", "transport">>, <<"transport">>, <<"engram">>}
  BY DEF Lefts
<1>2. CASE l = <<"transport", "engram">>
  <2>1. Head(l) = "transport" /\ Tail(l) = <<"engram">>
    BY <1>2
  <2> QED  BY <2>1 DEF Lefts
<1>3. CASE l = <<"engram", "transport">>
  <2>1. Head(l) = "engram" /\ Tail(l) = <<"transport">>
    BY <1>3
  <2>2. <<"transport">> # <<"engram">> /\ <<"transport">> # << >>
    OBVIOUS
  <2> QED  BY <2>1, <2>2 DEF Lefts
<1>4. CASE l = <<"transport">>
  <2>1. Head(l) = "transport" /\ Tail(l) = << >>
    BY <1>4
  <2> QED  BY <2>1 DEF Lefts
<1>5. CASE l = <<"engram">>
  <2>1. Head(l) = "engram" /\ Tail(l) = << >>
    BY <1>5
  <2> QED  BY <2>1, <1>5 DEF Lefts
<1> QED  BY <1>1, <1>2, <1>3, <1>4, <1>5

LEMMA CallIs ==
  ASSUME NEW c \in CallType
  PROVE  /\ c.kind \in {"chat", "tool"} /\ c.use \in {"post", "register", "none"} /\ c.left \in Lefts
         /\ c.stage \in {"hook", "session", "post"} /\ c.warned \in SUBSET Readings
         /\ c.text \in TextType
BY DEF CallType

(* A hook that ends leaves the call to the next one.                       *)
LEMMA NextIs ==
  ASSUME NEW c \in CallType, c.left # << >>
  PROVE  /\ Next1(c) \in CallType /\ ~InEngram(Next1(c)) /\ Next1(c).stage = "hook"
         /\ Next1(c).left = Tail(c.left) /\ Next1(c).kind = c.kind
         /\ Next1(c).text = c.text /\ Next1(c).warned = c.warned
<1>1. Tail(c.left) \in Lefts
  BY LeftIs, CallIs
<1>2. Next1(c) = [c EXCEPT !.left = Tail(c.left), !.stage = "hook"]
  BY DEF Next1
<1> DEFINE l == Tail(c.left)
<1> HIDE DEF l
<1> QED  BY <1>1, <1>2 DEF CallType, InEngram, l

(* Variables that are explained stay so as names are added.                *)
LEMMA UsedGrows ==
  ASSUME NEW names, NEW more, NameMap(names), NameMap(more), Grows(names, more)
  PROVE  Used(names) \subseteq Used(more)
BY DEF Used, Grows, Known, NameMap

LEMMA ExplainedGrows ==
  ASSUME NEW names, NEW more, NameMap(names), NameMap(more), Grows(names, more),
         NEW c, Explained(names, c)
  PROVE  Explained(more, c)
BY UsedGrows DEF Explained

-----------------------------------------------------------------------------
(* Every step keeps the invariant.                                         *)

LEMMA InvInit == Init => Inv
<1> SUFFICES ASSUME Init PROVE Inv  OBVIOUS
<1>1. NameMap(nameOf)
  BY DEF Init, NameMap, Known
<1>2. \A s \in Sessions : call[s] = None /\ life[s] = "none"
  BY DEF Init
<1>3. Types
  BY <1>1 DEF Init, Types
<1> QED  BY <1>2, <1>3 DEF Init, Inv, ShownInv, SentInv, CallInv, SessionInv

(* One session's call moves on, and names may be added: the calls of the   *)
(* others are as they were.                                                *)
LEMMA OtherCalls ==
  ASSUME Inv, NEW s \in Sessions, NEW c \in CallType \cup {None},
         call' = [call EXCEPT ![s] = c], NameMap(nameOf'), Grows(nameOf, nameOf'),
         UNCHANGED <<life, server, missed>>, posting \subseteq posting'
  PROVE  /\ call' \in [Sessions -> CallType \cup {None}] /\ call'[s] = c
         /\ \A r \in Sessions \ {s} : CallInv(r)'
<1>1. call \in [Sessions -> CallType \cup {None}] /\ NameMap(nameOf)
  BY DEF Inv, Types
<1>2. ASSUME NEW r \in Sessions \ {s} PROVE CallInv(r)'
  <2>1. call'[r] = call[r] /\ CallInv(r)
    BY <1>1 DEF Inv
  <2>2. Explained(nameOf, call[r]) => Explained(nameOf', call[r])
    BY <1>1, ExplainedGrows
  <2> QED  BY <2>1, <2>2 DEF CallInv
<1> QED  BY <1>1, <1>2

(* What the sessions' memory says depends on nothing a call changes.       *)
LEMMA SameSessions ==
  ASSUME Inv, UNCHANGED <<life, events, server, known, subs, posting, told, missed>>
  PROVE  \A s \in Sessions : SessionInv(s)'
BY DEF Inv, SessionInv

LEMMA ShownKept ==
  ASSUME Inv, NameMap(nameOf'), Grows(nameOf, nameOf'), NEW spots,
         \A m \in spots : m \in Spots /\ m.value \in Known(nameOf'),
         shown' = shown \cup Pairs(nameOf', spots)
  PROVE  ShownInv'
<1>1. ASSUME NEW p \in shown' PROVE p.value \in Known(nameOf') /\ p.token.name = nameOf'[p.value].name
  <2>1. CASE p \in shown
    <3>1. p.value \in Known(nameOf) /\ p.token.name = nameOf[p.value].name
      BY <2>1 DEF Inv, ShownInv
    <3>2. nameOf'[p.value] = nameOf[p.value] /\ p.value \in Known(nameOf')
      BY <3>1 DEF Grows, Known
    <3> QED  BY <3>1, <3>2
  <2>2. CASE p \in Pairs(nameOf', spots)
    BY <2>2, PairsAreShown
  <2> QED  BY <1>1, <2>1, <2>2
<1> QED  BY <1>1 DEF ShownInv

(* Calls                                                                   *)
LEMMA CallIsWhere ==
  ASSUME Inv, NEW s \in Sessions, call[s] # None
  PROVE  call[s] \in CallType /\ life[s] = "live"
BY DEF Inv, Types, CallInv

(* The transport's hook of a message.                                      *)
LEMMA TransportChatStep ==
  ASSUME Inv, NEW s \in Sessions, TransportChat(s)
  PROVE  Inv'
<1> DEFINE c == call[s]
           text == Replaced(nameOf, c.text)
           warned == Unknown(nameOf', text)
           d == [c EXCEPT !.text = text, !.warned = warned]
<1>1. c \in CallType /\ life[s] = "live" /\ c.left # << >> /\ Head(c.left) = "transport" /\ c.kind = "chat"
  BY CallIsWhere DEF TransportChat, At
<1>2. NameMap(nameOf) /\ c.text \in TextType
  BY <1>1, CallIs DEF Inv, Types
<1>3. nameOf' = Detected(nameOf, c.text)
  BY DEF TransportChat
<1>4. NameMap(nameOf') /\ Grows(nameOf, nameOf')
  BY <1>2, <1>3, DetectedIs
<1>5. text \in TextType /\ text.vars \in SUBSET Tokens
  BY <1>2, ReplacedIs, TextIs
<1>6. warned \in SUBSET Readings
  BY <1>5 DEF Unknown, Readings
<1>7. call' = [call EXCEPT ![s] = Next1(d)]
  BY <1>3 DEF TransportChat
<1>8. \A t \in text.vars : t.tail = 1 \/ Reads(t) \in Used(nameOf') \/ Reads(t) \in warned \/ text.quotes
  BY <1>5 DEF Unknown, Matched
<1> HIDE DEF text, warned
<1>9. d \in CallType /\ d.left = c.left /\ d.kind = c.kind /\ d.text = text /\ d.warned = warned
  BY <1>1, <1>5, <1>6 DEF CallType
<1> HIDE DEF d, c
<1>10. Next1(d) \in CallType /\ ~InEngram(Next1(d)) /\ Next1(d).stage = "hook"
        /\ Next1(d).text = text /\ Next1(d).warned = warned
  BY <1>1, <1>9, NextIs
<1>11. Explained(nameOf', Next1(d))
  BY <1>8, <1>10 DEF Explained
<1>12. call' \in [Sessions -> CallType \cup {None}] /\ call'[s] = Next1(d)
        /\ \A r \in Sessions \ {s} : CallInv(r)'
  BY <1>4, <1>7, <1>10, OtherCalls DEF TransportChat
<1>13. CallInv(s)'
  BY <1>1, <1>10, <1>11, <1>12 DEF CallInv, TransportChat
<1>14. ShownInv'
  <2> DEFINE spots == Taken(nameOf', c.text)
  <2>1. shown' = shown \cup Pairs(nameOf', spots)
    BY <1>3 DEF TransportChat, c
  <2>2. \A m \in spots : m \in Spots /\ m.value \in Known(nameOf')
    BY <1>2, <1>3, TakenAre
  <2> HIDE DEF spots
  <2> QED  BY <1>4, <2>1, <2>2, ShownKept
<1>15. Types' /\ SentInv' /\ (told \subseteq subs)'
  BY <1>4, <1>12 DEF Inv, Types, SentInv, TransportChat
<1>16. \A r \in Sessions : SessionInv(r)'
  BY SameSessions DEF TransportChat
<1> QED  BY <1>12, <1>13, <1>14, <1>15, <1>16 DEF Inv

(* The transport's hook of a tool: known values only, no name is added.    *)
LEMMA TransportToolStep ==
  ASSUME Inv, NEW s \in Sessions, TransportTool(s)
  PROVE  Inv'
<1> DEFINE c == call[s]
           text == RedactKnown(nameOf, c.text)
           d == [c EXCEPT !.text = text]
<1>1. c \in CallType /\ life[s] = "live" /\ c.left # << >> /\ c.kind = "tool"
  BY CallIsWhere DEF TransportTool, At
<1>2. NameMap(nameOf) /\ c.text \in TextType
  BY <1>1, CallIs DEF Inv, Types
<1>3. nameOf' = nameOf /\ NameMap(nameOf') /\ Grows(nameOf, nameOf')
  BY <1>2 DEF Grows, TransportTool, memory
<1>4. text \in TextType
  BY <1>2, RedactKnownIs
<1>5. call' = [call EXCEPT ![s] = Next1(d)]
  BY DEF TransportTool
<1> HIDE DEF text
<1>6. d \in CallType /\ d.left = c.left /\ d.kind = c.kind
  BY <1>1, <1>4 DEF CallType
<1> HIDE DEF d, c
<1>7. Next1(d) \in CallType /\ ~InEngram(Next1(d)) /\ Next1(d).stage = "hook" /\ ~Seen(Next1(d))
  BY <1>1, <1>6, NextIs DEF Seen
<1>8. call' \in [Sessions -> CallType \cup {None}] /\ call'[s] = Next1(d)
        /\ \A r \in Sessions \ {s} : CallInv(r)'
  BY <1>3, <1>5, <1>7, OtherCalls DEF TransportTool, memory
<1>9. CallInv(s)'
  BY <1>1, <1>7, <1>8 DEF CallInv, TransportTool
<1>10. ShownInv'
  <2> DEFINE spots == Firsts(nameOf, c.text.bare \cup Contexts(c.text))
  <2>1. shown' = shown \cup Pairs(nameOf', spots)
    BY <1>3 DEF TransportTool, c
  <2>2. \A m \in spots : m \in Spots /\ m.value \in Known(nameOf')
    <3>1. c.text.bare \cup Contexts(c.text) \in SUBSET Spots
      BY <1>2, TextIs
    <3> QED  BY <1>2, <1>3, <3>1, FirstsAre
  <2> HIDE DEF spots
  <2> QED  BY <1>3, <2>1, <2>2, ShownKept
<1>11. Types' /\ SentInv' /\ (told \subseteq subs)'
  BY <1>3, <1>8 DEF Inv, Types, SentInv, TransportTool, memory
<1>12. \A r \in Sessions : SessionInv(r)'
  BY SameSessions DEF TransportTool, memory
<1> QED  BY <1>8, <1>9, <1>10, <1>11, <1>12 DEF Inv

LEMMA ShownSame ==
  ASSUME Inv, UNCHANGED <<nameOf, shown>>
  PROVE  ShownInv' /\ NameMap(nameOf') /\ Grows(nameOf, nameOf')
BY DEF Inv, Types, ShownInv, Grows

(* A call that engram lets go is as the transport left it.                 *)
LEMMA PastEngram ==
  ASSUME NEW c \in CallType, AtEngram(c), NEW names, NEW more, NameMap(names), NameMap(more),
         Grows(names, more), Seen(c) => Explained(names, c)
  PROVE  Seen(Next1(c)) => Explained(more, Next1(c))
<1> SUFFICES ASSUME Seen(Next1(c)) PROVE Explained(more, Next1(c))  OBVIOUS
<1>1. c.left \in Lefts /\ c.left # << >> /\ Head(c.left) = "engram"
  BY CallIs DEF AtEngram
<1>2. Tail(c.left) \in {<<"engram">>, << >>} /\ c.kind = "chat"
  BY <1>1, NextIs DEF Seen
<1>3. c.left = <<"engram">>
  BY <1>1, <1>2, LeftIs
<1>4. Explained(more, c)
  BY <1>2, <1>3, ExplainedGrows DEF Seen
<1> QED  BY <1>1, <1>4, NextIs DEF Explained

(* engram's hook, up to its first await.                                   *)
LEMMA EngramHookStep ==
  ASSUME Inv, NEW s \in Sessions, NEW kind, EngramHook(s, kind)
  PROVE  Inv'
<1> DEFINE c == call[s]
<1>1. c \in CallType /\ life[s] = "live" /\ AtEngram(c) /\ CallInv(s) /\ SessionInv(s) /\ c # None
        /\ c.left # << >>
  BY CallIsWhere DEF EngramHook, At, AtEngram, Inv
<1>2. ShownInv' /\ NameMap(nameOf) /\ NameMap(nameOf') /\ Grows(nameOf, nameOf')
  BY ShownSame DEF EngramHook, ghosts, Inv, Types
<1>3. UNCHANGED <<order, nameOf, subs, life, events, server, shown, sent, told, missed>>
  BY DEF EngramHook, ghosts
<1>4. SentInv' /\ (told \subseteq subs)'
  BY <1>3 DEF Inv, SentInv
<1>5. CASE UNCHANGED <<known, posting>> /\ call' = [call EXCEPT ![s] = Next1(c)]
  <2>1. Next1(c) \in CallType /\ ~InEngram(Next1(c)) /\ Next1(c).stage = "hook"
    BY <1>1, NextIs
  <2>2. Seen(Next1(c)) => Explained(nameOf', Next1(c))
    BY <1>1, <1>2, PastEngram DEF CallInv
  <2>3. call' \in [Sessions -> CallType \cup {None}] /\ call'[s] = Next1(c)
          /\ \A r \in Sessions \ {s} : CallInv(r)'
    <3> HIDE DEF c
    <3> QED  BY <1>2, <1>3, <1>5, <2>1, OtherCalls
  <2> HIDE DEF c
  <2>4. CallInv(s)'
    BY <1>1, <1>3, <2>1, <2>2, <2>3 DEF CallInv
  <2>5. Types'
    BY <1>2, <1>3, <1>5, <2>3 DEF Inv, Types
  <2>6. \A r \in Sessions : SessionInv(r)'
    BY <1>3, <1>5, SameSessions
  <2> QED  BY <1>2, <1>4, <2>3, <2>4, <2>5, <2>6 DEF Inv
<1>6. CASE EnsureSession(s) /\ call' = [call EXCEPT ![s].stage = IF Ensures(s) THEN "session" ELSE "post"]
  <2> DEFINE stage == IF Ensures(s) THEN "session" ELSE "post"
             d == [c EXCEPT !.stage = stage]
  <2>1. stage \in {"session", "post"} /\ (stage = "session" => Ensures(s)) /\ (~Ensures(s) => stage = "post")
    OBVIOUS
  <2>2. call' = [call EXCEPT ![s] = d]
    BY <1>6
  <2> HIDE DEF stage
  <2>3. d \in CallType /\ d.left = c.left /\ d.kind = c.kind /\ d.text = c.text /\ d.warned = c.warned
          /\ d.stage = stage
    BY <1>1, <2>1 DEF CallType
  <2> HIDE DEF d
  <2>4. Seen(d) => Explained(nameOf', d)
    <3>1. Seen(d) => Explained(nameOf, c)
      BY <1>1, <2>3 DEF CallInv, Seen
    <3> QED  BY <1>3, <2>3, <3>1 DEF Explained
  <2> HIDE DEF c
  <2>5. posting \subseteq posting' /\ known \subseteq known'
          /\ (Ensures(s) => known' = known \cup {s} /\ posting' = posting \cup {s})
          /\ (~Ensures(s) => UNCHANGED <<known, posting>>)
    BY <1>6 DEF EnsureSession
  <2>6. call' \in [Sessions -> CallType \cup {None}] /\ call'[s] = d
          /\ \A r \in Sessions \ {s} : CallInv(r)'
    BY <1>2, <1>3, <2>2, <2>3, <2>5, OtherCalls
  <2>7. s \in posting' \cup server' \cup missed' \cup SubAgents /\ (stage = "session" => s \in posting')
    <3>1. CASE Ensures(s)
      BY <2>5, <3>1
    <3>2. CASE ~Ensures(s)
      BY <1>1, <1>3, <2>1, <2>5, <3>2 DEF Ensures, SessionInv, Inv, Types
    <3> QED  BY <3>1, <3>2
  <2>8. CallInv(s)'
    BY <1>1, <1>3, <2>3, <2>4, <2>6, <2>7 DEF CallInv, AtEngram
  <2>9. Types'
    BY <1>2, <1>3, <2>5, <2>6 DEF Inv, Types
  <2>10. ASSUME NEW r \in Sessions PROVE SessionInv(r)'
    <3>1. SessionInv(r)
      BY DEF Inv
    <3>2. CASE r = s /\ Ensures(s)
      BY <1>1, <1>3, <2>5, <3>1, <3>2 DEF SessionInv, Ensures
    <3>3. CASE ~(r = s /\ Ensures(s))
      BY <1>3, <2>5, <3>1, <3>3 DEF SessionInv
    <3> QED  BY <3>2, <3>3
  <2> QED  BY <1>2, <1>4, <2>6, <2>8, <2>9, <2>10 DEF Inv
<1> QED  BY <1>5, <1>6 DEF EngramHook

(* What engram posts, and the hook it ends with.                           *)
LEMMA PostStep ==
  ASSUME Inv, NEW s \in Sessions, Post(s)
  PROVE  Inv'
<1> DEFINE c == call[s]
<1>1. c \in CallType /\ life[s] = "live" /\ CallInv(s) /\ c # None /\ c.stage = "post"
  BY CallIsWhere DEF Post, Inv
<1>2. AtEngram(c) /\ c.left # << >> /\ s \in posting \cup server \cup missed \cup SubAgents
  BY <1>1 DEF CallInv, InEngram, AtEngram
<1>3. UNCHANGED <<order, known, subs, posting, life, events, server, told, missed>>
        /\ call' = [call EXCEPT ![s] = Next1(c)]
  BY DEF Post
<1>4. NameMap(nameOf) /\ c.text \in TextType
  BY <1>1, CallIs DEF Inv, Types
<1>5. NameMap(nameOf') /\ Grows(nameOf, nameOf') /\ ShownInv' /\ SentInv'
  <2>1. CASE Posts(s, c)
    <3>1. PICK text \in Cut(c.text) :
            /\ nameOf' = Detected(nameOf, text)
            /\ shown' = shown \cup Pairs(nameOf', Taken(nameOf', text) \cup Firsts(nameOf', text.bare))
            /\ sent' = [session |-> s, text |-> Redacted(nameOf, text), known |-> Known(nameOf'),
                         refused |-> s \notin server, early |-> s \in posting]
      BY <2>1 DEF Post
    <3>2. text \in TextType /\ ~text.large
      BY <1>4, CutIs
    <3>3. NameMap(nameOf') /\ Grows(nameOf, nameOf')
      BY <1>4, <3>1, <3>2, DetectedIs
    <3>4. ShownInv'
      <4> DEFINE spots == Taken(nameOf', text) \cup Firsts(nameOf', text.bare)
      <4>1. shown' = shown \cup Pairs(nameOf', spots)
        BY <3>1
      <4>2. \A m \in Taken(nameOf', text) : m \in Spots /\ m.value \in Known(nameOf')
        BY <1>4, <3>1, <3>2, TakenAre
      <4>3. \A m \in Firsts(nameOf', text.bare) : m \in Spots /\ m.value \in Known(nameOf')
        BY <3>2, <3>3, TextIs, FirstsAre
      <4>4. \A m \in spots : m \in Spots /\ m.value \in Known(nameOf')
        BY <4>2, <4>3
      <4> HIDE DEF spots
      <4> QED  BY <3>3, <4>1, <4>4, ShownKept
    <3>5. /\ Redacted(nameOf, text).ctx = None
          /\ \A spot \in Redacted(nameOf, text).bare : spot.value \notin Known(nameOf')
      BY <1>4, <3>1, <3>2, RedactedIs
    <3> DEFINE red == Redacted(nameOf, text)
               kn  == Known(nameOf')
               ref == s \notin server
               ear == s \in posting
    <3>6. sent' = [session |-> s, text |-> red, known |-> kn, refused |-> ref, early |-> ear]
      BY <3>1
    <3>7. red.ctx = None /\ (\A spot \in red.bare : spot.value \notin kn) /\ (ref => ear \/ s \in missed \cup SubAgents)
      BY <1>2, <3>5
    <3> HIDE DEF red, kn, ref, ear
    <3>8. sent'.session = s /\ sent'.text = red /\ sent'.known = kn /\ (sent'.refused <=> ref) /\ (sent'.early <=> ear)
      BY <3>6
    <3>9. SentInv'
      BY <1>3, <3>7, <3>8 DEF SentInv
    <3> QED  BY <3>3, <3>4, <3>9
  <2>2. CASE ~Posts(s, c)
    <3>1. UNCHANGED <<nameOf, shown, sent>>
      BY <2>2 DEF Post
    <3>2. SentInv'
      BY <1>3, <3>1 DEF Inv, SentInv
    <3> QED  BY <3>1, <3>2, ShownSame
  <2> QED  BY <2>1, <2>2
<1>6. Next1(c) \in CallType /\ ~InEngram(Next1(c)) /\ Next1(c).stage = "hook"
  BY <1>1, <1>2, NextIs
<1>7. Seen(Next1(c)) => Explained(nameOf', Next1(c))
  BY <1>1, <1>2, <1>4, <1>5, PastEngram DEF CallInv
<1> HIDE DEF c
<1>8. call' \in [Sessions -> CallType \cup {None}] /\ call'[s] = Next1(c)
        /\ \A r \in Sessions \ {s} : CallInv(r)'
  BY <1>3, <1>5, <1>6, OtherCalls
<1>9. CallInv(s)'
  BY <1>1, <1>3, <1>6, <1>7, <1>8 DEF CallInv
<1>10. Types' /\ (told \subseteq subs)'
  BY <1>3, <1>5, <1>8 DEF Inv, Types
<1>11. \A r \in Sessions : SessionInv(r)'
  BY <1>3, SameSessions
<1> QED  BY <1>5, <1>8, <1>9, <1>10, <1>11 DEF Inv

(* A registration that ends, answered or not, lets whoever waited go on.   *)
LEMMA RegistrationEnds ==
  ASSUME Inv, NEW s \in posting, posting' = posting \ {s}, call' = Goes(s),
         UNCHANGED <<order, nameOf, known, subs, life, events, told, shown, sent>>,
         server \subseteq server', server' \subseteq server \cup {s}, missed \subseteq missed',
         s \in server' \cup missed'
  PROVE  Inv'
<1>1. s \in Sessions /\ call \in [Sessions -> CallType \cup {None}] /\ CallInv(s)
  BY DEF Inv, Types
<1>2. ShownInv' /\ SentInv' /\ (told \subseteq subs)'
  <2>1. SentInv'
    BY DEF Inv, SentInv
  <2> QED  BY <2>1, ShownSame DEF Inv
<1>3. ASSUME NEW r \in Sessions PROVE SessionInv(r)'
  <2>1. SessionInv(r)
    BY DEF Inv
  <2> QED  BY <2>1 DEF SessionInv
<1>4. ASSUME NEW r \in Sessions, call'[r] = call[r], call[r] # None, r = s => call[r].stage # "session"
      PROVE  CallInv(r)'
  <2>1. CallInv(r)
    BY DEF Inv
  <2> QED  BY <1>4, <2>1 DEF CallInv
<1>5. CASE call[s] # None /\ call[s].stage = "session"
  <2> DEFINE c == call[s]
             d == [c EXCEPT !.stage = "post"]
  <2>1. c \in CallType /\ c # None /\ c.stage = "session" /\ InEngram(c) /\ AtEngram(c)
    BY <1>1, <1>5 DEF CallInv, InEngram
  <2>2. call' = [call EXCEPT ![s] = d]
    BY <1>5 DEF Goes
  <2>3. d \in CallType /\ d.left = c.left /\ d.kind = c.kind /\ d.text = c.text /\ d.warned = c.warned
          /\ d.stage = "post"
    BY <2>1 DEF CallType
  <2>4. Seen(d) => Explained(nameOf', d)
    <3>1. Seen(d) => Explained(nameOf, c)
      BY <1>1, <2>1, <2>3 DEF CallInv, Seen
    <3> QED  BY <2>3, <3>1 DEF Explained
  <2> HIDE DEF d
  <2>5. call' \in [Sessions -> CallType \cup {None}] /\ call'[s] = d /\ \A r \in Sessions \ {s} : call'[r] = call[r]
    BY <1>1, <2>2, <2>3
  <2>6. CallInv(s)'
    <3>1. life'[s] = "live" /\ AtEngram(d) /\ s \in posting' \cup server' \cup missed' \cup SubAgents
      BY <1>1, <2>1, <2>3 DEF CallInv, AtEngram
    <3> QED  BY <2>3, <2>4, <2>5, <3>1 DEF CallInv
  <2>7. ASSUME NEW r \in Sessions \ {s} PROVE CallInv(r)'
    <3>1. CASE call[r] # None
      BY <1>4, <2>5, <3>1
    <3>2. CASE call[r] = None
      BY <2>5, <3>2 DEF CallInv
    <3> QED  BY <3>1, <3>2
  <2>8. Types'
    BY <2>5 DEF Inv, Types
  <2> QED  BY <1>2, <1>3, <2>6, <2>7, <2>8 DEF Inv
<1>6. CASE ~(call[s] # None /\ call[s].stage = "session")
  <2>1. call' = call
    BY <1>6 DEF Goes
  <2>2. ASSUME NEW r \in Sessions PROVE CallInv(r)'
    <3>1. CASE call[r] # None
      BY <1>4, <1>6, <2>1, <3>1
    <3>2. CASE call[r] = None
      BY <2>1, <3>2 DEF CallInv
    <3> QED  BY <3>1, <3>2
  <2>3. Types'
    BY <2>1 DEF Inv, Types
  <2> QED  BY <1>2, <1>3, <2>2, <2>3 DEF Inv
<1> QED  BY <1>5, <1>6

LEMMA RegisteredStep ==
  ASSUME Inv, NEW s \in Sessions, Registered(s)
  PROVE  Inv'
BY RegistrationEnds DEF Registered, ghosts

LEMMA RegistrationFailsStep ==
  ASSUME Inv, NEW s \in Sessions, RegistrationFails(s)
  PROVE  Inv'
BY RegistrationEnds DEF RegistrationFails

(* Nothing but a session's memory changes: the calls are as they were.     *)
LEMMA SameCalls ==
  ASSUME Inv, UNCHANGED <<order, nameOf, call, server, shown, sent, missed>>,
         \A s \in Sessions : life'[s] = life[s] \/ call[s] = None, posting \subseteq posting'
  PROVE  NameMap(nameOf') /\ ShownInv' /\ SentInv' /\ \A s \in Sessions : CallInv(s)'
<1>1. ASSUME NEW s \in Sessions PROVE CallInv(s)'
  <2>1. CallInv(s)
    BY DEF Inv
  <2> QED  BY <2>1 DEF CallInv
<1>2. SentInv'
  BY DEF Inv, SentInv
<1> QED  BY <1>1, <1>2, ShownSame

(* session.created: a sub-agent is remembered as one, unless it was        *)
(* registered before; any other session is registered.                     *)
LEMMA CreatedStep ==
  ASSUME Inv, NEW s \in Sessions, Created(s)
  PROVE  Inv'
<1>1. UNCHANGED <<order, nameOf, call, life, server, shown, sent, missed>>
  BY DEF Created
<1>2. <<"created", s>> \in events /\ events' = events \ {<<"created", s>>} /\ life[s] = "live" /\ SessionInv(s)
  BY DEF Created, Inv, SessionInv
<1>3. CASE s \in SubAgents
  <2>1. subs' = subs \cup {s} /\ UNCHANGED <<known, posting>>
          /\ told' = IF s \notin known THEN told \cup {s} ELSE told
    BY <1>3 DEF Created
  <2>2. Types' /\ (told \subseteq subs)'
    BY <1>1, <1>3, <2>1 DEF Inv, Types
  <2>3. ASSUME NEW r \in Sessions PROVE SessionInv(r)'
    <3>1. SessionInv(r)
      BY DEF Inv
    <3>2. CASE r = s
      BY <1>1, <1>2, <2>1, <3>1, <3>2 DEF SessionInv
    <3>3. CASE r # s
      <4>1. <<"created", r>> # <<"created", s>> /\ <<"deleted", r>> # <<"created", s>>
        BY <3>3
      <4> QED  BY <1>1, <1>2, <2>1, <3>1, <3>3, <4>1 DEF SessionInv
    <3> QED  BY <3>2, <3>3
  <2> QED  BY <1>1, <2>1, <2>2, <2>3, SameCalls DEF Inv
<1>4. CASE s \notin SubAgents
  <2>1. UNCHANGED <<subs, told>> /\ EnsureSession(s)
    BY <1>4 DEF Created
  <2>2. known \subseteq known' /\ posting \subseteq posting'
          /\ (Ensures(s) => known' = known \cup {s} /\ posting' = posting \cup {s})
          /\ (~Ensures(s) => UNCHANGED <<known, posting>>)
    BY <2>1 DEF EnsureSession
  <2>3. Types' /\ (told \subseteq subs)'
    BY <1>1, <2>1, <2>2 DEF Inv, Types
  <2>4. ASSUME NEW r \in Sessions PROVE SessionInv(r)'
    <3>1. SessionInv(r) /\ told \subseteq subs
      BY DEF Inv
    <3>2. CASE r = s
      BY <1>1, <1>2, <2>1, <2>2, <3>1, <3>2 DEF SessionInv, Ensures
    <3>3. CASE r # s
      <4>1. <<"created", r>> # <<"created", s>> /\ <<"deleted", r>> # <<"created", s>>
        BY <3>3
      <4> QED  BY <1>1, <1>2, <2>1, <2>2, <3>1, <3>3, <4>1 DEF SessionInv
    <3> QED  BY <3>2, <3>3
  <2> QED  BY <1>1, <2>2, <2>3, <2>4, SameCalls DEF Inv
<1> QED  BY <1>3, <1>4

(* session.deleted: the plugin forgets the session.                        *)
LEMMA DeletedStep ==
  ASSUME Inv, NEW s \in Sessions, Deleted(s)
  PROVE  Inv'
<1>1. UNCHANGED <<order, nameOf, posting, call, life, server, shown, sent, missed>>
  BY DEF Deleted
<1>2. <<"deleted", s>> \in events /\ events' = events \ {<<"deleted", s>>}
        /\ known' = known \ {s} /\ subs' = subs \ {s} /\ told' = told \ {s}
  BY DEF Deleted
<1>3. Types' /\ (told \subseteq subs)'
  BY <1>1, <1>2 DEF Inv, Types
<1>4. ASSUME NEW r \in Sessions PROVE SessionInv(r)'
  <2>1. SessionInv(r) /\ SessionInv(s)
    BY DEF Inv
  <2>2. CASE r = s
    BY <1>1, <1>2, <2>1, <2>2 DEF SessionInv
  <2>3. CASE r # s
    <3>1. <<"created", r>> # <<"deleted", s>> /\ <<"deleted", r>> # <<"deleted", s>>
      BY <2>3
    <3> QED  BY <1>1, <1>2, <2>1, <2>3, <3>1 DEF SessionInv
  <2> QED  BY <2>2, <2>3
<1> QED  BY <1>1, <1>3, <1>4, SameCalls DEF Inv

LEMMA OpensStep ==
  ASSUME Inv, NEW s \in Sessions, Opens(s)
  PROVE  Inv'
<1>1. UNCHANGED <<order, nameOf, known, subs, posting, call, server, shown, sent, told, missed>>
  BY DEF Opens, memory, ghosts
<1>2. life[s] = "none" /\ life' = [life EXCEPT ![s] = "live"] /\ events' = events \cup {<<"created", s>>}
  BY DEF Opens
<1>3. life \in [Sessions -> {"none", "live", "deleted"}]
  BY DEF Inv, Types
<1>4. Types' /\ (told \subseteq subs)'
  BY <1>1, <1>2, <1>3 DEF Inv, Types
<1>5. \A r \in Sessions : life'[r] = life[r] \/ call[r] = None
  BY <1>2, <1>3 DEF Inv, CallInv
<1>6. ASSUME NEW r \in Sessions PROVE SessionInv(r)'
  <2>1. SessionInv(r)
    BY DEF Inv
  <2>2. CASE r = s
    <3>1. life'[s] = "live" /\ <<"deleted", s>> # <<"created", s>>
      BY <1>2, <1>3
    <3> QED  BY <1>1, <1>2, <2>1, <2>2, <3>1 DEF SessionInv
  <2>3. CASE r # s
    <3>1. life'[r] = life[r] /\ <<"created", r>> # <<"created", s>> /\ <<"deleted", r>> # <<"created", s>>
      BY <1>2, <1>3, <2>3
    <3> QED  BY <1>1, <1>2, <2>1, <3>1 DEF SessionInv
  <2> QED  BY <2>2, <2>3
<1> QED  BY <1>1, <1>4, <1>5, <1>6, SameCalls DEF Inv

LEMMA ClosesStep ==
  ASSUME Inv, NEW s \in Sessions, Closes(s)
  PROVE  Inv'
<1>1. UNCHANGED <<order, nameOf, known, subs, posting, call, server, shown, sent, told, missed>>
  BY DEF Closes, memory, ghosts
<1>2. life[s] = "live" /\ call[s] = None /\ <<"created", s>> \notin events
        /\ life' = [life EXCEPT ![s] = "deleted"] /\ events' = events \cup {<<"deleted", s>>}
  BY DEF Closes
<1>3. life \in [Sessions -> {"none", "live", "deleted"}]
  BY DEF Inv, Types
<1>4. Types' /\ (told \subseteq subs)'
  BY <1>1, <1>2, <1>3 DEF Inv, Types
<1>5. \A r \in Sessions : life'[r] = life[r] \/ call[r] = None
  BY <1>2, <1>3
<1>6. ASSUME NEW r \in Sessions PROVE SessionInv(r)'
  <2>1. SessionInv(r)
    BY DEF Inv
  <2>2. CASE r = s
    <3>1. life'[s] = "deleted" /\ <<"deleted", s>> # <<"created", s>>
      BY <1>2, <1>3
    <3> QED  BY <1>1, <1>2, <2>1, <2>2, <3>1 DEF SessionInv
  <2>3. CASE r # s
    <3>1. life'[r] = life[r] /\ <<"created", r>> # <<"deleted", s>> /\ <<"deleted", r>> # <<"deleted", s>>
      BY <1>2, <1>3, <2>3
    <3> QED  BY <1>1, <1>2, <2>1, <3>1 DEF SessionInv
  <2> QED  BY <2>2, <2>3
<1> QED  BY <1>1, <1>4, <1>5, <1>6, SameCalls DEF Inv

(* A call that starts or returns, neither of which is in a hook.           *)
LEMMA CallsStep ==
  ASSUME Inv, NEW s \in Sessions, NEW kind \in {"chat", "tool"}, NEW use \in {"post", "register", "none"},
         NEW text \in Texts, Calls(s, kind, use, text)
  PROVE  Inv'
<1> DEFINE c == [kind |-> kind, use |-> use, left |-> order, stage |-> "hook", warned |-> {}, text |-> text]
<1>1. UNCHANGED <<order, nameOf, known, subs, posting, life, events, server, shown, sent, told, missed>>
        /\ call' = [call EXCEPT ![s] = c] /\ life[s] = "live"
  BY DEF Calls, memory, ghosts
<1>2. order \in {<<"transport", "engram">>, <<"engram", "transport">>}
  BY DEF Inv, Types
<1>3. c \in CallType
  <2>1. text \in TextType /\ order \in Lefts
    BY <1>2, Parameters DEF Lefts
  <2> QED  BY <2>1 DEF CallType
<1>4. c.left = order /\ c.stage = "hook"
  OBVIOUS
<1> HIDE DEF c
<1>5. ~InEngram(c) /\ ~Seen(c)
  <2>1. order # <<"engram">> /\ order # << >>
    BY <1>2
  <2> QED  BY <1>4, <2>1 DEF InEngram, Seen
<1>6. ShownInv' /\ NameMap(nameOf') /\ Grows(nameOf, nameOf')
  BY <1>1, ShownSame
<1>7. call' \in [Sessions -> CallType \cup {None}] /\ call'[s] = c /\ \A r \in Sessions \ {s} : CallInv(r)'
  BY <1>1, <1>3, <1>6, OtherCalls
<1>8. CallInv(s)'
  BY <1>1, <1>4, <1>5, <1>7 DEF CallInv
<1>9. Types' /\ SentInv' /\ (told \subseteq subs)'
  BY <1>1, <1>6, <1>7 DEF Inv, Types, SentInv
<1>10. \A r \in Sessions : SessionInv(r)'
  BY <1>1, SameSessions
<1> QED  BY <1>6, <1>7, <1>8, <1>9, <1>10 DEF Inv

LEMMA ReturnsStep ==
  ASSUME Inv, NEW s \in Sessions, Returns(s)
  PROVE  Inv'
<1>1. UNCHANGED <<order, nameOf, known, subs, posting, life, events, server, shown, sent, told, missed>>
        /\ call' = [call EXCEPT ![s] = None]
  BY DEF Returns, memory, ghosts
<1>2. ShownInv' /\ NameMap(nameOf') /\ Grows(nameOf, nameOf')
  BY <1>1, ShownSame
<1>3. call' \in [Sessions -> CallType \cup {None}] /\ call'[s] = None /\ \A r \in Sessions \ {s} : CallInv(r)'
  BY <1>1, <1>2, OtherCalls
<1>4. CallInv(s)'
  BY <1>3 DEF CallInv
<1>5. Types' /\ SentInv' /\ (told \subseteq subs)'
  BY <1>1, <1>2, <1>3 DEF Inv, Types, SentInv
<1>6. \A r \in Sessions : SessionInv(r)'
  BY <1>1, SameSessions
<1> QED  BY <1>2, <1>3, <1>4, <1>5, <1>6 DEF Inv

(* A restart forgets everything but the sessions and the server.           *)
LEMMA RestartStep ==
  ASSUME Inv, Restart
  PROVE  Inv'
<1>1. nameOf' = [v \in Values |-> None] /\ known' = {} /\ subs' = {} /\ posting' = {} /\ events' = {}
        /\ call' = [s \in Sessions |-> None] /\ shown' = {} /\ told' = {} /\ missed' = missed \cup posting
        /\ UNCHANGED <<order, life, server, sent>>
  BY DEF Restart
<1>2. Types'
  <2>1. NameMap(nameOf')
    BY <1>1 DEF NameMap, Known
  <2> QED  BY <1>1, <2>1 DEF Inv, Types
<1>3. ShownInv' /\ SentInv' /\ (told \subseteq subs)'
  BY <1>1 DEF Inv, ShownInv, SentInv
<1>4. ASSUME NEW s \in Sessions PROVE CallInv(s)' /\ SessionInv(s)'
  BY <1>1 DEF Inv, CallInv, SessionInv
<1> QED  BY <1>2, <1>3, <1>4 DEF Inv

LEMMA InvNext == Inv /\ [Next]_vars => Inv'
<1> SUFFICES ASSUME Inv, [Next]_vars PROVE Inv'  OBVIOUS
<1>1. CASE Restart
  BY <1>1, RestartStep
<1>2. CASE UNCHANGED vars
  <2>1. UNCHANGED <<order, nameOf, known, subs, posting, call, life, events, server, shown, sent, told, missed>>
    BY <1>2 DEF vars, memory, ghosts
  <2>2. \A s \in Sessions : SessionInv(s)'
    BY <2>1, SameSessions
  <2>3. NameMap(nameOf') /\ ShownInv' /\ SentInv' /\ \A s \in Sessions : CallInv(s)'
    BY <2>1, SameCalls
  <2> QED  BY <2>1, <2>2, <2>3 DEF Inv, Types
<1>3. CASE \E s \in Sessions :
            \/ Opens(s) \/ Closes(s) \/ Returns(s)
            \/ \E text \in Texts, use \in {"post", "none"} : Calls(s, "chat", use, text)
            \/ \E text \in Texts, use \in {"post", "register", "none"} : Calls(s, "tool", use, text)
            \/ TransportChat(s) \/ TransportTool(s) \/ EngramHook(s, "chat") \/ EngramHook(s, "tool")
            \/ Post(s) \/ Registered(s) \/ RegistrationFails(s)
            \/ Created(s) \/ Deleted(s)
  <2> PICK s \in Sessions :
            \/ Opens(s) \/ Closes(s) \/ Returns(s)
            \/ \E text \in Texts, use \in {"post", "none"} : Calls(s, "chat", use, text)
            \/ \E text \in Texts, use \in {"post", "register", "none"} : Calls(s, "tool", use, text)
            \/ TransportChat(s) \/ TransportTool(s) \/ EngramHook(s, "chat") \/ EngramHook(s, "tool")
            \/ Post(s) \/ Registered(s) \/ RegistrationFails(s)
            \/ Created(s) \/ Deleted(s)
    BY <1>3
  <2>1. CASE Opens(s) \/ Closes(s) \/ Returns(s)
    BY <2>1, OpensStep, ClosesStep, ReturnsStep
  <2>2. CASE \/ \E text \in Texts, use \in {"post", "none"} : Calls(s, "chat", use, text)
             \/ \E text \in Texts, use \in {"post", "register", "none"} : Calls(s, "tool", use, text)
    BY <2>2, CallsStep
  <2>3. CASE TransportChat(s) \/ TransportTool(s) \/ EngramHook(s, "chat") \/ EngramHook(s, "tool") \/ Post(s)
    BY <2>3, TransportChatStep, TransportToolStep, EngramHookStep, PostStep
  <2>4. CASE Registered(s) \/ RegistrationFails(s) \/ Created(s) \/ Deleted(s)
    BY <2>4, RegisteredStep, RegistrationFailsStep, CreatedStep, DeletedStep
  <2> QED  BY <2>1, <2>2, <2>3, <2>4
<1> QED  BY <1>1, <1>2, <1>3 DEF Next

LEMMA Invariance == Spec => []Inv
BY InvInit, InvNext, PTL DEF Spec

-----------------------------------------------------------------------------
(* The theorems.                                                           *)

(* The plugins' memory is what its types say at every moment, and a hook   *)
(* waits for a registration only while one is under way.                   *)
THEOREM PluginTypes == Spec => []TypeOK
<1>1. Inv => TypeOK
  <2> SUFFICES ASSUME Inv PROVE TypeOK  OBVIOUS
  <2>1. ASSUME NEW s \in Sessions, call[s] # None
        PROVE  /\ call[s].text \in TextType
               /\ call[s].stage \in {"hook", "session", "post"}
               /\ call[s].stage = "session" => s \in posting
    BY <2>1, CallIsWhere, CallIs DEF Inv, CallInv
  <2> QED  BY <2>1 DEF Inv, Types, NameMap, TypeOK
<1> QED  BY <1>1, Invariance, PTL

(* detectAndReplace, redactKnownValues and register of the transport: in    *)
(* any session and by either plugin, a variable put into a text, where no   *)
(* character of a name follows, expands to the value it replaced and to no   *)
(* other; and every variable of a message both plugins have seen has, as a   *)
(* shell reads it, a value or was warned about, unless a lower-case letter   *)
(* follows it or the message quotes the warning.                            *)
THEOREM VariablesKept == Spec => []VariablesKeepTheirValue
<1>1. Inv => VariablesKeepTheirValue
  <2> SUFFICES ASSUME Inv PROVE VariablesKeepTheirValue  OBVIOUS
  <2>1. ASSUME NEW p \in shown, p.token.tail = 0 PROVE Expands(Reads(p.token)) = {p.value}
    <3>1. p.value \in Known(nameOf) /\ p.token.name = nameOf[p.value].name
      BY DEF Inv, ShownInv
    <3>2. \A v \in Known(nameOf) : nameOf[v].name = p.token.name => v = p.value
      BY <3>1 DEF Inv, Types, NameMap
    <3>3. Reads(p.token) = p.token.name
      BY <2>1 DEF Reads
    <3> QED  BY <3>1, <3>2, <3>3 DEF Expands
  <2>2. ASSUME NEW s \in Sessions, call[s] # None, call[s].left = << >>, call[s].kind = "chat",
               NEW t \in call[s].text.vars
        PROVE  t.tail = 1 \/ Expands(Reads(t)) # {} \/ Reads(t) \in call[s].warned \/ call[s].text.quotes
    <3>1. Explained(nameOf, call[s])
      BY <2>2 DEF Inv, CallInv, Seen
    <3>2. Reads(t) \in Used(nameOf) => Expands(Reads(t)) # {}
      BY DEF Used, Expands
    <3> QED  BY <3>1, <3>2 DEF Explained
  <2> QED  BY <2>1, <2>2 DEF VariablesKeepTheirValue
<1> QED  BY <1>1, Invariance, PTL

(* ensureSession and the hooks of engram: what is posted has lost every    *)
(* value a context gave away and every value known by then, whichever       *)
(* plugin saw the text first; a sub-agent announced in time is never        *)
(* registered; a post is refused only during or after a failed             *)
(* registration, or from a sub-agent.                                      *)
THEOREM EngramSafe == Spec => []EngramHoldsWhatItShould
<1>1. Inv => EngramHoldsWhatItShould
  <2> SUFFICES ASSUME Inv PROVE EngramHoldsWhatItShould  OBVIOUS
  <2>1. told \cap (server \cup posting) = {}
    BY Parameters DEF Inv, Types, SessionInv
  <2> QED  BY <2>1 DEF Inv, SentInv, EngramHoldsWhatItShould
<1> QED  BY <1>1, Invariance, PTL
=============================================================================
