-------------------------------- MODULE Plugins --------------------------------
(***************************************************************************)
(* Two plugins darq installs in OpenCode, in one process with it: the       *)
(* secret transport (secret-transport.ts), which replaces the values it     *)
(* finds in a user's message by variables, and engram (engram.ts), which    *)
(* registers sessions with a memory server and posts prompts and what       *)
(* sub-agents learned.                                                      *)
(*                                                                         *)
(* OpenCode (outside this repository) runs the hooks of one call one after  *)
(* the other, in the order the plugins were loaded, those of other sessions *)
(* meanwhile; and delivers its events whenever it does. A handler is        *)
(* interrupted only where it awaits an answer of the server.                *)
(*                                                                         *)
(* A text is what there is in it to find: a value whose context gives it    *)
(* away, values with none, variables, whether it is over the detection cap  *)
(* and whether it quotes the warning about unknown variables. What follows   *)
(* a value or a variable matters as well (the tail): nothing that belongs    *)
(* in a name (0), a lower-case letter (1) or _2, _3, ... (2, 3, ...).       *)
(***************************************************************************)
EXTENDS Naturals, Sequences, FiniteSets

CONSTANTS
  Sessions,
  SubAgents,     \* those a task tool creates
  Values,
  Base,          \* value -> the variable name its context suggests
  Inside,        \* value -> the value it begins with or has in it, and its tail there, or None
  Texts,         \* what may be written
  MaxCalls, MaxTroubles,   \* bounds on the instance TLC explores
  None

Variables == {<<Base[v], i>> : v \in Values, i \in 1..Cardinality(Values)}
Spots  == [value : Values, tail : Nat]
Tokens == [name : Variables, tail : Nat]
Entries == [name : Variables, nth : Nat]
TextType ==
  [ctx : Spots \cup {None}, bare : SUBSET Spots, vars : SUBSET Tokens,
   large : BOOLEAN, quotes : BOOLEAN]

ASSUME Parameters ==
  /\ SubAgents \subseteq Sessions /\ IsFiniteSet(Values)
  /\ None \notin Values /\ None \notin Spots /\ None \notin Entries
  /\ DOMAIN Base = Values
  /\ DOMAIN Inside = Values
  /\ \A v \in Values : Inside[v] # None => Inside[v] \in Spots /\ Inside[Inside[v].value] = None
  /\ Texts \subseteq TextType
  /\ {MaxCalls, MaxTroubles} \subseteq Nat

VARIABLES
  order,       \* the hooks of a call, in the order the plugins were loaded
  nameOf,      \* valueToName, value -> its name and when it was registered; its names are usedNames
  known,       \* knownSessions
  subs,        \* subAgentSessions
  posting,     \* sessions whose registration is under way
  call,        \* session -> the call whose hooks are running, or None
  life,        \* session -> "none", "live" or "deleted"
  events,      \* events OpenCode has yet to deliver
  server,      \* the sessions engram holds
  shown,       \* ghost: the variables put into texts, with what they stand for
  sent,        \* ghost: what was posted last, and what was known by then
  told,        \* ghost: sub-agents the plugin was told of before any call of theirs
  missed,      \* ghost: sessions whose registration failed
  calls, troubles   \* bounds

memory == <<nameOf, known, subs, posting>>
ghosts == <<shown, sent, told, missed>>
bounds == <<calls, troubles>>
vars == <<order, memory, call, life, events, server, ghosts, bounds>>

-----------------------------------------------------------------------------
(* secret-transport.ts.                                                    *)

Known(names) == {v \in Values : names[v] # None}
Used(names)  == {names[v].name : v \in Known(names)}
Entry(names, n) == [name |-> n, nth |-> Cardinality(Known(names)) + 1]

(* Broken: the suggested name, whoever has it.                             *)
RegisterPlain(names, v) ==
  IF names[v] # None THEN names ELSE [names EXCEPT ![v] = Entry(names, <<Base[v], 1>>)]

(* register: the suggested name, or the first free NAME_2, NAME_3, ...      *)
FreeName(names, b) ==
  CHOOSE n \in {<<b, i>> : i \in 1..(Cardinality(Values) + 1)} :
    n \notin Used(names) /\ \A i \in 1..(n[2] - 1) : <<b, i>> \in Used(names)
Register(names, v) ==
  IF names[v] # None THEN names ELSE [names EXCEPT ![v] = Entry(names, FreeName(names, Base[v]))]

(* redactKnownValues: one value after the other in the order they were      *)
(* registered, as they are met in the text, so that of a value and the one   *)
(* it has in it the first registered goes and what is left is neither. The   *)
(* variable takes the value's place and is followed by what followed it.    *)
Contexts(text) == {text.ctx} \ {None}
Matches(names, spot) ==
  {m \in {spot} \cup ({Inside[spot.value]} \ {None}) : m.value \in Known(names)}
First(names, spot) ==
  CHOOSE m \in Matches(names, spot) :
    \A o \in Matches(names, spot) : names[m.value].nth <= names[o.value].nth
Found(names, spots) == {spot \in spots : Matches(names, spot) # {}}
Firsts(names, spots) == {First(names, spot) : spot \in Found(names, spots)}
Token(names, spot) == [name |-> names[spot.value].name, tail |-> spot.tail]
RedactKnown(names, text) ==
  LET spots == text.bare \cup Contexts(text) IN
  [text EXCEPT !.ctx = IF @ \in Found(names, spots) THEN None ELSE @,
               !.bare = @ \ Found(names, spots),
               !.vars = @ \cup {Token(names, m) : m \in Firsts(names, spots)}]

(* detectAndReplace: what context gives away, and over the cap only what is *)
(* known already.                                                          *)
Detected(names, text) ==
  IF text.large \/ text.ctx = None THEN names ELSE Register(names, text.ctx.value)
Replaced(names, text) ==
  IF text.large THEN RedactKnown(names, text)
  ELSE [text EXCEPT !.ctx = None,
                    !.vars = @ \cup {Token(Detected(names, text), m) : m \in Contexts(text)}]
Taken(names, text) == IF text.large THEN Firsts(names, text.bare \cup Contexts(text)) ELSE Contexts(text)

(* globalRedact, the one engram calls.                                     *)
Redacted(names, text) == RedactKnown(Detected(names, text), Replaced(names, text))

Pairs(names, spots) == {[token |-> Token(names, m), value |-> m.value] : m \in spots}

(* What a variable reads as, to a shell and to findUnknownVariableNames,     *)
(* which stops at a lower-case letter: _2 after TOKEN makes TOKEN_2 of it,   *)
(* anything else that may be in a name a name nobody has.                   *)
Reads(token) ==
  CASE token.tail = 0 -> token.name
    [] token.tail > 1 /\ token.name[2] = 1 -> <<token.name[1], token.tail>>
    [] OTHER -> <<token.name[1], 0>>
Matched(token) == IF token.tail = 1 THEN token.name ELSE Reads(token)

(* findUnknownVariableNames: warned about once.                             *)
Unknown(names, text) ==
  IF text.quotes THEN {} ELSE {Matched(t) : t \in text.vars} \ Used(names)

(* "shell.env": what a variable expands to in a command.                    *)
Expands(name) == {v \in Known(nameOf) : nameOf[v].name = name}

-----------------------------------------------------------------------------
(* The hooks of one call.                                                  *)
Next1(c) == [c EXCEPT !.left = Tail(@), !.stage = "hook"]
At(s, hook, kind) ==
  /\ call[s] # None /\ call[s].left # << >>
  /\ Head(call[s].left) = hook /\ call[s].kind = kind

(* "chat.message" of the transport.                                        *)
TransportChat(s) ==
  LET c == call[s] IN
  /\ At(s, "transport", "chat")
  /\ nameOf' = Detected(nameOf, c.text)
  /\ shown' = shown \cup Pairs(nameOf', Taken(nameOf', c.text))
  /\ call' = [call EXCEPT ![s] = Next1([c EXCEPT !.text = Replaced(nameOf, c.text),
                                                 !.warned = Unknown(nameOf', Replaced(nameOf, c.text))])]
  /\ UNCHANGED <<order, known, subs, posting, life, events, server, sent, told, missed, bounds>>
(* "tool.execute.after" of the transport: what is known, nothing new.       *)
TransportTool(s) ==
  LET c == call[s] IN
  /\ At(s, "transport", "tool")
  /\ shown' = shown \cup Pairs(nameOf, Firsts(nameOf, c.text.bare \cup Contexts(c.text)))
  /\ call' = [call EXCEPT ![s] = Next1([c EXCEPT !.text = RedactKnown(nameOf, c.text)])]
  /\ UNCHANGED <<order, memory, life, events, server, sent, told, missed, bounds>>

(* ensureSession: a session is known from before its registration is sent.  *)
Ensures(s) == s \notin known \cup subs
EnsureSession(s) ==
  IF Ensures(s) THEN known' = known \cup {s} /\ posting' = posting \cup {s}
  ELSE UNCHANGED <<known, posting>>

(* "chat.message" and "tool.execute.after" of engram, up to the first       *)
(* await; a sub-agent's message, one of ten characters or fewer and a tool  *)
(* of engram's own are none of its business. A compaction and a tool that   *)
(* is no task only register their session.                                 *)
EngramHook(s, kind) ==
  LET c == call[s] IN
  /\ At(s, "engram", kind) /\ c.stage = "hook"
  /\ IF c.use = "none" \/ (kind = "chat" /\ s \in subs)
     THEN call' = [call EXCEPT ![s] = Next1(c)] /\ UNCHANGED <<known, posting>>
     ELSE /\ EnsureSession(s)
          /\ call' = [call EXCEPT ![s].stage = IF Ensures(s) THEN "session" ELSE "post"]
  /\ UNCHANGED <<order, nameOf, subs, life, events, server, ghosts, bounds>>

(* Broken: not cut before it is redacted.                                  *)
Uncut(text) == {text}

(* What is posted: a prompt cut to the cap, or what a task ended with when  *)
(* it is not over it.                                                      *)
Part(text, x, b) == [text EXCEPT !.large = FALSE, !.ctx = x, !.bare = b]
Cut(text) == IF text.large
             THEN {Part(text, x, b) : x \in {None, text.ctx}, b \in SUBSET text.bare}
             ELSE {text}

Posts(s, c) == c.use = "post" /\ (c.kind = "chat" \/ (~c.text.large /\ s \notin subs))
Post(s) ==
  LET c == call[s] IN
  /\ call[s] # None /\ c.stage = "post"
  /\ IF Posts(s, c)
     THEN \E text \in Cut(c.text) :
            /\ nameOf' = Detected(nameOf, text)
            /\ shown' = shown \cup Pairs(nameOf', Taken(nameOf', text) \cup Firsts(nameOf', text.bare))
            /\ sent' = [session |-> s, text |-> Redacted(nameOf, text), known |-> Known(nameOf'),
                         refused |-> s \notin server, early |-> s \in posting]
     ELSE UNCHANGED <<nameOf, shown, sent>>
  /\ call' = [call EXCEPT ![s] = Next1(c)]
  /\ UNCHANGED <<order, known, subs, posting, life, events, server, told, missed, bounds>>

(* Broken: who waits for the registration goes on waiting.                  *)
Stays(s) == call

(* The registration is answered, or the server is down and engramFetch      *)
(* swallows it; whoever waited for it goes on.                              *)
Goes(s) ==
  IF call[s] # None /\ call[s].stage = "session" THEN [call EXCEPT ![s].stage = "post"] ELSE call
Registered(s) ==
  /\ s \in posting /\ posting' = posting \ {s}
  /\ server' = server \cup {s}
  /\ call' = Goes(s)
  /\ UNCHANGED <<order, nameOf, known, subs, life, events, ghosts, bounds>>
RegistrationFails(s) ==
  /\ s \in posting /\ posting' = posting \ {s}
  /\ troubles < MaxTroubles /\ troubles' = troubles + 1
  /\ missed' = missed \cup {s}
  /\ call' = Goes(s)
  /\ UNCHANGED <<order, nameOf, known, subs, life, events, server, shown, sent, told, calls>>

-----------------------------------------------------------------------------
(* session.created and session.deleted.                                    *)
Created(s) ==
  /\ <<"created", s>> \in events /\ events' = events \ {<<"created", s>>}
  /\ IF s \in SubAgents
     THEN subs' = subs \cup {s} /\ UNCHANGED <<known, posting>>
     ELSE UNCHANGED subs /\ EnsureSession(s)
  /\ told' = IF s \in SubAgents /\ s \notin known THEN told \cup {s} ELSE told
  /\ UNCHANGED <<order, nameOf, call, life, server, shown, sent, missed, bounds>>
Deleted(s) ==
  /\ <<"deleted", s>> \in events /\ events' = events \ {<<"deleted", s>>}
  /\ known' = known \ {s} /\ subs' = subs \ {s} /\ told' = told \ {s}
  /\ UNCHANGED <<order, nameOf, posting, call, life, server, shown, sent, missed, bounds>>

-----------------------------------------------------------------------------
(* OpenCode and its user.                                                  *)
Opens(s) ==
  /\ life[s] = "none" /\ life' = [life EXCEPT ![s] = "live"]
  /\ events' = events \cup {<<"created", s>>}
  /\ UNCHANGED <<order, memory, call, server, ghosts, bounds>>
Closes(s) ==
  /\ life[s] = "live" /\ call[s] = None /\ <<"created", s>> \notin events
  /\ life' = [life EXCEPT ![s] = "deleted"]
  /\ events' = events \cup {<<"deleted", s>>}
  /\ UNCHANGED <<order, memory, call, server, ghosts, bounds>>
(* A message, in which variables may have been copied from anywhere; or the *)
(* output of a tool. Engram has a use for a message but a short one, which   *)
(* holds no context and no variable, and for the tool that is a task.        *)
Short(text) == text.ctx = None /\ text.vars = {} /\ ~text.large
Calls(s, kind, use, text) ==
  /\ life[s] = "live" /\ call[s] = None /\ calls < MaxCalls
  /\ kind = "chat" => use = "post" \/ (use = "none" /\ Short(text))
  /\ call' = [call EXCEPT ![s] =
       [kind |-> kind, use |-> use, left |-> order, stage |-> "hook", warned |-> {}, text |-> text]]
  /\ calls' = calls + 1
  /\ UNCHANGED <<order, memory, life, events, server, ghosts, troubles>>
Returns(s) ==
  /\ call[s] # None /\ call[s].left = << >>
  /\ call' = [call EXCEPT ![s] = None]
  /\ UNCHANGED <<order, memory, life, events, server, ghosts, bounds>>
(* OpenCode restarts: the plugins' memory is gone, sessions and server are  *)
(* not. What was shown to the model before has no value any more.           *)
Restart ==
  /\ troubles < MaxTroubles /\ troubles' = troubles + 1
  /\ nameOf' = [v \in Values |-> None] /\ known' = {} /\ subs' = {} /\ posting' = {}
  /\ call' = [s \in Sessions |-> None] /\ events' = {}
  /\ shown' = {} /\ told' = {} /\ missed' = missed \cup posting
  /\ UNCHANGED <<order, life, server, sent, calls>>

Init ==
  /\ order \in {<<"transport", "engram">>, <<"engram", "transport">>}
  /\ nameOf = [v \in Values |-> None] /\ known = {} /\ subs = {} /\ posting = {}
  /\ call = [s \in Sessions |-> None] /\ life = [s \in Sessions |-> "none"] /\ events = {}
  /\ server = {}
  /\ shown = {} /\ sent = None /\ told = {} /\ missed = {}
  /\ calls = 0 /\ troubles = 0

Next ==
  \/ \E s \in Sessions :
       \/ Opens(s) \/ Closes(s) \/ Returns(s)
       \/ \E text \in Texts, use \in {"post", "none"} : Calls(s, "chat", use, text)
       \/ \E text \in Texts, use \in {"post", "register", "none"} : Calls(s, "tool", use, text)
       \/ TransportChat(s) \/ TransportTool(s) \/ EngramHook(s, "chat") \/ EngramHook(s, "tool")
       \/ Post(s) \/ Registered(s) \/ RegistrationFails(s)
       \/ Created(s) \/ Deleted(s)
  \/ Restart

Spec == Init /\ [][Next]_vars

-----------------------------------------------------------------------------
(* Properties.                                                             *)

(* Type invariant. A call waits for a registration only while one is under  *)
(* way.                                                                    *)
TypeOK ==
  /\ nameOf \in [Values -> Entries \cup {None}]
  /\ known \subseteq Sessions /\ subs \subseteq SubAgents /\ posting \subseteq Sessions
  /\ \A s \in Sessions : call[s] # None =>
       /\ call[s].text \in TextType
       /\ call[s].stage \in {"hook", "session", "post"}
       /\ call[s].stage = "session" => s \in posting

(* A variable put into a text, by either plugin and in any session, expands *)
(* to the value it replaced there and to no other as long as the process    *)
(* lives, where nothing that may be in a name follows it (what does makes    *)
(* another name of it, another value's or nobody's). And a variable of a     *)
(* message that has no value as it reads was warned about, unless the        *)
(* message quotes the warning or a lower-case letter follows it.            *)
VariablesKeepTheirValue ==
  /\ \A p \in shown : p.token.tail = 0 => Expands(Reads(p.token)) = {p.value}
  /\ \A s \in Sessions : (call[s] # None /\ call[s].left = << >> /\ call[s].kind = "chat") =>
       \A t \in call[s].text.vars :
         t.tail = 1 \/ Expands(Reads(t)) # {} \/ Reads(t) \in call[s].warned \/ call[s].text.quotes

(* Whatever reaches engram holds no value a context gave away and none that *)
(* was known as a whole (of one that has another in it the rest may stay),  *)
(* whichever plugin saw the text first; a sub-agent it was told             *)
(* of in time is never registered; and a post is refused only while the     *)
(* registration of its session is under way, or after it failed.            *)
EngramHoldsWhatItShould ==
  /\ sent # None =>
       /\ sent.text.ctx = None /\ \A spot \in sent.text.bare : spot.value \notin sent.known
       /\ sent.refused => sent.early \/ sent.session \in missed \cup SubAgents
  /\ told \cap (server \cup posting) = {}
=============================================================================
