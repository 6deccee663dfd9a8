------------------------------- MODULE Config -------------------------------
(* config.h and config.cc: the registry of named variables, their listeners *)
(* and LoadFromYaml, used by threads that run at the same time.  A name is  *)
(* the sequence of its parts (system.port is <<"system", "port">>).  What   *)
(* a text means for a type, and the members of a document, are parameters:  *)
(* see ConfigYaml.                                                          *)
EXTENDS Integers, Sequences, FiniteSets, SequencesExt

CONSTANTS
  Programs,   \* the sequences of calls the threads may make
  Threads,
  Invalid,    \* the parts of names with a character that is not allowed
  Statics,    \* the variables that are there before main()
  Cast(_, _), \* FromStr of a variable's type: what the text of a node gives
  Members(_, _)   \* ListAllMember: the members of a document with their names

\* The initialisers of static variables look up different names.
ASSUME StaticsAssumption ==
  /\ Statics \in Seq(Range(Statics))
  /\ \A i \in DOMAIN Statics : Statics[i].cbs \in Seq(Range(Statics[i].cbs))
  /\ \A i, j \in DOMAIN Statics : Statics[i].name = Statics[j].name => i = j

\* The calls of a thread, and the members of a document, come one after the other.
ASSUME ProgramsAssumption ==
  \A p \in Programs : \A t \in Threads :
    /\ p[t] \in Seq(Range(p[t]))
    /\ \A i \in DOMAIN p[t] : p[t][i].op = "LoadFromYaml" =>
         LET members == Members(<<>>, p[t][i].root) IN members \in Seq(Range(members))

VARIABLES
  program, called,   \* the calls of a thread, and how many it has made
  at,                \* where it stands inside a call
  handle,            \* the pointers its calls of Lookup gave it, by name
  threw,             \* its last call ended with an exception
  s_datas,           \* GetDatas(): the variable that has a name
  cvars,             \* all variables there have been
  told,              \* what a listener was last told, or knew when it was added
  mixed,             \* variables of which a change met another call
  retyped            \* names that were looked up with a second type

threads == <<program, called, at, handle, threw>>
configVars == <<threads, s_datas, cvars, told, mixed, retyped>>

NULL == 0
Idle == [pc |-> "idle"]

\* A conversion gives a value, a bad_lexical_cast, or another exception.
Value(v) == [is |-> "value", val |-> v]
BAD == [is |-> "bad_lexical_cast"]
THROWN == [is |-> "exception"]
Converts(result) == result \notin {BAD, THROWN}

-----------------------------------------------------------------------------
(* LexicalCast<std::string, T>.  A type is int, std::string, LogDefine, or  *)
(* a container of another type.                                             *)

Type(is) == [is |-> is]
Of(container, type) == [is |-> container, of |-> type]

\* Elements of a std::set that count as the same one: a LogDefine is ordered by
\* its name.
SameKey(type, x, y) == IF type.is = "LogDefine" THEN x.name = y.name ELSE x = y

\* What the results of its elements make of a container: the first that is no
\* value decides; a set and a map keep the first of equal keys.
Container(type, keys, results) ==
  LET bad == SelectInSeq(results, LAMBDA r : r.is # "value")
      vals == [i \in DOMAIN results |-> results[i].val]
      fresh == {i \in DOMAIN vals : \A j \in 1..i - 1 : ~SameKey(type.of, vals[i], vals[j])}
  IN  IF bad > 0 THEN results[bad]
      ELSE CASE type.is = "vector" -> Value(vals)
             [] type.is = "set" -> Value({vals[i] : i \in fresh})
             [] type.is = "map" -> Value([k \in Range(keys) |-> vals[SelectInSeq(keys, LAMBDA x : x = k)]])

-----------------------------------------------------------------------------
(* Calls.                                                                   *)

\* The static variables of the program are there before its threads.
ConfigInit ==
  /\ program \in Programs /\ called = [t \in Threads |-> 0]
  /\ at = [t \in Threads |-> Idle] /\ handle = [t \in Threads |-> <<>>]
  /\ threw = [t \in Threads |-> FALSE]
  /\ s_datas = [name \in {v.name : v \in Range(Statics)} |-> CHOOSE i \in DOMAIN Statics : Statics[i].name = name]
  /\ cvars = [i \in DOMAIN Statics |-> [type |-> Statics[i].type, m_val |-> Statics[i].val, m_cbs |-> Statics[i].cbs]]
  /\ told = [i \in DOMAIN Statics |-> [cb \in Range(Statics[i].cbs) |-> Statics[i].val]]
  /\ mixed = {} /\ retyped = {}

Args(t) == program[t][called[t] + 1]

Call(t, op) ==
  /\ at[t] = Idle /\ called[t] < Len(program[t]) /\ Args(t).op = op
  /\ called' = [called EXCEPT ![t] = @ + 1]

\* A call that does not concern the configuration.
ConfigCalls == {"Lookup", "Find", "addListener", "delListener", "clearListener", "setValue", "LoadFromYaml"}
Elsewhere(t) ==
  /\ Call(t, Args(t).op) /\ Args(t).op \notin ConfigCalls
  /\ threw' = [threw EXCEPT ![t] = FALSE]
  /\ UNCHANGED <<program, at, handle, s_datas, cvars, told, mixed, retyped>>

\* The variable a thread's next call is made on.
This(t) == IF Args(t).name \in DOMAIN handle[t] THEN handle[t][Args(t).name] ELSE NULL

Set1(f, x, y) == [z \in DOMAIN f \cup {x} |-> IF z = x THEN y ELSE f[z]]

\* The threads that hold the read lock of a variable, in setValue; and those
\* whose change of it is not over.
Readers(v) == {t \in Threads : at[t].pc = "notify" /\ at[t].var = v}
Changing(v) == {t \in Threads : at[t].pc \in {"notify", "assign"} /\ at[t].var = v}

\* Mutant: a new variable, whether the name has one or not.
LookupAnew(t) ==
  /\ Call(t, "Lookup")
  /\ Range(Args(t).name) \cap Invalid = {}
  /\ cvars' = Append(cvars, [type |-> Args(t).type, m_val |-> Args(t).val, m_cbs |-> <<>>])
  /\ told' = Append(told, <<>>)
  /\ s_datas' = Set1(s_datas, Args(t).name, Len(cvars'))
  /\ handle' = [handle EXCEPT ![t] = Set1(@, Args(t).name, Len(cvars'))]
  /\ threw' = [threw EXCEPT ![t] = FALSE]
  /\ UNCHANGED <<program, at, mixed, retyped>>

\* Config::Lookup(name, default): the variable, if it has the type; a new one in
\* its place if it has not; an exception for a name that is not allowed.
Lookup(t) ==
  /\ Call(t, "Lookup")
  /\ LET c == Args(t)
         known == c.name \in DOMAIN s_datas
     IN  IF known /\ cvars[s_datas[c.name]].type = c.type
           THEN /\ handle' = [handle EXCEPT ![t] = Set1(@, c.name, s_datas[c.name])]
                /\ threw' = [threw EXCEPT ![t] = FALSE]
                /\ UNCHANGED <<s_datas, cvars, told, retyped>>
         ELSE IF Range(c.name) \cap Invalid # {}
           THEN threw' = [threw EXCEPT ![t] = TRUE] /\ UNCHANGED <<handle, s_datas, cvars, told, retyped>>
         ELSE /\ cvars' = Append(cvars, [type |-> c.type, m_val |-> c.val, m_cbs |-> <<>>])
              /\ told' = Append(told, <<>>)
              /\ s_datas' = Set1(s_datas, c.name, Len(cvars'))
              /\ handle' = [handle EXCEPT ![t] = Set1(@, c.name, Len(cvars'))]
              /\ threw' = [threw EXCEPT ![t] = FALSE]
              /\ retyped' = IF known THEN retyped \cup {c.name} ELSE retyped
  /\ UNCHANGED <<program, at, mixed>>

\* Config::Lookup(name): the variable, or a null pointer.
Find(t) ==
  /\ Call(t, "Find")
  /\ LET c == Args(t)
         found == c.name \in DOMAIN s_datas /\ cvars[s_datas[c.name]].type = c.type
     IN  handle' = [handle EXCEPT ![t] = Set1(@, c.name, IF found THEN s_datas[c.name] ELSE NULL)]
  /\ threw' = [threw EXCEPT ![t] = FALSE]
  /\ UNCHANGED <<program, at, s_datas, cvars, told, mixed, retyped>>

\* A call on the variable itself (a null pointer makes none), under its write
\* lock.
Locked(t, op) ==
  /\ Call(t, op) /\ This(t) # NULL /\ Readers(This(t)) = {}
  /\ mixed' = IF Changing(This(t)) # {} THEN mixed \cup {This(t)} ELSE mixed
  /\ threw' = [threw EXCEPT ![t] = FALSE]
  /\ UNCHANGED <<program, at, handle, s_datas, retyped>>

\* addListener: the listeners are called in the order of their keys.
AddListener(t) ==
  /\ Locked(t, "addListener")
  /\ cvars' = [cvars EXCEPT ![This(t)].m_cbs = Append(@, Args(t).cb)]
  /\ told' = [told EXCEPT ![This(t)] = Set1(@, Args(t).cb, cvars[This(t)].m_val)]

\* delListener: a key is of one call of addListener.
DelListener(t) ==
  /\ Locked(t, "delListener")
  /\ cvars' = [cvars EXCEPT ![This(t)].m_cbs = RemoveFirst(@, Args(t).cb)]
  /\ UNCHANGED told

ClearListener(t) ==
  /\ Locked(t, "clearListener")
  /\ cvars' = [cvars EXCEPT ![This(t)].m_cbs = <<>>]
  /\ UNCHANGED told

-----------------------------------------------------------------------------
(* setValue, in three parts.  `rest` are the nodes LoadFromYaml has left.   *)

Rest(rest) == IF rest = <<>> THEN Idle ELSE [pc |-> "load", rest |-> rest]

\* Under the read lock: nothing, if the value is the same.
Compare(t, v, val, rest) ==
  /\ at' = [at EXCEPT ![t] =
              IF cvars[v].m_val = val THEN Rest(rest)
              ELSE [pc |-> "notify", var |-> v, val |-> val, todo |-> cvars[v].m_cbs, rest |-> rest]]
  /\ mixed' = IF Changing(v) # {} THEN mixed \cup {v} ELSE mixed

SetValue(t) ==
  /\ Call(t, "setValue") /\ This(t) # NULL
  /\ Compare(t, This(t), Args(t).val, <<>>)
  /\ threw' = [threw EXCEPT ![t] = FALSE]
  /\ UNCHANGED <<program, handle, s_datas, cvars, told, retyped>>

\* Mutant: the loop over the listeners ends with the first.
NotifyFirst(t) ==
  /\ at[t].pc = "notify" /\ at[t].todo # <<>>
  /\ told' = [told EXCEPT ![at[t].var][at[t].todo[1]] = at[t].val]
  /\ at' = [at EXCEPT ![t].todo = <<>>]
  /\ UNCHANGED <<program, called, handle, threw, s_datas, cvars, mixed, retyped>>

\* One listener after the other, still under the read lock.
Notify(t) ==
  /\ at[t].pc = "notify" /\ at[t].todo # <<>>
  /\ told' = [told EXCEPT ![at[t].var][at[t].todo[1]] = at[t].val]
  /\ at' = [at EXCEPT ![t].todo = Tail(@)]
  /\ UNCHANGED <<program, called, handle, threw, s_datas, cvars, mixed, retyped>>

\* The read lock is given up ...
Unlock(t) ==
  /\ at[t].pc = "notify" /\ at[t].todo = <<>>
  /\ at' = [at EXCEPT ![t].pc = "assign"]
  /\ UNCHANGED <<program, called, handle, threw, s_datas, cvars, told, mixed, retyped>>

\* ... and the value assigned under the write lock.
Assign(t) ==
  /\ at[t].pc = "assign" /\ Readers(at[t].var) = {}
  /\ cvars' = [cvars EXCEPT ![at[t].var].m_val = at[t].val]
  /\ at' = [at EXCEPT ![t] = Rest(at[t].rest)]
  /\ UNCHANGED <<program, called, handle, threw, s_datas, told, mixed, retyped>>

-----------------------------------------------------------------------------
(* LoadFromYaml.                                                            *)

LoadFromYaml(t) ==
  /\ Call(t, "LoadFromYaml")
  /\ at' = [at EXCEPT ![t] = Rest(Members(<<>>, Args(t).root))]
  /\ threw' = [threw EXCEPT ![t] = FALSE]
  /\ UNCHANGED <<program, handle, s_datas, cvars, told, mixed, retyped>>

\* Mutant: a value that does not convert ends the load.
LoadNextStops(t) ==
  /\ at[t].pc = "load"
  /\ LET next == at[t].rest[1]
         rest == Tail(at[t].rest)
     IN  IF next.name = <<>> \/ next.name \notin DOMAIN s_datas
           THEN at' = [at EXCEPT ![t] = Rest(rest)] /\ UNCHANGED mixed
         ELSE LET v == s_datas[next.name]
                  cast == Cast(cvars[v].type, next.node)
              IN  IF cast.is = "value" THEN Compare(t, v, cast.val, rest)
                  ELSE at' = [at EXCEPT ![t] = Idle] /\ UNCHANGED mixed
  /\ UNCHANGED <<program, called, handle, threw, s_datas, cvars, told, retyped>>

\* The next node: LookupBase, and fromString, which swallows a bad_lexical_cast
\* and lets every other exception out, of LoadFromYaml too.
LoadNext(t) ==
  /\ at[t].pc = "load"
  /\ LET next == at[t].rest[1]
         rest == Tail(at[t].rest)
     IN  IF next.name = <<>> \/ next.name \notin DOMAIN s_datas
           THEN at' = [at EXCEPT ![t] = Rest(rest)] /\ UNCHANGED <<threw, mixed>>
         ELSE LET v == s_datas[next.name]
                  cast == Cast(cvars[v].type, next.node)
              IN  CASE cast = BAD -> at' = [at EXCEPT ![t] = Rest(rest)] /\ UNCHANGED <<threw, mixed>>
                    [] cast = THROWN -> at' = [at EXCEPT ![t] = Idle] /\ threw' = [threw EXCEPT ![t] = TRUE] /\ UNCHANGED mixed
                    [] OTHER -> Compare(t, v, cast.val, rest) /\ UNCHANGED threw
  /\ UNCHANGED <<program, called, handle, s_datas, cvars, told, retyped>>

-----------------------------------------------------------------------------
\* The steps that no listener takes part in.
ConfigStep(t) ==
  \/ Lookup(t) \/ Find(t) \/ AddListener(t) \/ DelListener(t) \/ ClearListener(t)
  \/ SetValue(t) \/ Unlock(t) \/ Assign(t) \/ LoadFromYaml(t) \/ LoadNext(t)

Finished == \A t \in Threads : at[t] = Idle /\ called[t] = Len(program[t])

\* The configuration alone: listeners keep to themselves what they do.
ConfigNext == \E t \in Threads : ConfigStep(t) \/ Notify(t) \/ Elsewhere(t)

ConfigSpec == ConfigInit /\ [][ConfigNext]_configVars

-----------------------------------------------------------------------------
\* Once a change is over, every listener of the variable has been told the value
\* it has now, whoever made the change - as long as the change met no other one
\* and no call that adds a listener (setValue notifies under one lock and assigns
\* under another).
ListenersFollow ==
  \A v \in DOMAIN cvars :
    v \notin mixed /\ Changing(v) = {} =>
      \A cb \in Range(cvars[v].m_cbs) : told[v][cb] = cvars[v].m_val

\* The pointer a thread keeps to a variable is the variable that LoadFromYaml
\* will change, for all threads the same, until somebody looks the name up with
\* another type.
HandlesAgree ==
  \A t \in Threads : \A name \in DOMAIN handle[t] :
    handle[t][name] # NULL /\ name \notin retyped => handle[t][name] = s_datas[name]

\* The call a thread has just ended, nobody else having made any.
JustEnded(t, op) ==
  /\ at[t] = Idle /\ called[t] > 0 /\ program[t][called[t]].op = op
  /\ \A u \in Threads \ {t} : called[u] = 0

\* The members of a document, by position: whether a variable has the name, what
\* the text gives, and whether no later member gives the variable a value.
Known(members, i) == members[i].name # <<>> /\ members[i].name \in DOMAIN s_datas
Given(members, i) == Cast(cvars[s_datas[members[i].name]].type, members[i].node)
Final(members, i) ==
  ~\E j \in DOMAIN members :
     j > i /\ Known(members, j) /\ members[j].name = members[i].name /\ Converts(Given(members, j))

\* LoadFromYaml gives every variable that the document names the value it says,
\* the last one that can be converted if it names the variable twice; it stops in
\* the middle of the document only for an exception that is no bad_lexical_cast.
LoadTakesEffect ==
  \A t \in Threads : JustEnded(t, "LoadFromYaml") =>
    LET members == Members(<<>>, program[t][called[t]].root) IN
    IF threw[t] THEN \E i \in DOMAIN members : Known(members, i) /\ Given(members, i) = THROWN
    ELSE \A i \in DOMAIN members :
           Known(members, i) /\ Converts(Given(members, i)) /\ Final(members, i) =>
             cvars[s_datas[members[i].name]].m_val = Given(members, i).val
=============================================================================
