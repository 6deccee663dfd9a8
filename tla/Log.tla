-------------------------------- MODULE Log --------------------------------
(* The loggers of log.cc, their formatters and appenders, and how the       *)
(* variable "logs" of Config.tla configures them through its listener.  A   *)
(* logger is shared by all threads and known by its name.                   *)
EXTENDS Config

CONSTANTS
  alpha,      \* the letters of a pattern: those that name an item, and others
  Items       \* the keys of s_format_items

VARIABLES
  m_loggers,  \* LoggerManager: a logger's level, formatter and appenders
  touched     \* the loggers that a caller changed by itself

vars == <<configVars, m_loggers, touched>>

UNKNOWM == 0
DEBUG == 1
ROOT == "root"
LOGS == <<"logs">>

-----------------------------------------------------------------------------
(* LogFormatter.  A pattern is a sequence of characters; an item is a text  *)
(* to copy, or the key and the argument of something to print.              *)

Copy(text) == [type |-> 0, str |-> text, fmt |-> <<>>]
Shown(str, fmt) == [type |-> 1, str |-> str, fmt |-> fmt]

\* A character to copy, before the items of what follows it.
Copied(c, rest) ==
  LET items == rest.items IN
  [rest EXCEPT !.items = IF items # <<>> /\ items[1].type = 0
                           THEN [items EXCEPT ![1].str = <<c>> \o @] ELSE <<Copy(<<c>>)>> \o items]

\* init(): the items, those from position i on being From[i]; a "{" that is not
\* closed is an error, and what follows its "%" is copied.
Parsed(pattern) ==
  LET n == Len(pattern)
      Stop(i) == Min({k \in i + 1..n + 1 : k > n \/ pattern[k] \notin alpha \cup {"}"}})
      Close(i) == {k \in Stop(i) + 1..n : pattern[k] = "}"}
      From[i \in 1..n + 1] ==
        LET arg == Stop(i) <= n /\ pattern[Stop(i)] = "{"
            fmt == IF arg THEN SubSeq(pattern, Stop(i) + 1, Min(Close(i)) - 1) ELSE <<>>
            next == IF arg THEN Min(Close(i)) + 1 ELSE Stop(i)
        IN  IF i > n THEN [items |-> <<>>, open |-> FALSE]
            ELSE IF pattern[i] # "%" THEN Copied(pattern[i], From[i + 1])
            ELSE IF i < n /\ pattern[i + 1] = "%" THEN Copied("%", From[i + 1])
            ELSE IF arg /\ Close(i) = {} THEN [From[i + 1] EXCEPT !.open = TRUE]
            ELSE [From[next] EXCEPT !.items = <<Shown(SubSeq(pattern, i + 1, Stop(i) - 1), fmt)>> \o @]
  IN  From[1]

\* Mutant: an unclosed brace is no error.
LogFormatterLax(pattern) ==
  LET parsed == Parsed(pattern)
      unknown == {i \in DOMAIN parsed.items : parsed.items[i].type = 1
                    /\ ~\E key \in Items : parsed.items[i].str = <<key>>}
  IN  [pattern |-> pattern, items |-> parsed.items, m_error |-> unknown # {}]

\* A formatter with an unclosed brace or a key it does not know has m_error.
LogFormatter(pattern) ==
  LET parsed == Parsed(pattern)
      unknown == {i \in DOMAIN parsed.items : parsed.items[i].type = 1
                    /\ ~\E key \in Items : parsed.items[i].str = <<key>>}
  IN  [pattern |-> pattern, items |-> parsed.items, m_error |-> parsed.open \/ unknown # {}]

-----------------------------------------------------------------------------
(* Logger.                                                                  *)

NoFormatter == [pattern |-> <<>>, items |-> <<>>, m_error |-> TRUE]
DefaultFormatter == LogFormatter(<<"%", "m", "%", "n">>)
NewLogger == [m_level |-> DEBUG, m_formatter |-> DefaultFormatter, m_appenders |-> <<>>]

\* addLogAppender: an appender without a formatter gets the logger's.
Formatted(logger, a) ==
  IF a.m_formatter = NoFormatter THEN [a EXCEPT !.m_formatter = logger.m_formatter] ELSE a
WithAppender(logger, a) == [logger EXCEPT !.m_appenders = Append(@, Formatted(logger, a))]

\* setFormatter(std::string): one with an error is refused.  m_hasFormatter is
\* never set, so every appender gets the new one.
WithFormatter(logger, pattern) ==
  LET new == LogFormatter(pattern) IN
  IF new.m_error THEN logger
  ELSE [logger EXCEPT !.m_formatter = new,
                      !.m_appenders = [i \in DOMAIN @ |-> [@[i] EXCEPT !.m_formatter = new]]]

\* LoggerManager::getLogger.
getLogger(loggers, name) == IF name \in DOMAIN loggers THEN loggers[name] ELSE NewLogger

-----------------------------------------------------------------------------
(* The configuration of loggers.                                            *)

LevelNames == ("debug" :> 1) @@ ("info" :> 2) @@ ("warn" :> 3) @@ ("error" :> 4) @@ ("fatal" :> 5)
FromString(text) == IF text \in DOMAIN LevelNames THEN LevelNames[text] ELSE UNKNOWM

\* LexicalCast<std::string, LogDefine>: a logger is a map and must have a name; an
\* appender of no known type, or a file appender without a file, is left out.  The level of an
\* appender is not read: the member keeps what the memory held (`junk`).
LogDefine(node) ==
  IF node.kind # "map" \/ node.name = "" THEN THROWN
  ELSE LET known == SelectSeq(node.appenders, LAMBDA a :
                      a.type = "StdoutLogAppender" \/ (a.type = "FileLogAppender" /\ a.file # ""))
       IN  Value([name |-> node.name, level |-> FromString(node.level), formatter |-> node.formatter,
                  appenders |-> [i \in DOMAIN known |->
                    [type |-> known[i].type, level |-> known[i].junk, formatter |-> known[i].formatter,
                     file |-> IF known[i].type = "FileLogAppender" THEN known[i].file ELSE ""]]])

\* The appender a definition asks for; its own formatter only if that is valid.
Appender(a) ==
  [type |-> a.type, file |-> a.file, m_level |-> a.level,
   m_formatter |-> IF a.formatter # <<>> /\ ~LogFormatter(a.formatter).m_error
                     THEN LogFormatter(a.formatter) ELSE NoFormatter]

\* Mutant: the old appenders are not cleared.
DefinedOnTop(logger, d) ==
  LET base == IF d.formatter = <<>> THEN logger ELSE WithFormatter(logger, d.formatter)
  IN  [base EXCEPT !.m_level = d.level,
                   !.m_appenders = @ \o [i \in DOMAIN d.appenders |-> Formatted(base, Appender(d.appenders[i]))]]

\* A logger that is new or whose definition has changed: clearAppenders, and
\* addLogAppender for each that the definition lists.
Defined(logger, d) ==
  LET base == IF d.formatter = <<>> THEN logger ELSE WithFormatter(logger, d.formatter)
  IN  [base EXCEPT !.m_level = d.level,
                   !.m_appenders = [i \in DOMAIN d.appenders |-> Formatted(base, Appender(d.appenders[i]))]]

\* LogIniter's listener: what the change from `old` to `new` does.
LogIniter(loggers, old, new) ==
  LET names == {d.name : d \in new \ old}
      gone == {d.name : d \in old} \ {d.name : d \in new}
  IN  [name \in DOMAIN loggers \cup names \cup gone |->
         IF name \in names THEN Defined(getLogger(loggers, name), CHOOSE d \in new : d.name = name)
         ELSE IF name \in gone THEN [getLogger(loggers, name) EXCEPT !.m_level = UNKNOWM, !.m_appenders = <<>>]
         ELSE loggers[name]]

-----------------------------------------------------------------------------
(* Threads that use loggers, and the composition with Config.               *)

OnLogger(t, op) == Elsewhere(t) /\ Args(t).op = op

Touch(t, logger) ==
  /\ m_loggers' = Set1(m_loggers, Args(t).logger, logger)
  /\ touched' = touched \cup {Args(t).logger}

Target(t) == getLogger(m_loggers, Args(t).logger)

SetFormatter(t) == OnLogger(t, "setFormatter") /\ Touch(t, WithFormatter(Target(t), Args(t).pattern))

SetLevel(t) == OnLogger(t, "setLevel") /\ Touch(t, [Target(t) EXCEPT !.m_level = Args(t).level])

AddLogAppender(t) == OnLogger(t, "addLogAppender") /\ Touch(t, WithAppender(Target(t), Args(t).appender))

\* delLogAppender, of the first that was added.
DelLogAppender(t) ==
  /\ OnLogger(t, "delLogAppender")
  /\ Touch(t, [Target(t) EXCEPT !.m_appenders = IF @ = <<>> THEN @ ELSE Tail(@)])

\* A listener is told: the one of "logs" changes the loggers on the way.
Tell(t) ==
  /\ Notify(t)
  /\ m_loggers' = IF at[t].var = 1 /\ at[t].todo[1] = "LogIniter"
                    THEN LogIniter(m_loggers, cvars[at[t].var].m_val, at[t].val) ELSE m_loggers
  /\ UNCHANGED touched

\* g_log_defines, with the listener of __log_init, is the first static variable.
LogsType == Of("set", Type("LogDefine"))
LogStatics == <<[name |-> LOGS, type |-> LogsType, val |-> {}, cbs |-> <<"LogIniter">>]>>

\* A std::set<LogDefine> has one definition of a name, the callers' and what a
\* document is converted to; nobody has the key of __log_init's listener, and
\* nobody clears the listeners of "logs".
OneEach(val) == \A d, e \in val : d.name = e.name => d = e

LogsCall(c) ==
  /\ c.op = "setValue" /\ c.name = LOGS => OneEach(c.val)
  /\ c.op = "delListener" /\ c.name = LOGS => c.cb # "LogIniter"
  /\ c.op = "clearListener" => c.name # LOGS
  /\ c.op = "LoadFromYaml" => \A e \in Range(Members(<<>>, c.root)) :
       e.name = LOGS /\ Converts(Cast(LogsType, e.node)) => OneEach(Cast(LogsType, e.node).val)

ASSUME LogAssumption ==
  /\ Items \subseteq alpha
  /\ Statics # <<>> /\ Statics[1] = LogStatics[1]
  /\ \A p \in Programs : \A t \in Threads : \A i \in DOMAIN p[t] : LogsCall(p[t][i])

Init ==
  /\ ConfigInit
  /\ m_loggers = [name \in {ROOT} |-> WithAppender(NewLogger,
        [type |-> "StdoutLogAppender", file |-> "", m_level |-> DEBUG, m_formatter |-> NoFormatter])]
  /\ touched = {}

Done == Finished /\ UNCHANGED vars

Next ==
  \/ \E t \in Threads :
       \/ ConfigStep(t) /\ UNCHANGED <<m_loggers, touched>>
       \/ Tell(t)
       \/ SetFormatter(t) \/ SetLevel(t) \/ AddLogAppender(t) \/ DelLogAppender(t)
  \/ Done

Spec == Init /\ [][Next]_vars

-----------------------------------------------------------------------------
\* After any sequence of loads a logger is what its definition in "logs" says: its
\* level, a formatter if a valid one is given, and exactly the appenders listed,
\* each with its own formatter or the logger's; one that is defined no more has
\* neither level nor appenders.  (Loggers nobody changes directly.)
AsDefined(logger, d) ==
  /\ logger.m_level = d.level
  /\ d.formatter # <<>> /\ ~LogFormatter(d.formatter).m_error => logger.m_formatter = LogFormatter(d.formatter)
  /\ DOMAIN logger.m_appenders = DOMAIN d.appenders
  /\ \A i \in DOMAIN d.appenders :
       LET a == logger.m_appenders[i]
           own == Appender(d.appenders[i]).m_formatter
       IN  /\ a.type = d.appenders[i].type /\ a.file = d.appenders[i].file
           /\ a.m_formatter = IF own = NoFormatter THEN logger.m_formatter ELSE own

LoggersAgree ==
  1 \notin mixed /\ Changing(1) = {} =>
    /\ \A d \in cvars[1].m_val : d.name \notin touched => AsDefined(m_loggers[d.name], d)
    /\ \A name \in DOMAIN m_loggers \ (touched \cup {d.name : d \in cvars[1].m_val} \cup {ROOT}) :
         m_loggers[name].m_level = UNKNOWM /\ m_loggers[name].m_appenders = <<>>

\* What an author can write: texts and items.  An item ends before a character that
\* is neither a letter nor a brace.  "%%", which the comment of init() lists as an
\* escape (log.cc:398), is none: a percent sign is copied only in front of the "%" of
\* an item (or of another such sign), so "%%m" is a percent sign and the message,
\* and "%%" in front of a text or at the end cannot be written.
WellFormed(tokens) ==
  \A i \in DOMAIN tokens :
    LET next == IF i = Len(tokens) THEN "end"
                ELSE IF tokens[i + 1].type = 1 THEN "%" ELSE tokens[i + 1].str[1]
    IN  IF tokens[i].type = 0 THEN tokens[i].str = <<"%">> => next = "%"
        ELSE /\ \E key \in Items : tokens[i].str = <<key>>
             /\ tokens[i].braces # "open"
             /\ tokens[i].braces = "none" => next \notin alpha \cup {"{", "}"}

Meaning(tokens) ==
  LET Add(items, tok) ==
        LET n == Len(items) IN
        IF tok.type = 1 THEN Append(items, Shown(tok.str, tok.fmt))
        ELSE IF n > 0 /\ items[n].type = 0 THEN [items EXCEPT ![n].str = @ \o tok.str]
        ELSE Append(items, Copy(tok.str))
  IN  FoldLeft(Add, <<>>, tokens)

\* A pattern that is well formed in this sense is taken for what its author wrote,
\* item for item, by the logger and its appenders; any other - an item nobody knows,
\* a brace left open, "%%" as an escape - is refused.
PatternsAsWritten ==
  \A t \in Threads : JustEnded(t, "setFormatter") =>
    LET c == program[t][called[t]]
        logger == m_loggers[c.logger]
    IN  IF WellFormed(c.tokens)
          THEN \A f \in {logger.m_formatter} \cup {a.m_formatter : a \in Range(logger.m_appenders)} :
                 f.items = Meaning(c.tokens)
        ELSE logger.m_formatter.pattern # c.pattern
=============================================================================
