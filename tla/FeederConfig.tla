---------------------------- MODULE FeederConfig ----------------------------
(***************************************************************************)
(* How the feeder finds out which sessions to run and where they connect:  *)
(* Config::load (config.rs) reads symbol_config.ini and endpoint.ini line  *)
(* by line, ConnectionManager::run spawns a task per session, and each     *)
(* task chooses its URL (connection_manager.rs).                           *)
(*                                                                         *)
(* A file is a sequence of lines and a line is what the parser tells it    *)
(* apart by: a comment or blank line, a [section] header, a session line   *)
(* with or without a port, a session line that does not parse (a port that *)
(* is no number, no symbol), a key=value setting.  Symbols, time limits    *)
(* and the text of URLs are left out.  A session remembers the number of   *)
(* its line, for the properties only.                                      *)
(***************************************************************************)
EXTENDS Integers, Sequences, FiniteSetsExt

CONSTANTS
  Exchanges,         \* the names that section headers may carry
  Ports,             \* the ports that session lines and config.ini may name
  BinanceNames,      \* the names with a default URL of their own
  Disks              \* where the files may be: a set of sets of records
                     \* [ini, symbols, endpoints : sequences of places]

\* The port of config.ini, and of a session line, where none is given.
DefaultPort == 55555

NoExchange == "none"

\* The section of the session that runs without symbol_config.ini.
BuiltIn == "binance"

IniKeys == {"port", "other"}

\* A value of config.ini that does not parse as a u16.
NotANumber == -1

EndpointKeys == {"ws_url_base", "timeout_ms", "enabled", "other"}

\* A value that parses as what its key needs, FALSE for `enabled`, or neither.
Values == {"good", "false", "bad"}

Comment     == [kind |-> "comment"]
Malformed   == [kind |-> "malformed"]
Section(n)  == [kind |-> "section", name |-> n]
Session(p)  == [kind |-> "session", port |-> p]
Portless    == [kind |-> "portless"]
Setting(k, v) == [kind |-> "setting", key |-> k, value |-> v]

SymbolLine ==
  {Comment, Malformed, Portless} \cup {Section(n) : n \in Exchanges}
    \cup {Session(p) : p \in Ports}

EndpointLine ==
  {Comment} \cup {Section(n) : n \in Exchanges}
    \cup {Setting(k, v) : k \in EndpointKeys, v \in Values}

IniLine ==
  {Comment} \cup {Section(n) : n \in Exchanges}
    \cup {Setting(k, v) : k \in IniKeys, v \in Ports \cup {NotANumber}}

\* What a directory holds under the name of the file.
Missing    == [state |-> "missing", lines |-> << >>]
Unreadable == [state |-> "unreadable", lines |-> << >>]
File(f)    == [state |-> "readable", lines |-> f]

Place(Line) ==
  {Missing, Unreadable} \cup [state : {"readable"}, lines : Seq(Line)]

Disk == [ini       : Seq(Place(IniLine)),
         symbols   : Seq(Place(SymbolLine)),
         endpoints : Seq(Place(EndpointLine))]

ASSUME ConfigAssumption ==
  /\ NoExchange \notin Exchanges
  /\ BinanceNames \subseteq Exchanges
  /\ Ports \subseteq Nat
  /\ DefaultPort \in Ports
  /\ \A D \in Disks : D \subseteq Disk

VARIABLES
  disk,              \* the files that the search for each name can meet
  stage,             \* what Config::load and run are doing
  pos,               \* the next line of the file that is being parsed
  udp_port,          \* UdpConfig.port
  current_exchange,  \* the open section, of either parser
  current_sessions,  \* SymbolConfig::parse: the sessions of the open section
  exchanges,         \* SymbolConfig.exchanges
  symbol_config,     \* whether Config.symbol_config is Some
  current_settings,  \* EndpointConfig::parse: the settings collected
  endpoints,         \* EndpointConfig.exchanges
  tasks              \* the spawned sessions and what they connect to

symbolVars == << current_sessions, exchanges, symbol_config >>
endpointVars == << current_settings, endpoints >>
vars == << disk, stage, pos, udp_port, current_exchange, current_sessions,
           exchanges, symbol_config, current_settings, endpoints, tasks >>

Stages == {"ini", "open_symbols", "symbols", "open_endpoints", "endpoints",
           "spawn", "running"}

SessionRecord == [port : Ports, line : Nat]

ExchangeEndpoint == [url : {"good", "bad"}, enabled : BOOLEAN]

Targets == {"endpoint", "default", "stand_in", "disabled", "invalid"}

Task == [exchange : Exchanges \cup {BuiltIn}, line : Nat, port : Ports,
         target : Targets]

TypeOK ==
  /\ disk \in Disk
  /\ stage \in Stages
  /\ pos \in Nat
  /\ udp_port \in Ports
  /\ current_exchange \in Exchanges \cup {NoExchange}
  /\ current_sessions \in Seq(SessionRecord)
  /\ DOMAIN exchanges \subseteq Exchanges
  /\ \A n \in DOMAIN exchanges : exchanges[n] \in Seq(SessionRecord)
  /\ symbol_config \in BOOLEAN
  /\ DOMAIN current_settings \subseteq EndpointKeys
  /\ \A k \in DOMAIN current_settings : current_settings[k] \in Values
  /\ DOMAIN endpoints \subseteq Exchanges
  /\ \A n \in DOMAIN endpoints : endpoints[n] \in ExchangeEndpoint
  /\ tasks \subseteq Task

Nothing == [x \in {} |-> x]

Init ==
  /\ \E D \in Disks : disk \in D
  /\ stage = "ini"
  /\ pos = 1
  /\ udp_port = DefaultPort
  /\ current_exchange = NoExchange
  /\ current_sessions = << >>
  /\ exchanges = Nothing
  /\ symbol_config = FALSE
  /\ current_settings = Nothing
  /\ endpoints = Nothing
  /\ tasks = {}

\* HashMap::insert.
Insert(map, key, value) ==
  [k \in DOMAIN map \cup {key} |-> IF k = key THEN value ELSE map[k]]

\* The first directory that has the file decides, even if the file cannot be
\* read there; without any the result is an error too.
read_config_file(places) ==
  LET found == {i \in DOMAIN places : places[i].state # "missing"}
  IN  IF found = {} THEN Missing ELSE places[Min(found)]

IniFile == read_config_file(disk.ini)
SymbolFile == read_config_file(disk.symbols)
EndpointFile == read_config_file(disk.endpoints)
-----------------------------------------------------------------------------
(***************************************************************************)
(* config.ini: the last value of a key counts, sections do not matter, and *)
(* a port that is no number counts as none.                                *)
(***************************************************************************)

PortLines(f) == {i \in DOMAIN f : f[i].kind = "setting" /\ f[i].key = "port"}

\* Variant with a fault: a port that is no number is taken nevertheless.
BadPortIsTaken(f) ==
  IF PortLines(f) = {} THEN DefaultPort ELSE f[Max(PortLines(f))].value

parse_ini(f) ==
  IF PortLines(f) = {} \/ f[Max(PortLines(f))].value = NotANumber
  THEN DefaultPort
  ELSE f[Max(PortLines(f))].value

LoadIni ==
  /\ stage = "ini"
  /\ udp_port' = parse_ini(IniFile.lines)
  /\ stage' = "open_symbols"
  /\ UNCHANGED << disk, pos, current_exchange, symbolVars, endpointVars, tasks >>
-----------------------------------------------------------------------------
(***************************************************************************)
(* SymbolConfig::load.  Its error is turned into None: no symbol_config.   *)
(***************************************************************************)

OpenSymbolConfig ==
  /\ stage = "open_symbols"
  /\ stage' = IF SymbolFile.state = "readable" THEN "symbols" ELSE "open_endpoints"
  /\ UNCHANGED << disk, pos, udp_port, current_exchange, symbolVars,
                  endpointVars, tasks >>

SymbolLineIs(kinds) ==
  /\ stage = "symbols"
  /\ pos <= Len(SymbolFile.lines)
  /\ SymbolFile.lines[pos].kind \in kinds

NextLine == pos' = pos + 1

\* The open section, if any, is stored; one of the same name is replaced.
SaveSection ==
  exchanges' = IF current_exchange = NoExchange THEN exchanges
               ELSE Insert(exchanges, current_exchange, current_sessions)

SymbolHeader ==
  /\ SymbolLineIs({"section"})
  /\ SaveSection
  /\ current_sessions' = IF current_exchange = NoExchange THEN current_sessions
                                                          ELSE << >>
  /\ current_exchange' = SymbolFile.lines[pos].name
  /\ NextLine
  /\ UNCHANGED << disk, stage, udp_port, symbol_config, endpointVars, tasks >>

\* Comments, and everything before the first header, malformed or not.
SymbolLineSkipped ==
  /\ \/ SymbolLineIs({"comment"})
     \/ /\ SymbolLineIs({"session", "portless", "malformed"})
        /\ current_exchange = NoExchange
  /\ NextLine
  /\ UNCHANGED << disk, stage, udp_port, current_exchange, symbolVars,
                  endpointVars, tasks >>

\* parse_symbol_line: a line without a port gets 55555, whatever config.ini says.
parse_symbol_line(line) == IF line.kind = "portless" THEN DefaultPort ELSE line.port

SessionLine ==
  /\ SymbolLineIs({"session", "portless"})
  /\ current_exchange # NoExchange
  /\ current_sessions' = Append(current_sessions,
       [port |-> parse_symbol_line(SymbolFile.lines[pos]), line |-> pos])
  /\ NextLine
  /\ UNCHANGED << disk, stage, udp_port, current_exchange, exchanges,
                  symbol_config, endpointVars, tasks >>

\* Variant with a fault: a line that does not parse is skipped.
SkipMalformed ==
  /\ SymbolLineIs({"malformed"})
  /\ current_exchange # NoExchange
  /\ NextLine
  /\ UNCHANGED << disk, stage, udp_port, current_exchange, symbolVars,
                  endpointVars, tasks >>

\* One line of a section that does not parse: the whole file is given up.
MalformedLine ==
  /\ SymbolLineIs({"malformed"})
  /\ current_exchange # NoExchange
  /\ current_exchange' = NoExchange
  /\ current_sessions' = << >>
  /\ exchanges' = Nothing
  /\ pos' = 1
  /\ stage' = "open_endpoints"
  /\ UNCHANGED << disk, udp_port, symbol_config, endpointVars, tasks >>

EndOfSymbols ==
  /\ stage = "symbols"
  /\ pos > Len(SymbolFile.lines)
  /\ SaveSection
  /\ current_exchange' = NoExchange
  /\ current_sessions' = << >>
  /\ symbol_config' = TRUE
  /\ pos' = 1
  /\ stage' = "open_endpoints"
  /\ UNCHANGED << disk, udp_port, endpointVars, tasks >>
-----------------------------------------------------------------------------
(***************************************************************************)
(* EndpointConfig::load.  It never fails on a line.                        *)
(***************************************************************************)

OpenEndpointConfig ==
  /\ stage = "open_endpoints"
  /\ stage' = IF EndpointFile.state = "readable" THEN "endpoints" ELSE "spawn"
  /\ UNCHANGED << disk, pos, udp_port, current_exchange, symbolVars,
                  endpointVars, tasks >>

EndpointLineIs(kind) ==
  /\ stage = "endpoints"
  /\ pos <= Len(EndpointFile.lines)
  /\ EndpointFile.lines[pos].kind = kind

\* parse_exchange_settings: a section without URL or time limit yields nothing,
\* one without a readable `enabled` is disabled.
Complete(settings) == {"ws_url_base", "timeout_ms"} \subseteq DOMAIN settings

parse_exchange_settings(settings) ==
  [url     |-> IF settings["ws_url_base"] = "bad" THEN "bad" ELSE "good",
   enabled |-> "enabled" \in DOMAIN settings /\ settings["enabled"] = "good"]

SaveEndpoint ==
  endpoints' = IF current_exchange # NoExchange /\ Complete(current_settings)
               THEN Insert(endpoints, current_exchange,
                           parse_exchange_settings(current_settings))
               ELSE endpoints

\* Variant with a fault: the settings are not cleared.
KeepSettings == current_settings

\* The settings are cleared only if a section was open: those above the first
\* header count for the first section.
SettingsAfterHeader ==
  IF current_exchange = NoExchange THEN current_settings ELSE Nothing

EndpointHeader ==
  /\ EndpointLineIs("section")
  /\ SaveEndpoint
  /\ current_settings' = SettingsAfterHeader
  /\ current_exchange' = EndpointFile.lines[pos].name
  /\ NextLine
  /\ UNCHANGED << disk, stage, udp_port, symbolVars, tasks >>

EndpointComment ==
  /\ EndpointLineIs("comment")
  /\ NextLine
  /\ UNCHANGED << disk, stage, udp_port, current_exchange, symbolVars,
                  endpointVars, tasks >>

EndpointSetting ==
  /\ EndpointLineIs("setting")
  /\ current_settings' = Insert(current_settings, EndpointFile.lines[pos].key,
                                EndpointFile.lines[pos].value)
  /\ NextLine
  /\ UNCHANGED << disk, stage, udp_port, current_exchange, symbolVars,
                  endpoints, tasks >>

EndOfEndpoints ==
  /\ stage = "endpoints"
  /\ pos > Len(EndpointFile.lines)
  /\ SaveEndpoint
  /\ current_exchange' = NoExchange
  /\ stage' = "spawn"
  /\ UNCHANGED << disk, pos, udp_port, symbolVars, current_settings, tasks >>
-----------------------------------------------------------------------------
(***************************************************************************)
(* ConnectionManager::run and connect_to_symbol_session.                   *)
(***************************************************************************)

\* Without an endpoint of its own a session of an exchange without a default
\* URL connects to a fixed Binance stream.
build_default_websocket_url(n) == IF n \in BinanceNames THEN "default" ELSE "stand_in"

\* For every exchange the URL is ws_url_base, with or without stream names behind
\* it: it parses if the base does.
build_websocket_url_from_endpoint(e) == IF e.url = "bad" THEN "invalid" ELSE "endpoint"

connect_target(n) ==
  CASE n \notin DOMAIN endpoints  -> build_default_websocket_url(n)
    [] n \in DOMAIN endpoints /\ ~endpoints[n].enabled -> "disabled"
    [] OTHER -> build_websocket_url_from_endpoint(endpoints[n])

\* With symbol_config.ini one task per session of every section; without it the
\* single session of the built-in exchange, on the port of config.ini.
Run ==
  /\ stage = "spawn"
  /\ tasks' = IF symbol_config
              THEN UNION {{[exchange |-> n, line |-> exchanges[n][i].line,
                            port |-> exchanges[n][i].port,
                            target |-> connect_target(n)] :
                             i \in DOMAIN exchanges[n]} : n \in DOMAIN exchanges}
              ELSE {[exchange |-> BuiltIn, line |-> 0, port |-> udp_port,
                     target |-> "default"]}
  /\ stage' = "running"
  /\ UNCHANGED << disk, pos, udp_port, current_exchange, symbolVars, endpointVars >>

Next ==
  \/ LoadIni
  \/ OpenSymbolConfig \/ SymbolHeader \/ SymbolLineSkipped \/ SessionLine
  \/ MalformedLine \/ EndOfSymbols
  \/ OpenEndpointConfig \/ EndpointHeader \/ EndpointComment \/ EndpointSetting
  \/ EndOfEndpoints
  \/ Run

Spec == Init /\ [][Next]_vars
-----------------------------------------------------------------------------
(***************************************************************************)
(* What the files say, read as a whole.                                    *)
(***************************************************************************)

Headers(f) == {i \in DOMAIN f : f[i].kind = "section"}

HeadersOf(f, n) == {h \in Headers(f) : f[h].name = n}

\* The lines that belong to the header at h.
Body(f, h) == {i \in h + 1 .. Len(f) : \A g \in Headers(f) : g <= h \/ g > i}

\* A line that does not parse spoils the file only inside a section.
Spoilt(f) ==
  \E i \in DOMAIN f : f[i].kind = "malformed" /\ \E h \in Headers(f) : h < i

\* The session lines of exchange n: those below its last header.
SessionLines(f, n) ==
  {i \in Body(f, Max(HeadersOf(f, n))) : f[i].kind \in {"session", "portless"}}

\* symbol_config.ini is used exactly if it was found, could be read and no line
\* of a section is malformed; then every exchange has exactly the sessions of
\* its last section, in the order of their lines, whatever sections, comments
\* and repetitions surround it (SymbolConfig::parse).
SectionsAsWritten ==
  LET f == SymbolFile.lines
  IN  stage \in {"spawn", "running"} =>
        /\ symbol_config <=> SymbolFile.state = "readable" /\ ~Spoilt(f)
        /\ symbol_config =>
             /\ DOMAIN exchanges = {f[h].name : h \in Headers(f)}
             /\ \A n \in DOMAIN exchanges :
                  LET ss == exchanges[n]
                  IN  /\ {ss[i].line : i \in DOMAIN ss} = SessionLines(f, n)
                      /\ \A i, j \in DOMAIN ss : i < j => ss[i].line < ss[j].line

\* The lines whose settings count for the header at h: its own, and for the
\* first header those above it too.
SettingLines(f, h) ==
  {i \in Body(f, h) \cup (IF h = Min(Headers(f)) THEN 1 .. h - 1 ELSE {}) :
     f[i].kind = "setting"}

LinesOfKey(f, h, k) == {i \in SettingLines(f, h) : f[i].key = k}

\* The headers of exchange n whose section has a URL and a time limit.
CompleteHeaders(f, n) ==
  {h \in HeadersOf(f, n) :
     LinesOfKey(f, h, "ws_url_base") # {} /\ LinesOfKey(f, h, "timeout_ms") # {}}

\* The last value of a key in the section of header h.
ValueOf(f, h, k) == f[Max(LinesOfKey(f, h, k))].value

\* What exchange n connects to, read from endpoint.ini as a whole: its last
\* complete section decides; without one `enabled` has no effect.
TargetAsWritten(f, n) ==
  LET hs == CompleteHeaders(f, n)
      h  == Max(hs)
      On == LinesOfKey(f, h, "enabled") # {} /\ ValueOf(f, h, "enabled") = "good"
  IN  CASE hs = {} -> IF n \in BinanceNames THEN "default" ELSE "stand_in"
        [] hs # {} /\ ~On -> "disabled"
        [] OTHER -> IF ValueOf(f, h, "ws_url_base") = "bad" THEN "invalid"
                                                            ELSE "endpoint"

\* The sessions that run are the session lines of symbol_config.ini, one task
\* each, on the port of the line, and each connects where the last complete
\* section of endpoint.ini sends its exchange; a disabled exchange is disabled
\* for all of them (run, connect_to_symbol_session, EndpointConfig::parse).
TasksAsWritten ==
  LET f == SymbolFile.lines
      e == IF EndpointFile.state = "readable" THEN EndpointFile.lines ELSE << >>
  IN  stage = "running" /\ symbol_config =>
        tasks = UNION {{[exchange |-> n, line |-> i,
                         port |-> parse_symbol_line(f[i]),
                         target |-> TargetAsWritten(e, n)] :
                          i \in SessionLines(f, n)} :
                         n \in {f[h].name : h \in Headers(f)}}
-----------------------------------------------------------------------------
(***************************************************************************)
(* How far the parsers have come: what they hold in front of line p is     *)
(* what the lines above p say.  This is the inductive invariant behind the *)
(* properties above.                                                       *)
(***************************************************************************)

HeadersAbove(f, p) == {h \in Headers(f) : h < p}

\* The header whose section is open in front of line p, and those before it.
OpenAbove(f, p) == {h \in HeadersAbove(f, p) : \A g \in HeadersAbove(f, p) : g <= h}

ClosedAbove(f, p) == {h \in HeadersAbove(f, p) : \E g \in HeadersAbove(f, p) : h < g}

\* The headers among H that no later one of the same exchange replaces.
LastOfName(f, H) == {h \in H : \A g \in H : f[g].name = f[h].name => g <= h}

SessionsAbove(f, h, p) ==
  {i \in Body(f, h) : i < p /\ f[i].kind \in {"session", "portless"}}

\* ss holds the sessions of the lines S of f, in their order.
Lists(ss, f, S) ==
  /\ {ss[i].line : i \in DOMAIN ss} = S
  /\ \A i, j \in DOMAIN ss : i < j => ss[i].line < ss[j].line
  /\ \A i \in DOMAIN ss : ss[i].port = parse_symbol_line(f[ss[i].line])

\* SymbolConfig::parse in front of line p: its section, the sessions of that
\* section and the stored sections.
SymbolsReadTo(f, p, section, sessions, stored) ==
  /\ \A i \in 1 .. p - 1 : f[i].kind = "malformed" => HeadersAbove(f, i) = {}
  /\ HeadersAbove(f, p) = {} => section = NoExchange /\ sessions = << >>
  /\ \A h \in OpenAbove(f, p) :
       section = f[h].name /\ Lists(sessions, f, SessionsAbove(f, h, p))
  /\ DOMAIN stored = {f[h].name : h \in ClosedAbove(f, p)}
  /\ \A h \in LastOfName(f, ClosedAbove(f, p)) :
       Lists(stored[f[h].name], f, SessionsAbove(f, h, p))

\* The result of SymbolConfig::parse.
SymbolsRead(f, stored) ==
  /\ DOMAIN stored = {f[h].name : h \in Headers(f)}
  /\ \A h \in LastOfName(f, Headers(f)) :
       Lists(stored[f[h].name], f, SessionsAbove(f, h, Len(f) + 1))

SettingsAbove(f, h, p) == {i \in SettingLines(f, h) : i < p}

\* settings holds the last value of every key of the lines S of f.
Collects(settings, f, S) ==
  /\ DOMAIN settings = {f[i].key : i \in S}
  /\ \A i \in S : (\A j \in S : f[j].key = f[i].key => j <= i)
                    => settings[f[i].key] = f[i].value

\* The headers among H whose section is complete, and what such a section says.
CompleteAmong(f, H) ==
  {h \in H : LinesOfKey(f, h, "ws_url_base") # {} /\ LinesOfKey(f, h, "timeout_ms") # {}}

EndpointAt(f, h) ==
  [url     |-> IF ValueOf(f, h, "ws_url_base") = "bad" THEN "bad" ELSE "good",
   enabled |-> LinesOfKey(f, h, "enabled") # {} /\ ValueOf(f, h, "enabled") = "good"]

\* The endpoints that the complete sections among the headers H leave.
Leaves(stored, f, H) ==
  /\ DOMAIN stored = {f[h].name : h \in CompleteAmong(f, H)}
  /\ \A h \in LastOfName(f, CompleteAmong(f, H)) : stored[f[h].name] = EndpointAt(f, h)

\* EndpointConfig::parse in front of line p.
EndpointsReadTo(f, p, section, settings, stored) ==
  /\ HeadersAbove(f, p) = {} =>
       section = NoExchange /\ Collects(settings, f, {i \in 1 .. p - 1 : f[i].kind = "setting"})
  /\ \A h \in OpenAbove(f, p) :
       section = f[h].name /\ Collects(settings, f, SettingsAbove(f, h, p))
  /\ Leaves(stored, f, ClosedAbove(f, p))

\* The parts of the invariant, by stage.
NothingRead ==
  /\ stage \in {"ini", "open_symbols", "open_endpoints"} =>
       pos = 1 /\ current_exchange = NoExchange
  /\ stage \in {"ini", "open_symbols"} =>
       current_sessions = << >> /\ exchanges = Nothing
  /\ stage \in {"ini", "open_symbols", "symbols"} => ~symbol_config
  /\ stage \in {"ini", "open_symbols", "symbols", "open_endpoints"} =>
       current_settings = Nothing /\ endpoints = Nothing

SymbolsHalfRead ==
  stage = "symbols" =>
    /\ SymbolFile.state = "readable"
    /\ pos \in 1 .. Len(SymbolFile.lines) + 1
    /\ SymbolsReadTo(SymbolFile.lines, pos, current_exchange, current_sessions, exchanges)

SymbolsResult ==
  stage \in {"open_endpoints", "endpoints", "spawn", "running"} =>
    /\ symbol_config <=> SymbolFile.state = "readable" /\ ~Spoilt(SymbolFile.lines)
    /\ symbol_config => SymbolsRead(SymbolFile.lines, exchanges)

EndpointsHalfRead ==
  stage = "endpoints" =>
    /\ pos \in 1 .. Len(EndpointFile.lines) + 1
    /\ EndpointsReadTo(EndpointFile.lines, pos, current_exchange, current_settings, endpoints)

\* An endpoint.ini that cannot be read has no lines.
EndpointsResult ==
  stage \in {"spawn", "running"} =>
    Leaves(endpoints, EndpointFile.lines, Headers(EndpointFile.lines))

ParsersInv ==
  /\ NothingRead
  /\ SymbolsHalfRead
  /\ SymbolsResult
  /\ EndpointsHalfRead
  /\ EndpointsResult
  /\ TasksAsWritten
=============================================================================
