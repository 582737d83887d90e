------------------------- MODULE FeederConfigProofs -------------------------
(***************************************************************************)
(* The line parsers of symbol_config.ini and endpoint.ini read every file, *)
(* of any length, as it is written: what they carry from line to line is   *)
(* what the lines above say (ParsersInv), so that at the end the sessions  *)
(* that run and what they connect to are those of a reading of the files   *)
(* as a whole.                                                             *)
(***************************************************************************)
EXTENDS FeederConfig, OrderLemmas

\* A file that cannot be read has no lines.
LEMMA PlaceTypes ==
  ASSUME NEW Line, NEW x \in Place(Line)
  PROVE  /\ x.lines \in Seq(Line)
         /\ x.state # "readable" => x.lines = << >>
<1>1. << >> \in Seq(Line)
  OBVIOUS
<1>2. CASE x \in {Missing, Unreadable}
  <2>1. Missing.lines = << >> /\ Unreadable.lines = << >>
    BY DEF Missing, Unreadable
  <2>2. x = Missing \/ x = Unreadable
    BY <1>2
  <2> QED BY <1>1, <2>1, <2>2
<1>3. CASE x \in [state : {"readable"}, lines : Seq(Line)]
  BY <1>3
<1> QED BY <1>2, <1>3 DEF Place

\* The first place that has the file decides, and it is one of the places.
LEMMA FileFound ==
  ASSUME NEW Line, NEW places \in Seq(Place(Line))
  PROVE  /\ read_config_file(places) \in Place(Line)
         /\ read_config_file(places).lines \in Seq(Line)
         /\ read_config_file(places).state # "readable" =>
              read_config_file(places).lines = << >>
<1> DEFINE found == {i \in DOMAIN places : places[i].state # "missing"}
<1>1. CASE found = {}
  <2>1. read_config_file(places) = Missing
    BY <1>1 DEF read_config_file
  <2>2. Missing \in Place(Line)
    BY DEF Place
  <2> QED BY <2>1, <2>2, PlaceTypes
<1>2. CASE found # {}
  <2>1. Len(places) \in Nat /\ found \in SUBSET (1 .. Len(places))
    OBVIOUS
  <2>2. Min(found) \in found
    BY <1>2, <2>1, MinPlace
  <2>3. read_config_file(places) = places[Min(found)]
    BY <1>2 DEF read_config_file
  <2>4. places[Min(found)] \in Place(Line)
    BY <2>2
  <2> QED BY <2>3, <2>4, PlaceTypes
<1> QED BY <1>1, <1>2

\* What the files that are parsed hold.
LEMMA FileTypes ==
  ASSUME disk \in Disk
  PROVE  /\ IniFile.lines \in Seq(IniLine)
         /\ SymbolFile.lines \in Seq(SymbolLine)
         /\ EndpointFile.lines \in Seq(EndpointLine)
         /\ EndpointFile.state # "readable" => EndpointFile.lines = << >>
BY FileFound DEF Disk, IniFile, SymbolFile, EndpointFile

\* What a line of symbol_config.ini is, by its kind.
LEMMA SymbolLineTypes ==
  ASSUME NEW f \in Seq(SymbolLine), NEW i \in 1 .. Len(f)
  PROVE  /\ f[i].kind \in {"comment", "malformed", "section", "session", "portless"}
         /\ f[i].kind = "section" => f[i].name \in Exchanges
         /\ f[i].kind \in {"session", "portless"} => parse_symbol_line(f[i]) \in Ports
<1>1. f[i] \in SymbolLine
  OBVIOUS
<1> QED BY <1>1, ConfigAssumption
        DEF SymbolLine, Comment, Malformed, Portless, Section, Session, parse_symbol_line

\* What a line of endpoint.ini is, by its kind.
LEMMA EndpointLineTypes ==
  ASSUME NEW f \in Seq(EndpointLine), NEW i \in 1 .. Len(f)
  PROVE  /\ f[i].kind \in {"comment", "section", "setting"}
         /\ f[i].kind = "section" => f[i].name \in Exchanges
         /\ f[i].kind = "setting" => f[i].key \in EndpointKeys /\ f[i].value \in Values
<1>1. f[i] \in EndpointLine
  OBVIOUS
<1> QED BY <1>1 DEF EndpointLine, Comment, Section, Setting

\* config.ini always yields a port.
LEMMA IniPort ==
  ASSUME NEW f \in Seq(IniLine)
  PROVE  parse_ini(f) \in Ports
<1>1. CASE PortLines(f) = {}
  BY <1>1, ConfigAssumption DEF parse_ini
<1>2. CASE PortLines(f) # {}
  <2>1. Len(f) \in Nat /\ PortLines(f) \in SUBSET (1 .. Len(f))
    BY DEF PortLines
  <2>2. Max(PortLines(f)) \in PortLines(f)
    BY <1>2, <2>1, MaxPlace
  <2>3. PICK i \in 1 .. Len(f) : i = Max(PortLines(f)) /\ f[i].kind = "setting"
    BY <2>1, <2>2 DEF PortLines
  <2>4. f[i] \in IniLine
    BY <2>3
  <2>5. f[i].value \in Ports \cup {NotANumber}
    BY <2>3, <2>4 DEF IniLine, Comment, Section, Setting
  <2> QED BY <2>3, <2>5, ConfigAssumption DEF parse_ini
<1> QED BY <1>1, <1>2

-----------------------------------------------------------------------------
(***************************************************************************)
(* Headers and the lines below them.                                       *)
(***************************************************************************)

\* In front of the first line there is no header; behind the last there are all.
LEMMA AboveEnds ==
  ASSUME NEW Line, NEW f \in Seq(Line)
  PROVE  /\ HeadersAbove(f, 1) = {}
         /\ HeadersAbove(f, Len(f) + 1) = Headers(f)
BY DEF HeadersAbove, Headers

\* A line that is no header opens and closes nothing.
LEMMA AboveSkip ==
  ASSUME NEW Line, NEW f \in Seq(Line), NEW p \in 1 .. Len(f), f[p].kind # "section"
  PROVE  /\ HeadersAbove(f, p + 1) = HeadersAbove(f, p)
         /\ OpenAbove(f, p + 1) = OpenAbove(f, p)
         /\ ClosedAbove(f, p + 1) = ClosedAbove(f, p)
<1>1. HeadersAbove(f, p + 1) = HeadersAbove(f, p)
  BY DEF HeadersAbove, Headers
<1> QED BY <1>1 DEF OpenAbove, ClosedAbove

\* A header closes whatever was open.
LEMMA AboveHeader ==
  ASSUME NEW Line, NEW f \in Seq(Line), NEW p \in 1 .. Len(f), f[p].kind = "section"
  PROVE  /\ HeadersAbove(f, p + 1) = HeadersAbove(f, p) \cup {p}
         /\ OpenAbove(f, p + 1) = {p}
         /\ ClosedAbove(f, p + 1) = HeadersAbove(f, p)
<1>1. HeadersAbove(f, p + 1) = HeadersAbove(f, p) \cup {p}
  BY DEF HeadersAbove, Headers
<1>2. \A h \in HeadersAbove(f, p) : h \in Nat /\ h < p
  BY DEF HeadersAbove, Headers
<1>3. OpenAbove(f, p + 1) = {p}
  <2>1. \A g \in HeadersAbove(f, p + 1) : g <= p
    BY <1>1, <1>2
  <2>2. p \in OpenAbove(f, p + 1)
    BY <1>1, <2>1 DEF OpenAbove
  <2>3. ASSUME NEW h \in OpenAbove(f, p + 1) PROVE h = p
    <3>1. h \in HeadersAbove(f, p) \cup {p} /\ p <= h
      BY <1>1 DEF OpenAbove
    <3> QED BY <1>2, <3>1
  <2> QED BY <2>2, <2>3
<1>4. ClosedAbove(f, p + 1) = HeadersAbove(f, p)
  BY <1>1, <1>2 DEF ClosedAbove
<1> QED BY <1>1, <1>3, <1>4

\* Once there is a header one section is open, the others are closed.
LEMMA OpenAndClosed ==
  ASSUME NEW Line, NEW f \in Seq(Line), NEW p \in 1 .. Len(f) + 1
  PROVE  /\ HeadersAbove(f, p) = OpenAbove(f, p) \cup ClosedAbove(f, p)
         /\ HeadersAbove(f, p) # {} => OpenAbove(f, p) # {}
         /\ \A g, h \in OpenAbove(f, p) : g = h
         /\ \A g \in ClosedAbove(f, p), h \in OpenAbove(f, p) : g < h
         /\ HeadersAbove(f, p) \subseteq {h \in 1 .. Len(f) : h < p /\ f[h].kind = "section"}
<1>1. \A h \in HeadersAbove(f, p) :
        h \in 1 .. Len(f) /\ h < p /\ f[h].kind = "section"
  BY DEF HeadersAbove, Headers
<1>2. HeadersAbove(f, p) = OpenAbove(f, p) \cup ClosedAbove(f, p)
  BY <1>1 DEF OpenAbove, ClosedAbove
<1>3. ASSUME HeadersAbove(f, p) # {}
      PROVE  OpenAbove(f, p) # {}
  <2>1. HeadersAbove(f, p) \in SUBSET (1 .. Len(f)) /\ Len(f) \in Nat
    BY <1>1
  <2>2. Max(HeadersAbove(f, p)) \in OpenAbove(f, p)
    BY <1>3, <2>1, MaxPlace DEF OpenAbove
  <2> QED BY <2>2
<1>4. \A g, h \in OpenAbove(f, p) : g = h
  BY <1>1 DEF OpenAbove
<1>5. \A g \in ClosedAbove(f, p), h \in OpenAbove(f, p) : g < h
  BY <1>1 DEF OpenAbove, ClosedAbove
<1> QED BY <1>1, <1>2, <1>3, <1>4, <1>5

\* A line that is no header belongs to the open section and to no other above it.
LEMMA BodyAt ==
  ASSUME NEW Line, NEW f \in Seq(Line), NEW p \in 1 .. Len(f)
  PROVE  /\ \A h \in OpenAbove(f, p) : f[p].kind # "section" => p \in Body(f, h)
         /\ \A h \in ClosedAbove(f, p) : p \notin Body(f, h)
         /\ \A h \in HeadersAbove(f, p) : f[p].kind = "section" => p \notin Body(f, h)
<1>1. \A h \in Headers(f) : h \in 1 .. Len(f) /\ f[h].kind = "section"
  BY DEF Headers
<1>2. ASSUME NEW h \in OpenAbove(f, p), f[p].kind # "section"
      PROVE  p \in Body(f, h)
  <2>1. h \in 1 .. Len(f) /\ h < p
    BY <1>1 DEF OpenAbove, HeadersAbove
  <2>2. ASSUME NEW g \in Headers(f) PROVE g <= h \/ g > p
    <3>1. g \in 1 .. Len(f) /\ g # p
      BY <1>1, <1>2
    <3>2. g < p => g <= h
      BY <1>2 DEF OpenAbove, HeadersAbove
    <3> QED BY <3>1, <3>2
  <2> QED BY <2>1, <2>2 DEF Body
<1>3. ASSUME NEW h \in ClosedAbove(f, p)
      PROVE  p \notin Body(f, h)
  <2>1. PICK g \in Headers(f) : g < p /\ h < g
    BY DEF ClosedAbove, HeadersAbove
  <2>2. h \in 1 .. Len(f) /\ g \in 1 .. Len(f)
    BY <1>1 DEF ClosedAbove, HeadersAbove
  <2> QED BY <2>1, <2>2 DEF Body
<1>4. ASSUME NEW h \in HeadersAbove(f, p), f[p].kind = "section"
      PROVE  p \notin Body(f, h)
  <2>1. h \in 1 .. Len(f) /\ h < p /\ p \in Headers(f)
    BY <1>1, <1>4 DEF HeadersAbove, Headers
  <2> QED BY <2>1 DEF Body
<1> QED BY <1>2, <1>3, <1>4
-----------------------------------------------------------------------------
(***************************************************************************)
(* SymbolConfig::parse, line by line.                                      *)
(***************************************************************************)

\* Before its first line the parser holds nothing.
LEMMA SymbolsBegin ==
  ASSUME NEW f \in Seq(SymbolLine)
  PROVE  SymbolsReadTo(f, 1, NoExchange, << >>, Nothing)
<1>1. HeadersAbove(f, 1) = {}
  BY AboveEnds
<1>2. OpenAbove(f, 1) = {} /\ ClosedAbove(f, 1) = {} /\ LastOfName(f, ClosedAbove(f, 1)) = {}
  BY <1>1 DEF OpenAbove, ClosedAbove, LastOfName
<1>3. DOMAIN Nothing = {f[h].name : h \in ClosedAbove(f, 1)}
  BY <1>2 DEF Nothing
<1> QED BY <1>1, <1>2, <1>3 DEF SymbolsReadTo

\* A line adds to the sessions above only if it is a session line of the open
\* section.
LEMMA SessionsAboveNext ==
  ASSUME NEW f \in Seq(SymbolLine), NEW p \in 1 .. Len(f), NEW h \in HeadersAbove(f, p)
  PROVE  /\ f[p].kind \notin {"session", "portless"} =>
              SessionsAbove(f, h, p + 1) = SessionsAbove(f, h, p)
         /\ h \in ClosedAbove(f, p) =>
              SessionsAbove(f, h, p + 1) = SessionsAbove(f, h, p)
         /\ h \in OpenAbove(f, p) /\ f[p].kind \in {"session", "portless"} =>
              SessionsAbove(f, h, p + 1) = SessionsAbove(f, h, p) \cup {p}
<1>1. \A i \in Body(f, h) : i \in Int
  BY DEF Body, HeadersAbove, Headers
<1>2. h \in ClosedAbove(f, p) => p \notin Body(f, h)
  BY BodyAt
<1>3. h \in OpenAbove(f, p) /\ f[p].kind \in {"session", "portless"} => p \in Body(f, h)
  BY BodyAt
<1>4. \A i \in Body(f, h) : i < p + 1 <=> i < p \/ i = p
  BY <1>1
<1>5. p < p + 1 /\ ~(p < p)
  OBVIOUS
<1> QED BY <1>2, <1>3, <1>4, <1>5 DEF SessionsAbove

\* A header, a blank line, a comment and a line above the first header leave the
\* list of a section above them as it is.
LEMMA SymbolsSkip ==
  ASSUME NEW f \in Seq(SymbolLine), NEW p \in 1 .. Len(f),
         NEW section, NEW sessions, NEW stored,
         section \in Exchanges \cup {NoExchange},
         SymbolsReadTo(f, p, section, sessions, stored),
         \/ f[p].kind = "comment"
         \/ f[p].kind # "section" /\ section = NoExchange
  PROVE  SymbolsReadTo(f, p + 1, section, sessions, stored)
<1>1. /\ HeadersAbove(f, p + 1) = HeadersAbove(f, p)
      /\ OpenAbove(f, p + 1) = OpenAbove(f, p)
      /\ ClosedAbove(f, p + 1) = ClosedAbove(f, p)
  BY AboveSkip
<1>2. OpenAbove(f, p) \subseteq HeadersAbove(f, p) /\ ClosedAbove(f, p) \subseteq HeadersAbove(f, p)
  BY DEF OpenAbove, ClosedAbove
<1>3. section = NoExchange => HeadersAbove(f, p) = {}
  <2>1. \A h \in HeadersAbove(f, p) : f[h].name \in Exchanges
    BY OpenAndClosed, SymbolLineTypes
  <2>2. \A h \in OpenAbove(f, p) : section = f[h].name
    BY DEF SymbolsReadTo
  <2> QED BY <1>2, <2>1, <2>2, OpenAndClosed, ConfigAssumption
<1>4. \A h \in HeadersAbove(f, p) : SessionsAbove(f, h, p + 1) = SessionsAbove(f, h, p)
  BY <1>3, SessionsAboveNext
<1>5. \A i \in 1 .. p : f[i].kind = "malformed" => HeadersAbove(f, i) = {}
  <2>1. \A i \in 1 .. p - 1 : f[i].kind = "malformed" => HeadersAbove(f, i) = {}
    BY DEF SymbolsReadTo
  <2>2. f[p].kind = "malformed" => HeadersAbove(f, p) = {}
    BY <1>3
  <2> QED BY <2>1, <2>2
<1>6. LastOfName(f, ClosedAbove(f, p)) \subseteq HeadersAbove(f, p)
  BY <1>2 DEF LastOfName
<1>7. (p + 1) - 1 = p
  OBVIOUS
<1> QED BY <1>1, <1>2, <1>4, <1>5, <1>6, <1>7 DEF SymbolsReadTo

\* A session line adds its session to those of the open section.
LEMMA SymbolsSession ==
  ASSUME NEW f \in Seq(SymbolLine), NEW p \in 1 .. Len(f),
         NEW section, NEW sessions \in Seq(SessionRecord), NEW stored,
         section # NoExchange,
         SymbolsReadTo(f, p, section, sessions, stored),
         f[p].kind \in {"session", "portless"}
  PROVE  SymbolsReadTo(f, p + 1, section,
           Append(sessions, [port |-> parse_symbol_line(f[p]), line |-> p]), stored)
<1> DEFINE new == [port |-> parse_symbol_line(f[p]), line |-> p]
           ss  == Append(sessions, new)
<1>1. /\ HeadersAbove(f, p + 1) = HeadersAbove(f, p)
      /\ OpenAbove(f, p + 1) = OpenAbove(f, p)
      /\ ClosedAbove(f, p + 1) = ClosedAbove(f, p)
  BY AboveSkip
<1>2. OpenAbove(f, p) \subseteq HeadersAbove(f, p) /\ ClosedAbove(f, p) \subseteq HeadersAbove(f, p)
  BY DEF OpenAbove, ClosedAbove
<1>3. HeadersAbove(f, p) # {}
  BY DEF SymbolsReadTo
<1>4. \A h \in ClosedAbove(f, p) : SessionsAbove(f, h, p + 1) = SessionsAbove(f, h, p)
  BY <1>2, SessionsAboveNext
<1>5. ASSUME NEW h \in OpenAbove(f, p)
      PROVE  Lists(ss, f, SessionsAbove(f, h, p + 1))
  <2> DEFINE S == SessionsAbove(f, h, p)
  <2>1. SessionsAbove(f, h, p + 1) = S \cup {p}
    BY <1>2, SessionsAboveNext
  <2>2. Lists(sessions, f, S)
    BY DEF SymbolsReadTo
  <2>3. \A i \in S : i < p
    BY DEF SessionsAbove
  <2>4. /\ DOMAIN sessions = 1 .. Len(sessions)
        /\ DOMAIN ss = 1 .. Len(sessions) + 1
        /\ Len(sessions) \in Nat
        /\ \A i \in 1 .. Len(sessions) : ss[i] = sessions[i]
        /\ ss[Len(sessions) + 1] = new
    OBVIOUS
  <2>5. new.line = p /\ new.port = parse_symbol_line(f[p])
    OBVIOUS
  <2> HIDE DEF new, ss, S
  <2>6. \A i \in 1 .. Len(sessions) : sessions[i].line \in S
    BY <2>2, <2>4 DEF Lists
  <2>7. {ss[i].line : i \in DOMAIN ss} = S \cup {p}
    <3>1. {ss[i].line : i \in 1 .. Len(sessions)} = S
      BY <2>2, <2>4 DEF Lists
    <3>2. 1 .. Len(sessions) + 1 = 1 .. Len(sessions) \cup {Len(sessions) + 1}
      BY <2>4
    <3> QED BY <2>4, <2>5, <3>1, <3>2
  <2>8. ASSUME NEW i \in DOMAIN ss, NEW j \in DOMAIN ss, i < j
        PROVE  ss[i].line < ss[j].line
    <3>1. CASE j \in 1 .. Len(sessions)
      <4>1. i \in 1 .. Len(sessions)
        BY <2>4, <2>8, <3>1
      <4> QED BY <2>2, <2>4, <2>8, <3>1, <4>1 DEF Lists
    <3>2. CASE j = Len(sessions) + 1
      <4>1. i \in 1 .. Len(sessions)
        BY <2>4, <2>8, <3>2
      <4> QED BY <2>3, <2>4, <2>5, <2>6, <3>2, <4>1
    <3> QED BY <2>4, <3>1, <3>2
  <2>9. ASSUME NEW i \in DOMAIN ss
        PROVE  ss[i].port = parse_symbol_line(f[ss[i].line])
    <3>1. CASE i \in 1 .. Len(sessions)
      BY <2>2, <2>4, <3>1 DEF Lists
    <3>2. CASE i = Len(sessions) + 1
      BY <2>4, <2>5, <3>2
    <3> QED BY <2>4, <3>1, <3>2
  <2> QED BY <2>1, <2>7, <2>8, <2>9 DEF Lists
<1>6. \A i \in 1 .. p : f[i].kind = "malformed" => HeadersAbove(f, i) = {}
  <2>1. \A i \in 1 .. p - 1 : f[i].kind = "malformed" => HeadersAbove(f, i) = {}
    BY DEF SymbolsReadTo
  <2> QED BY <2>1
<1>7. LastOfName(f, ClosedAbove(f, p)) \subseteq ClosedAbove(f, p)
  BY DEF LastOfName
<1>8. (p + 1) - 1 = p
  OBVIOUS
<1> HIDE DEF ss
<1>9. SymbolsReadTo(f, p + 1, section, ss, stored)
  BY <1>1, <1>3, <1>4, <1>5, <1>6, <1>7, <1>8 DEF SymbolsReadTo
<1> QED BY <1>9 DEF ss

\* What is stored when a section ends is what all sections above say.
LEMMA SectionStored ==
  ASSUME NEW f \in Seq(SymbolLine), NEW p \in 1 .. Len(f) + 1,
         NEW section, NEW sessions, NEW stored, NEW new,
         section \in Exchanges \cup {NoExchange},
         SymbolsReadTo(f, p, section, sessions, stored),
         new = IF section = NoExchange THEN stored ELSE Insert(stored, section, sessions)
  PROVE  /\ section = NoExchange <=> HeadersAbove(f, p) = {}
         /\ DOMAIN new = {f[h].name : h \in HeadersAbove(f, p)}
         /\ \A h \in LastOfName(f, HeadersAbove(f, p)) :
              Lists(new[f[h].name], f, SessionsAbove(f, h, p))
<1>1. HeadersAbove(f, p) = OpenAbove(f, p) \cup ClosedAbove(f, p)
  BY OpenAndClosed
<1>2. /\ DOMAIN stored = {f[h].name : h \in ClosedAbove(f, p)}
      /\ \A h \in LastOfName(f, ClosedAbove(f, p)) :
           Lists(stored[f[h].name], f, SessionsAbove(f, h, p))
  BY DEF SymbolsReadTo
<1>3. CASE HeadersAbove(f, p) = {}
  <2>1. section = NoExchange /\ new = stored
    BY <1>3 DEF SymbolsReadTo
  <2> QED BY <1>1, <1>2, <1>3, <2>1
<1>4. CASE HeadersAbove(f, p) # {}
  <2>1. PICK c \in OpenAbove(f, p) : TRUE
    BY <1>4, OpenAndClosed
  <2>2. section = f[c].name /\ Lists(sessions, f, SessionsAbove(f, c, p))
    BY DEF SymbolsReadTo
  <2>3. section # NoExchange
    <3>1. c \in 1 .. Len(f) /\ f[c].kind = "section"
      BY <1>1, OpenAndClosed
    <3> QED BY <2>2, <3>1, SymbolLineTypes, ConfigAssumption
  <2>4. OpenAbove(f, p) = {c}
    BY OpenAndClosed
  <2>5. new = Insert(stored, section, sessions)
    BY <2>3
  <2>6. DOMAIN new = {f[h].name : h \in HeadersAbove(f, p)}
    BY <1>1, <1>2, <2>2, <2>4, <2>5 DEF Insert
  <2>7. ASSUME NEW h \in LastOfName(f, HeadersAbove(f, p))
        PROVE  Lists(new[f[h].name], f, SessionsAbove(f, h, p))
    <3>1. h \in HeadersAbove(f, p) /\ \A g \in HeadersAbove(f, p) : f[g].name = f[h].name => g <= h
      BY DEF LastOfName
    <3>2. CASE h = c
      <4>1. new[f[h].name] = sessions
        BY <2>2, <2>5, <3>2 DEF Insert
      <4> QED BY <2>2, <3>2, <4>1
    <3>3. CASE h # c
      <4>1. h \in ClosedAbove(f, p) /\ h < c /\ h \in Nat /\ c \in Nat
        BY <1>1, <2>4, <3>1, <3>3, OpenAndClosed
      <4>2. f[h].name # f[c].name
        BY <1>1, <3>1, <4>1
      <4>3. f[h].name \in DOMAIN stored
        BY <1>2, <4>1
      <4>4. new[f[h].name] = stored[f[h].name]
        BY <2>2, <2>5, <4>2, <4>3 DEF Insert
      <4>5. h \in LastOfName(f, ClosedAbove(f, p))
        BY <1>1, <3>1, <4>1 DEF LastOfName
      <4> QED BY <1>2, <4>4, <4>5
    <3> QED BY <3>2, <3>3
  <2> QED BY <1>4, <2>3, <2>6, <2>7
<1> QED BY <1>3, <1>4

\* A header stores the section above it, in place of an earlier one of its name,
\* and opens its own, without a session.
LEMMA SymbolsHeader ==
  ASSUME NEW f \in Seq(SymbolLine), NEW p \in 1 .. Len(f),
         NEW section, NEW sessions, NEW stored,
         section \in Exchanges \cup {NoExchange},
         SymbolsReadTo(f, p, section, sessions, stored),
         f[p].kind = "section"
  PROVE  SymbolsReadTo(f, p + 1, f[p].name,
           IF section = NoExchange THEN sessions ELSE << >>,
           IF section = NoExchange THEN stored ELSE Insert(stored, section, sessions))
<1> DEFINE new == IF section = NoExchange THEN stored ELSE Insert(stored, section, sessions)
           ss  == IF section = NoExchange THEN sessions ELSE << >>
<1>1. /\ HeadersAbove(f, p + 1) = HeadersAbove(f, p) \cup {p}
      /\ OpenAbove(f, p + 1) = {p}
      /\ ClosedAbove(f, p + 1) = HeadersAbove(f, p)
  BY AboveHeader
<1>2. /\ section = NoExchange <=> HeadersAbove(f, p) = {}
      /\ DOMAIN new = {f[h].name : h \in HeadersAbove(f, p)}
      /\ \A h \in LastOfName(f, HeadersAbove(f, p)) :
           Lists(new[f[h].name], f, SessionsAbove(f, h, p))
  <2>1. p \in 1 .. Len(f) + 1
    OBVIOUS
  <2>2. new = IF section = NoExchange THEN stored ELSE Insert(stored, section, sessions)
    OBVIOUS
  <2> HIDE DEF new
  <2> QED BY <2>1, <2>2, SectionStored
<1>3. \A h \in LastOfName(f, HeadersAbove(f, p)) :
        SessionsAbove(f, h, p + 1) = SessionsAbove(f, h, p)
  BY SessionsAboveNext DEF LastOfName
<1>4. ss = << >>
  BY <1>2 DEF SymbolsReadTo
<1>5. SessionsAbove(f, p, p + 1) = {}
  BY DEF SessionsAbove, Body
<1>6. Lists(ss, f, SessionsAbove(f, p, p + 1))
  BY <1>4, <1>5 DEF Lists
<1>7. \A i \in 1 .. p : f[i].kind = "malformed" => HeadersAbove(f, i) = {}
  <2>1. \A i \in 1 .. p - 1 : f[i].kind = "malformed" => HeadersAbove(f, i) = {}
    BY DEF SymbolsReadTo
  <2> QED BY <2>1
<1>8. (p + 1) - 1 = p
  OBVIOUS
<1> HIDE DEF new, ss
<1>9. SymbolsReadTo(f, p + 1, f[p].name, ss, new)
  BY <1>1, <1>2, <1>3, <1>6, <1>7, <1>8 DEF SymbolsReadTo
<1> QED BY <1>9 DEF new, ss

\* At the end of the file the parser has read it as it is written, and no line of
\* a section was malformed.
LEMMA SymbolsEnd ==
  ASSUME NEW f \in Seq(SymbolLine),
         NEW section, NEW sessions, NEW stored,
         section \in Exchanges \cup {NoExchange},
         SymbolsReadTo(f, Len(f) + 1, section, sessions, stored)
  PROVE  /\ ~Spoilt(f)
         /\ SymbolsRead(f, IF section = NoExchange THEN stored
                           ELSE Insert(stored, section, sessions))
<1> DEFINE new == IF section = NoExchange THEN stored ELSE Insert(stored, section, sessions)
<1>1. HeadersAbove(f, Len(f) + 1) = Headers(f)
  BY AboveEnds
<1>2. ~Spoilt(f)
  <2>1. \A i \in 1 .. Len(f) : f[i].kind = "malformed" => HeadersAbove(f, i) = {}
    BY DEF SymbolsReadTo
  <2> QED BY <2>1 DEF Spoilt, HeadersAbove
<1>3. Len(f) + 1 \in 1 .. Len(f) + 1
  OBVIOUS
<1>4. new = IF section = NoExchange THEN stored ELSE Insert(stored, section, sessions)
  OBVIOUS
<1> HIDE DEF new
<1>5. SymbolsRead(f, new)
  BY <1>1, <1>3, <1>4, SectionStored DEF SymbolsRead
<1> QED BY <1>2, <1>4, <1>5

\* A malformed line of a section spoils the file.
LEMMA SymbolsSpoilt ==
  ASSUME NEW f \in Seq(SymbolLine), NEW p \in 1 .. Len(f),
         NEW section, NEW sessions, NEW stored,
         SymbolsReadTo(f, p, section, sessions, stored),
         section # NoExchange,
         f[p].kind = "malformed"
  PROVE  Spoilt(f)
<1>1. HeadersAbove(f, p) # {}
  BY DEF SymbolsReadTo
<1> QED BY <1>1 DEF Spoilt, HeadersAbove

\* The result of the parser, exchange by exchange: the last section of each.
LEMMA SymbolsAsWritten ==
  ASSUME NEW f \in Seq(SymbolLine), NEW stored, SymbolsRead(f, stored),
         NEW n \in {f[h].name : h \in Headers(f)}
  PROVE  Lists(stored[n], f, SessionLines(f, n))
<1> DEFINE h == Max(HeadersOf(f, n))
<1>1. /\ HeadersOf(f, n) # {}
      /\ HeadersOf(f, n) \in SUBSET (1 .. Len(f))
      /\ Len(f) \in Nat
  BY DEF HeadersOf, Headers
<1>2. h \in HeadersOf(f, n) /\ \A g \in HeadersOf(f, n) : g <= h
  BY <1>1, MaxPlace
<1> HIDE DEF h
<1>3. h \in Headers(f) /\ f[h].name = n /\ h \in LastOfName(f, Headers(f))
  BY <1>2 DEF HeadersOf, LastOfName
<1>4. SessionsAbove(f, h, Len(f) + 1) = SessionLines(f, n)
  <2>1. SessionLines(f, n) = {i \in Body(f, h) : f[i].kind \in {"session", "portless"}}
    BY DEF SessionLines, h
  <2>2. h \in 1 .. Len(f)
    BY <1>3 DEF Headers
  <2>3. \A i \in Body(f, h) : i < Len(f) + 1
    BY <2>2 DEF Body
  <2> QED BY <2>1, <2>3 DEF SessionsAbove
<1> QED BY <1>3, <1>4 DEF SymbolsRead
-----------------------------------------------------------------------------
(***************************************************************************)
(* EndpointConfig::parse, line by line.                                    *)
(***************************************************************************)

\* The lines of a section's settings are lines of the file.
LEMMA SettingLinesTypes ==
  ASSUME NEW f \in Seq(EndpointLine), NEW h \in Headers(f)
  PROVE  /\ SettingLines(f, h) \subseteq {i \in 1 .. Len(f) : f[i].kind = "setting"}
         /\ h \in 1 .. Len(f)
<1>1. h \in 1 .. Len(f) /\ Len(f) \in Nat
  BY DEF Headers
<1>2. 1 .. h - 1 \subseteq 1 .. Len(f) /\ Body(f, h) \subseteq 1 .. Len(f)
  BY <1>1 DEF Body
<1> QED BY <1>1, <1>2 DEF SettingLines

\* The first header is the one that has none above it.
LEMMA FirstHeader ==
  ASSUME NEW f \in Seq(EndpointLine), NEW h \in Headers(f)
  PROVE  h = Min(Headers(f)) <=> HeadersAbove(f, h) = {}
<1>1. Headers(f) \in SUBSET (1 .. Len(f)) /\ Headers(f) # {} /\ Len(f) \in Nat
  BY DEF Headers
<1>2. Min(Headers(f)) \in Headers(f) /\ \A x \in Headers(f) : Min(Headers(f)) <= x
  BY <1>1, MinPlace
<1>3. \A x \in Headers(f) : x \in Nat
  BY <1>1
<1> QED BY <1>2, <1>3 DEF HeadersAbove

\* A line adds to the settings of the open section if it is a setting.
LEMMA SettingsAboveNext ==
  ASSUME NEW f \in Seq(EndpointLine), NEW p \in 1 .. Len(f), NEW h \in OpenAbove(f, p),
         f[p].kind # "section"
  PROVE  SettingsAbove(f, h, p + 1) =
           SettingsAbove(f, h, p) \cup (IF f[p].kind = "setting" THEN {p} ELSE {})
<1>1. h \in Headers(f) /\ h < p
  BY DEF OpenAbove, HeadersAbove
<1>2. \A i \in SettingLines(f, h) : i \in Nat /\ f[i].kind = "setting"
  BY <1>1, SettingLinesTypes
<1>3. \A i \in SettingLines(f, h) : i < p + 1 <=> i < p \/ i = p
  BY <1>2
<1>4. p \in Body(f, h)
  BY BodyAt
<1>5. f[p].kind = "setting" => p \in SettingLines(f, h)
  BY <1>4 DEF SettingLines
<1>6. p < p + 1
  OBVIOUS
<1> QED BY <1>2, <1>3, <1>5, <1>6 DEF SettingsAbove

\* When a section ends, at a header or at the end of the file, all of its
\* settings are above.
LEMMA SettingsWhole ==
  ASSUME NEW f \in Seq(EndpointLine), NEW p \in 1 .. Len(f) + 1, NEW h \in HeadersAbove(f, p),
         p = Len(f) + 1 \/ f[p].kind = "section"
  PROVE  SettingsAbove(f, h, p) = SettingLines(f, h)
<1>1. h \in Headers(f) /\ h < p /\ h \in 1 .. Len(f)
  BY DEF HeadersAbove, Headers
<1>2. ASSUME NEW i \in SettingLines(f, h) PROVE i < p
  <2>1. i \in 1 .. Len(f)
    BY <1>1, SettingLinesTypes
  <2>2. CASE p = Len(f) + 1
    BY <2>1, <2>2
  <2>3. CASE p # Len(f) + 1
    <3>1. p \in Headers(f)
      BY <2>3 DEF Headers
    <3>2. CASE i \in Body(f, h)
      BY <1>1, <2>1, <3>1, <3>2 DEF Body
    <3>3. CASE i \in 1 .. h - 1
      BY <1>1, <3>3
    <3> QED BY <3>2, <3>3 DEF SettingLines
  <2> QED BY <2>2, <2>3
<1> QED BY <1>2 DEF SettingsAbove

\* A header starts with no settings, or with those above the first section.
LEMMA SettingsFirst ==
  ASSUME NEW f \in Seq(EndpointLine), NEW p \in 1 .. Len(f), f[p].kind = "section"
  PROVE  SettingsAbove(f, p, p + 1) =
           IF HeadersAbove(f, p) = {} THEN {i \in 1 .. p - 1 : f[i].kind = "setting"} ELSE {}
<1>1. p \in Headers(f)
  BY DEF Headers
<1>2. p = Min(Headers(f)) <=> HeadersAbove(f, p) = {}
  BY <1>1, FirstHeader
<1>3. \A i \in Body(f, p) : ~(i < p + 1)
  BY DEF Body
<1>4. \A i \in 1 .. p - 1 : i < p + 1
  OBVIOUS
<1> QED BY <1>2, <1>3, <1>4 DEF SettingsAbove, SettingLines

\* A setting replaces an earlier value of its key.
LEMMA CollectsNext ==
  ASSUME NEW f \in Seq(EndpointLine), NEW p \in 1 .. Len(f), NEW S \in SUBSET (1 .. Len(f)),
         NEW settings, Collects(settings, f, S), \A i \in S : i < p
  PROVE  Collects(Insert(settings, f[p].key, f[p].value), f, S \cup {p})
<1> DEFINE new == Insert(settings, f[p].key, f[p].value)
<1>1. DOMAIN settings = {f[i].key : i \in S}
  BY DEF Collects
<1>2. DOMAIN new = {f[i].key : i \in S \cup {p}}
  BY <1>1 DEF Insert
<1>3. ASSUME NEW i \in S \cup {p}, \A j \in S \cup {p} : f[j].key = f[i].key => j <= i
      PROVE  new[f[i].key] = f[i].value
  <2>1. CASE i = p
    BY <2>1 DEF Insert
  <2>2. CASE i # p
    <3>1. i \in S /\ i < p /\ i \in Nat
      BY <2>2
    <3>2. f[i].key # f[p].key
      BY <1>3, <3>1
    <3>3. settings[f[i].key] = f[i].value
      BY <1>3, <3>1 DEF Collects
    <3>4. f[i].key \in DOMAIN settings
      BY <1>1, <3>1
    <3> QED BY <3>2, <3>3, <3>4 DEF Insert
  <2> QED BY <2>1, <2>2
<1> HIDE DEF new
<1>4. Collects(new, f, S \cup {p})
  BY <1>2, <1>3 DEF Collects
<1> QED BY <1>4 DEF new

\* What the settings of a whole section say is what the section says.
LEMMA SectionSettings ==
  ASSUME NEW f \in Seq(EndpointLine), NEW h \in Headers(f),
         NEW settings, Collects(settings, f, SettingLines(f, h))
  PROVE  /\ Complete(settings) <=> h \in CompleteAmong(f, {h})
         /\ Complete(settings) => parse_exchange_settings(settings) = EndpointAt(f, h)
<1> DEFINE S == SettingLines(f, h)
<1>1. S \in SUBSET (1 .. Len(f)) /\ Len(f) \in Nat
  BY SettingLinesTypes
<1>2. DOMAIN settings = {f[i].key : i \in S}
  BY DEF Collects
<1>3. ASSUME NEW k
      PROVE  k \in DOMAIN settings <=> LinesOfKey(f, h, k) # {}
  BY <1>2 DEF LinesOfKey
<1>4. ASSUME NEW k, LinesOfKey(f, h, k) # {}
      PROVE  settings[k] = ValueOf(f, h, k)
  <2>1. LinesOfKey(f, h, k) \in SUBSET (1 .. Len(f))
    BY <1>1 DEF LinesOfKey
  <2>2. PICK m : m = Max(LinesOfKey(f, h, k))
    OBVIOUS
  <2>3. m \in LinesOfKey(f, h, k) /\ \A x \in LinesOfKey(f, h, k) : x <= m
    BY <1>1, <1>4, <2>1, <2>2, MaxPlace
  <2>4. m \in S /\ f[m].key = k /\ \A j \in S : f[j].key = f[m].key => j <= m
    BY <2>3 DEF LinesOfKey
  <2>5. settings[f[m].key] = f[m].value
    BY <2>4 DEF Collects
  <2> QED BY <2>2, <2>4, <2>5 DEF ValueOf
<1>5. Complete(settings) <=> h \in CompleteAmong(f, {h})
  BY <1>3 DEF Complete, CompleteAmong
<1>6. ASSUME Complete(settings)
      PROVE  parse_exchange_settings(settings) = EndpointAt(f, h)
  <2>1. LinesOfKey(f, h, "ws_url_base") # {}
    BY <1>3, <1>6 DEF Complete
  <2>2. settings["ws_url_base"] = ValueOf(f, h, "ws_url_base")
    BY <1>4, <2>1
  <2>3. "enabled" \in DOMAIN settings <=> LinesOfKey(f, h, "enabled") # {}
    BY <1>3
  <2>4. LinesOfKey(f, h, "enabled") # {} => settings["enabled"] = ValueOf(f, h, "enabled")
    BY <1>4
  <2> QED BY <2>2, <2>3, <2>4 DEF parse_exchange_settings, EndpointAt
<1> QED BY <1>5, <1>6

\* Before its first line the parser holds nothing.
LEMMA EndpointsBegin ==
  ASSUME NEW f \in Seq(EndpointLine)
  PROVE  EndpointsReadTo(f, 1, NoExchange, Nothing, Nothing)
<1>1. HeadersAbove(f, 1) = {}
  BY AboveEnds
<1>2. OpenAbove(f, 1) = {} /\ ClosedAbove(f, 1) = {}
  BY <1>1 DEF OpenAbove, ClosedAbove
<1>3. DOMAIN Nothing = {}
  BY DEF Nothing
<1>4. {i \in 1 .. 1 - 1 : f[i].kind = "setting"} = {}
  OBVIOUS
<1>5. Collects(Nothing, f, {})
  BY <1>3 DEF Collects
<1>6. Leaves(Nothing, f, {})
  BY <1>3 DEF Leaves, CompleteAmong, LastOfName
<1> QED BY <1>1, <1>2, <1>4, <1>5, <1>6 DEF EndpointsReadTo

\* A comment changes nothing.
LEMMA EndpointsSkip ==
  ASSUME NEW f \in Seq(EndpointLine), NEW p \in 1 .. Len(f),
         NEW section, NEW settings, NEW stored,
         EndpointsReadTo(f, p, section, settings, stored),
         f[p].kind = "comment"
  PROVE  EndpointsReadTo(f, p + 1, section, settings, stored)
<1>1. /\ HeadersAbove(f, p + 1) = HeadersAbove(f, p)
      /\ OpenAbove(f, p + 1) = OpenAbove(f, p)
      /\ ClosedAbove(f, p + 1) = ClosedAbove(f, p)
  BY AboveSkip
<1>2. ASSUME NEW h \in OpenAbove(f, p)
      PROVE  SettingsAbove(f, h, p + 1) = SettingsAbove(f, h, p)
  <2>1. SettingsAbove(f, h, p + 1) = SettingsAbove(f, h, p) \cup {}
    BY SettingsAboveNext
  <2> QED BY <2>1
<1>3. {i \in 1 .. (p + 1) - 1 : f[i].kind = "setting"} = {i \in 1 .. p - 1 : f[i].kind = "setting"}
  OBVIOUS
<1> QED BY <1>1, <1>2, <1>3 DEF EndpointsReadTo

\* A setting counts for the open section, or for the first one to come.
LEMMA EndpointsSetting ==
  ASSUME NEW f \in Seq(EndpointLine), NEW p \in 1 .. Len(f),
         NEW section, NEW settings, NEW stored,
         EndpointsReadTo(f, p, section, settings, stored),
         f[p].kind = "setting"
  PROVE  EndpointsReadTo(f, p + 1, section, Insert(settings, f[p].key, f[p].value), stored)
<1> DEFINE new == Insert(settings, f[p].key, f[p].value)
<1>1. /\ HeadersAbove(f, p + 1) = HeadersAbove(f, p)
      /\ OpenAbove(f, p + 1) = OpenAbove(f, p)
      /\ ClosedAbove(f, p + 1) = ClosedAbove(f, p)
  BY AboveSkip
<1>2. ASSUME NEW h \in OpenAbove(f, p)
      PROVE  section = f[h].name /\ Collects(new, f, SettingsAbove(f, h, p + 1))
  <2>1. section = f[h].name /\ Collects(settings, f, SettingsAbove(f, h, p))
    BY DEF EndpointsReadTo
  <2>2. SettingsAbove(f, h, p + 1) = SettingsAbove(f, h, p) \cup {p}
    BY SettingsAboveNext
  <2>3. h \in Headers(f)
    BY DEF OpenAbove, HeadersAbove
  <2>4. SettingsAbove(f, h, p) \in SUBSET (1 .. Len(f)) /\ \A i \in SettingsAbove(f, h, p) : i < p
    BY <2>3, SettingLinesTypes DEF SettingsAbove
  <2> QED BY <2>1, <2>2, <2>4, CollectsNext
<1>3. ASSUME HeadersAbove(f, p) = {}
      PROVE  /\ section = NoExchange
             /\ Collects(new, f, {i \in 1 .. (p + 1) - 1 : f[i].kind = "setting"})
  <2> DEFINE S == {i \in 1 .. p - 1 : f[i].kind = "setting"}
  <2>1. section = NoExchange /\ Collects(settings, f, S)
    BY <1>3 DEF EndpointsReadTo
  <2>2. {i \in 1 .. (p + 1) - 1 : f[i].kind = "setting"} = S \cup {p}
    OBVIOUS
  <2>3. S \in SUBSET (1 .. Len(f)) /\ \A i \in S : i < p
    OBVIOUS
  <2> HIDE DEF S
  <2>4. Collects(new, f, S \cup {p})
    BY <2>1, <2>3, CollectsNext, Zenon
  <2> HIDE DEF new
  <2> QED BY <2>1, <2>2, <2>4
<1>4. Leaves(stored, f, ClosedAbove(f, p + 1))
  BY <1>1 DEF EndpointsReadTo
<1> HIDE DEF new
<1>5. EndpointsReadTo(f, p + 1, section, new, stored)
  BY <1>1, <1>2, <1>3, <1>4 DEF EndpointsReadTo
<1> QED BY <1>5 DEF new

\* What is stored when a section ends is what all complete sections above say.
LEMMA EndpointStored ==
  ASSUME NEW f \in Seq(EndpointLine), NEW p \in 1 .. Len(f) + 1,
         p = Len(f) + 1 \/ f[p].kind = "section",
         NEW section, NEW settings, NEW stored, NEW new,
         section \in Exchanges \cup {NoExchange},
         EndpointsReadTo(f, p, section, settings, stored),
         new = IF section # NoExchange /\ Complete(settings)
               THEN Insert(stored, section, parse_exchange_settings(settings))
               ELSE stored
  PROVE  /\ section = NoExchange <=> HeadersAbove(f, p) = {}
         /\ Leaves(new, f, HeadersAbove(f, p))
<1> DEFINE Closed == CompleteAmong(f, ClosedAbove(f, p))
           All    == CompleteAmong(f, HeadersAbove(f, p))
<1>1. HeadersAbove(f, p) = OpenAbove(f, p) \cup ClosedAbove(f, p)
  BY OpenAndClosed
<1>2. /\ DOMAIN stored = {f[h].name : h \in Closed}
      /\ \A h \in LastOfName(f, Closed) : stored[f[h].name] = EndpointAt(f, h)
  BY DEF EndpointsReadTo, Leaves
<1>3. CASE HeadersAbove(f, p) = {}
  <2>1. section = NoExchange /\ new = stored /\ ClosedAbove(f, p) = {}
    BY <1>1, <1>3 DEF EndpointsReadTo
  <2> QED BY <1>3, <2>1 DEF EndpointsReadTo
<1>4. CASE HeadersAbove(f, p) # {}
  <2>1. PICK c \in OpenAbove(f, p) : TRUE
    BY <1>4, OpenAndClosed
  <2>2. c \in HeadersAbove(f, p) /\ c \in Headers(f) /\ c \in 1 .. Len(f) /\ f[c].kind = "section"
    BY <1>1 DEF HeadersAbove, Headers
  <2>3. Collects(settings, f, SettingLines(f, c)) /\ section = f[c].name
    <3>1. SettingsAbove(f, c, p) = SettingLines(f, c)
      BY <2>2, SettingsWhole
    <3> QED BY <3>1 DEF EndpointsReadTo
  <2>4. section # NoExchange
    BY <2>2, <2>3, EndpointLineTypes, ConfigAssumption
  <2>5. OpenAbove(f, p) = {c}
    BY OpenAndClosed
  <2>6. /\ Complete(settings) <=> c \in CompleteAmong(f, {c})
        /\ Complete(settings) => parse_exchange_settings(settings) = EndpointAt(f, c)
    BY <2>2, <2>3, SectionSettings
  <2>7. CASE ~Complete(settings)
    <3>1. new = stored
      BY <2>7
    <3>2. All = Closed
      BY <1>1, <2>5, <2>6, <2>7 DEF CompleteAmong
    <3> QED BY <1>2, <1>4, <2>4, <3>1, <3>2 DEF Leaves
  <2>8. CASE Complete(settings)
    <3>1. new = Insert(stored, section, EndpointAt(f, c))
      BY <2>4, <2>6, <2>8
    <3>2. All = Closed \cup {c}
      BY <1>1, <2>5, <2>6, <2>8 DEF CompleteAmong
    <3>3. \A h \in Closed : h < c /\ h \in Nat
      BY <1>1, <2>2, OpenAndClosed DEF CompleteAmong
    <3> HIDE DEF All, Closed
    <3>4. DOMAIN new = {f[h].name : h \in All}
      <4>1. DOMAIN new = DOMAIN stored \cup {section}
        BY <3>1 DEF Insert
      <4>2. DOMAIN stored = {f[h].name : h \in Closed}
        BY <1>2
      <4> QED BY <2>3, <3>2, <4>1, <4>2
    <3>5. ASSUME NEW h \in LastOfName(f, All)
          PROVE  new[f[h].name] = EndpointAt(f, h)
      <4>1. h \in All /\ \A g \in All : f[g].name = f[h].name => g <= h
        BY DEF LastOfName
      <4>2. CASE h = c
        BY <2>3, <3>1, <4>2 DEF Insert
      <4>3. CASE h # c
        <5>1. h \in Closed /\ h < c /\ h \in Nat /\ c \in Nat
          BY <2>2, <3>2, <3>3, <4>1, <4>3
        <5>2. f[h].name # f[c].name
          BY <3>2, <4>1, <5>1
        <5>3. f[h].name \in DOMAIN stored
          BY <1>2, <5>1
        <5>4. new[f[h].name] = stored[f[h].name]
          BY <2>3, <3>1, <5>2, <5>3 DEF Insert
        <5>5. h \in LastOfName(f, Closed)
          BY <3>2, <4>1, <5>1 DEF LastOfName
        <5> QED BY <1>2, <5>4, <5>5
      <4> QED BY <4>2, <4>3
    <3>6. Leaves(new, f, HeadersAbove(f, p))
      BY <3>4, <3>5 DEF Leaves, All
    <3> QED BY <1>4, <2>4, <3>6
  <2> QED BY <2>7, <2>8
<1> QED BY <1>3, <1>4

\* A header stores the section above it if it is complete, in place of an earlier
\* one of its name, and opens its own.
LEMMA EndpointsHeader ==
  ASSUME NEW f \in Seq(EndpointLine), NEW p \in 1 .. Len(f),
         NEW section, NEW settings, NEW stored,
         section \in Exchanges \cup {NoExchange},
         EndpointsReadTo(f, p, section, settings, stored),
         f[p].kind = "section"
  PROVE  EndpointsReadTo(f, p + 1, f[p].name,
           IF section = NoExchange THEN settings ELSE Nothing,
           IF section # NoExchange /\ Complete(settings)
           THEN Insert(stored, section, parse_exchange_settings(settings))
           ELSE stored)
<1> DEFINE new  == IF section # NoExchange /\ Complete(settings)
                   THEN Insert(stored, section, parse_exchange_settings(settings))
                   ELSE stored
           kept == IF section = NoExchange THEN settings ELSE Nothing
<1>1. /\ HeadersAbove(f, p + 1) = HeadersAbove(f, p) \cup {p}
      /\ OpenAbove(f, p + 1) = {p}
      /\ ClosedAbove(f, p + 1) = HeadersAbove(f, p)
  BY AboveHeader
<1>2. /\ section = NoExchange <=> HeadersAbove(f, p) = {}
      /\ Leaves(new, f, HeadersAbove(f, p))
  <2>1. p \in 1 .. Len(f) + 1
    OBVIOUS
  <2>2. new = IF section # NoExchange /\ Complete(settings)
              THEN Insert(stored, section, parse_exchange_settings(settings))
              ELSE stored
    OBVIOUS
  <2> HIDE DEF new
  <2> QED BY <2>1, <2>2, EndpointStored
<1>3. Collects(kept, f, SettingsAbove(f, p, p + 1))
  <2>1. CASE HeadersAbove(f, p) = {}
    BY <1>2, <2>1, SettingsFirst DEF EndpointsReadTo
  <2>2. CASE HeadersAbove(f, p) # {}
    <3>1. kept = Nothing /\ SettingsAbove(f, p, p + 1) = {}
      BY <1>2, <2>2, SettingsFirst
    <3> QED BY <3>1 DEF Collects, Nothing
  <2> QED BY <2>1, <2>2
<1> HIDE DEF new, kept
<1>4. EndpointsReadTo(f, p + 1, f[p].name, kept, new)
  BY <1>1, <1>2, <1>3 DEF EndpointsReadTo
<1> QED BY <1>4 DEF new, kept

\* Where an exchange connects, with the endpoints that a file leaves, is what the
\* file says.
LEMMA TargetsAsWritten ==
  ASSUME NEW e \in Seq(EndpointLine), NEW n, Leaves(endpoints, e, Headers(e))
  PROVE  connect_target(n) = TargetAsWritten(e, n)
<1> DEFINE hs == CompleteHeaders(e, n)
           All == CompleteAmong(e, Headers(e))
<1>1. hs = {h \in All : e[h].name = n}
  BY DEF CompleteHeaders, HeadersOf, CompleteAmong
<1>2. /\ DOMAIN endpoints = {e[h].name : h \in All}
      /\ \A h \in LastOfName(e, All) : endpoints[e[h].name] = EndpointAt(e, h)
  BY DEF Leaves
<1>3. n \in DOMAIN endpoints <=> hs # {}
  BY <1>1, <1>2
<1>4. CASE hs = {}
  BY <1>3, <1>4 DEF connect_target, TargetAsWritten, build_default_websocket_url
<1>5. CASE hs # {}
  <2>1. hs \in SUBSET (1 .. Len(e)) /\ Len(e) \in Nat
    BY DEF CompleteHeaders, HeadersOf, Headers
  <2>2. PICK h : h = Max(hs)
    OBVIOUS
  <2>3. h \in hs /\ \A g \in hs : g <= h
    BY <1>5, <2>1, <2>2, MaxPlace
  <2>4. h \in All /\ e[h].name = n /\ h \in LastOfName(e, All)
    BY <1>1, <2>3 DEF LastOfName
  <2>5. endpoints[n] = EndpointAt(e, h)
    BY <1>2, <2>4
  <2> DEFINE On == LinesOfKey(e, h, "enabled") # {} /\ ValueOf(e, h, "enabled") = "good"
             url == ValueOf(e, h, "ws_url_base")
  <2>6. endpoints[n].enabled = On /\ endpoints[n].url = IF url = "bad" THEN "bad" ELSE "good"
    BY <2>5 DEF EndpointAt
  <2>7. connect_target(n) = IF ~On THEN "disabled"
                            ELSE IF url = "bad" THEN "invalid" ELSE "endpoint"
    BY <1>3, <1>5, <2>6 DEF connect_target, build_websocket_url_from_endpoint
  <2>8. TargetAsWritten(e, n) = IF ~On THEN "disabled"
                                ELSE IF url = "bad" THEN "invalid" ELSE "endpoint"
    BY <1>5, <2>2 DEF TargetAsWritten
  <2> QED BY <2>7, <2>8
<1> QED BY <1>4, <1>5

-----------------------------------------------------------------------------
(***************************************************************************)
(* Start-up as a whole.                                                    *)
(***************************************************************************)

Inv == TypeOK /\ ParsersInv

\* A step keeps the files.
LEMMA FilesStay ==
  ASSUME disk' = disk
  PROVE  IniFile' = IniFile /\ SymbolFile' = SymbolFile /\ EndpointFile' = EndpointFile
BY DEF IniFile, SymbolFile, EndpointFile

\* Storing under a key of the right kind keeps the kind of a map.
LEMMA InsertTypes ==
  ASSUME NEW map, NEW Keys, NEW Vals, NEW k \in Keys, NEW v \in Vals,
         DOMAIN map \subseteq Keys, \A x \in DOMAIN map : map[x] \in Vals
  PROVE  /\ DOMAIN Insert(map, k, v) \subseteq Keys
         /\ \A x \in DOMAIN Insert(map, k, v) : Insert(map, k, v)[x] \in Vals
BY DEF Insert

\* The program starts with nothing read.
LEMMA ConfigInit == Init => Inv
<1> SUFFICES ASSUME Init PROVE Inv
  OBVIOUS
<1>1. disk \in Disk
  BY ConfigAssumption DEF Init
<1>2. DOMAIN Nothing = {}
  BY DEF Nothing
<1>3. TypeOK
  <2>1. << >> \in Seq(SessionRecord) /\ DefaultPort \in Ports /\ 1 \in Nat
    BY ConfigAssumption
  <2>2. /\ DOMAIN exchanges = {} /\ DOMAIN current_settings = {} /\ DOMAIN endpoints = {}
        /\ stage \in Stages /\ udp_port = DefaultPort /\ pos = 1
        /\ current_exchange = NoExchange /\ current_sessions = << >>
        /\ symbol_config \in BOOLEAN /\ tasks = {}
    BY <1>2 DEF Init, Stages
  <2> QED BY <1>1, <2>1, <2>2 DEF TypeOK
<1>4. ParsersInv
  BY DEF Init, ParsersInv, NothingRead, SymbolsHalfRead, SymbolsResult, EndpointsHalfRead,
         EndpointsResult, TasksAsWritten
<1> QED BY <1>3, <1>4 DEF Inv

\* The steps before the first line of symbol_config.ini.
LEMMA StepOpenSymbols ==
  ASSUME Inv, LoadIni \/ OpenSymbolConfig
  PROVE  Inv'
<1> USE DEF Inv
<1>1. disk' = disk /\ disk \in Disk
  BY DEF LoadIni, OpenSymbolConfig, TypeOK
<1>2. IniFile' = IniFile /\ SymbolFile' = SymbolFile /\ EndpointFile' = EndpointFile
  BY <1>1, FilesStay
<1>3. SymbolFile.lines \in Seq(SymbolLine)
  BY <1>1, FileTypes
<1>4. CASE LoadIni
  <2>1. udp_port' \in Ports
    BY <1>1, <1>4, FileTypes, IniPort DEF LoadIni
  <2>2. TypeOK'
    BY <1>4, <2>1 DEF LoadIni, TypeOK, Stages, symbolVars, endpointVars
  <2>3. ParsersInv'
    BY <1>4 DEF LoadIni, ParsersInv, NothingRead, SymbolsHalfRead, SymbolsResult,
       EndpointsHalfRead, EndpointsResult, TasksAsWritten, symbolVars, endpointVars
  <2> QED BY <2>2, <2>3
<1>5. CASE OpenSymbolConfig
  <2> USE <1>5 DEF OpenSymbolConfig, symbolVars, endpointVars
  <2>1. TypeOK'
    BY DEF TypeOK, Stages
  <2>2. /\ pos = 1 /\ current_exchange = NoExchange /\ current_sessions = << >>
        /\ exchanges = Nothing /\ ~symbol_config
        /\ current_settings = Nothing /\ endpoints = Nothing
    BY DEF ParsersInv, NothingRead
  <2>3. SymbolsHalfRead'
    <3>1. 1 \in 1 .. Len(SymbolFile.lines) + 1
      BY <1>3
    <3> QED BY <1>2, <1>3, <2>2, <3>1, SymbolsBegin DEF SymbolsHalfRead
  <2>4. SymbolsResult'
    BY <1>2, <2>2 DEF SymbolsResult
  <2>5. NothingRead'
    BY <2>2 DEF NothingRead
  <2>6. EndpointsHalfRead' /\ EndpointsResult' /\ TasksAsWritten'
    BY DEF EndpointsHalfRead, EndpointsResult, TasksAsWritten
  <2> QED BY <2>1, <2>3, <2>4, <2>5, <2>6 DEF ParsersInv
<1> QED BY <1>4, <1>5

\* The steps of SymbolConfig::parse.
LEMMA StepSymbols ==
  ASSUME Inv,
         SymbolHeader \/ SymbolLineSkipped \/ SessionLine \/ MalformedLine \/ EndOfSymbols
  PROVE  Inv'
<1> USE DEF Inv
<1> DEFINE f == SymbolFile.lines
<1>1. /\ disk' = disk /\ disk \in Disk
      /\ stage = "symbols"
      /\ UNCHANGED << udp_port, current_settings, endpoints, tasks >>
  BY DEF SymbolHeader, SymbolLineSkipped, SessionLine, MalformedLine, EndOfSymbols, TypeOK,
         SymbolLineIs, endpointVars, symbolVars
<1>2. SymbolFile' = SymbolFile /\ EndpointFile' = EndpointFile /\ f' = f
  BY <1>1, FilesStay
<1>3. f \in Seq(SymbolLine)
  BY <1>1, FileTypes
<1>4. /\ SymbolFile.state = "readable"
      /\ pos \in 1 .. Len(f) + 1
      /\ SymbolsReadTo(f, pos, current_exchange, current_sessions, exchanges)
      /\ ~symbol_config /\ current_settings = Nothing /\ endpoints = Nothing
  BY <1>1 DEF ParsersInv, NothingRead, SymbolsHalfRead
<1>5. /\ current_exchange \in Exchanges \cup {NoExchange}
      /\ current_sessions \in Seq(SessionRecord)
      /\ DOMAIN exchanges \subseteq Exchanges
      /\ \A n \in DOMAIN exchanges : exchanges[n] \in Seq(SessionRecord)
  BY DEF TypeOK
<1>6. << >> \in Seq(SessionRecord) /\ DOMAIN Nothing = {}
  BY DEF Nothing
<1>7. ASSUME current_exchange # NoExchange
      PROVE  LET new == Insert(exchanges, current_exchange, current_sessions)
             IN  /\ DOMAIN new \subseteq Exchanges
                 /\ \A n \in DOMAIN new : new[n] \in Seq(SessionRecord)
  BY <1>5, <1>7, InsertTypes
<1> HIDE DEF f
<1>8. ASSUME /\ stage' = "symbols"
             /\ pos' \in 1 .. Len(f) + 1
             /\ SymbolsReadTo(f, pos', current_exchange', current_sessions', exchanges')
             /\ symbol_config' = symbol_config
             /\ current_exchange' \in Exchanges \cup {NoExchange}
             /\ current_sessions' \in Seq(SessionRecord)
             /\ DOMAIN exchanges' \subseteq Exchanges
             /\ \A n \in DOMAIN exchanges' : exchanges'[n] \in Seq(SessionRecord)
      PROVE  Inv'
  <2>1. TypeOK'
    <3>1. pos' \in Nat
      BY <1>3, <1>8
    <3> QED BY <1>1, <1>8, <3>1 DEF TypeOK, Stages
  <2>2. NothingRead' /\ SymbolsHalfRead'
    BY <1>1, <1>2, <1>4, <1>8 DEF NothingRead, SymbolsHalfRead, f
  <2>3. SymbolsResult' /\ EndpointsHalfRead' /\ EndpointsResult' /\ TasksAsWritten'
    BY <1>8 DEF SymbolsResult, EndpointsHalfRead, EndpointsResult, TasksAsWritten
  <2> QED BY <2>1, <2>2, <2>3 DEF ParsersInv
<1>9. ASSUME /\ stage' = "open_endpoints"
             /\ pos' = 1
             /\ current_exchange' = NoExchange
             /\ current_sessions' = << >>
             /\ symbol_config' \in BOOLEAN
             /\ symbol_config' <=> ~Spoilt(f)
             /\ symbol_config' => SymbolsRead(f, exchanges')
             /\ DOMAIN exchanges' \subseteq Exchanges
             /\ \A n \in DOMAIN exchanges' : exchanges'[n] \in Seq(SessionRecord)
      PROVE  Inv'
  <2>1. TypeOK'
    BY <1>1, <1>6, <1>9 DEF TypeOK, Stages
  <2>2. NothingRead' /\ SymbolsHalfRead'
    BY <1>1, <1>4, <1>9 DEF NothingRead, SymbolsHalfRead
  <2>3. SymbolsResult'
    BY <1>2, <1>4, <1>9 DEF SymbolsResult, f
  <2>4. EndpointsHalfRead' /\ EndpointsResult' /\ TasksAsWritten'
    BY <1>9 DEF EndpointsHalfRead, EndpointsResult, TasksAsWritten
  <2> QED BY <2>1, <2>2, <2>3, <2>4 DEF ParsersInv
<1>10. ASSUME pos <= Len(f)
       PROVE  pos \in 1 .. Len(f) /\ pos + 1 \in 1 .. Len(f) + 1
  BY <1>3, <1>4, <1>10
<1>11. CASE SymbolHeader
  <2>1. /\ pos <= Len(f) /\ f[pos].kind = "section" /\ pos' = pos + 1
        /\ stage' = "symbols" /\ symbol_config' = symbol_config
        /\ current_exchange' = f[pos].name
        /\ current_sessions' = IF current_exchange = NoExchange THEN current_sessions ELSE << >>
        /\ exchanges' = IF current_exchange = NoExchange THEN exchanges
                        ELSE Insert(exchanges, current_exchange, current_sessions)
    BY <1>1, <1>11 DEF SymbolHeader, SymbolLineIs, NextLine, SaveSection, f
  <2>2. SymbolsReadTo(f, pos', current_exchange', current_sessions', exchanges')
    BY <1>3, <1>4, <1>5, <1>10, <2>1, SymbolsHeader
  <2>3. current_exchange' \in Exchanges
    BY <1>3, <1>10, <2>1, SymbolLineTypes
  <2> QED BY <1>5, <1>6, <1>7, <1>8, <1>10, <2>1, <2>2, <2>3
<1>12. CASE SymbolLineSkipped
  <2>1. /\ pos <= Len(f) /\ pos' = pos + 1 /\ stage' = "symbols"
        /\ UNCHANGED << current_exchange, current_sessions, exchanges, symbol_config >>
        /\ f[pos].kind = "comment" \/ (f[pos].kind # "section" /\ current_exchange = NoExchange)
    BY <1>1, <1>12 DEF SymbolLineSkipped, SymbolLineIs, NextLine, symbolVars, f
  <2>2. SymbolsReadTo(f, pos', current_exchange', current_sessions', exchanges')
    BY <1>3, <1>4, <1>5, <1>10, <2>1, SymbolsSkip
  <2> QED BY <1>5, <1>8, <1>10, <2>1, <2>2
<1>13. CASE SessionLine
  <2> DEFINE new == [port |-> parse_symbol_line(f[pos]), line |-> pos]
  <2>1. /\ pos <= Len(f) /\ pos' = pos + 1 /\ stage' = "symbols"
        /\ UNCHANGED << current_exchange, exchanges, symbol_config >>
        /\ f[pos].kind \in {"session", "portless"} /\ current_exchange # NoExchange
        /\ current_sessions' = Append(current_sessions, new)
    BY <1>1, <1>13 DEF SessionLine, SymbolLineIs, NextLine, f
  <2>2. SymbolsReadTo(f, pos', current_exchange', current_sessions', exchanges')
    BY <1>3, <1>4, <1>5, <1>10, <2>1, SymbolsSession
  <2>3. new \in SessionRecord
    <3>1. parse_symbol_line(f[pos]) \in Ports /\ pos \in Nat
      BY <1>3, <1>10, <2>1, SymbolLineTypes
    <3> QED BY <3>1 DEF SessionRecord
  <2> HIDE DEF new
  <2>4. current_sessions' \in Seq(SessionRecord)
    BY <1>5, <2>1, <2>3
  <2> QED BY <1>5, <1>8, <1>10, <2>1, <2>2, <2>4
<1>14. CASE MalformedLine
  <2>1. /\ pos <= Len(f) /\ f[pos].kind = "malformed" /\ current_exchange # NoExchange
        /\ stage' = "open_endpoints" /\ pos' = 1 /\ current_exchange' = NoExchange
        /\ current_sessions' = << >> /\ exchanges' = Nothing /\ symbol_config' = symbol_config
    BY <1>14 DEF MalformedLine, SymbolLineIs, f
  <2>2. Spoilt(f)
    BY <1>3, <1>4, <1>10, <2>1, SymbolsSpoilt
  <2>3. DOMAIN exchanges' = {} /\ symbol_config' = FALSE
    <3>1. symbol_config \in BOOLEAN
      BY DEF TypeOK
    <3> QED BY <1>4, <1>6, <2>1, <3>1
  <2> QED BY <1>9, <2>1, <2>2, <2>3
<1>15. CASE EndOfSymbols
  <2>1. /\ pos > Len(f) /\ stage' = "open_endpoints" /\ pos' = 1
        /\ current_exchange' = NoExchange /\ current_sessions' = << >> /\ symbol_config' = TRUE
        /\ exchanges' = IF current_exchange = NoExchange THEN exchanges
                        ELSE Insert(exchanges, current_exchange, current_sessions)
    BY <1>15 DEF EndOfSymbols, SaveSection, f
  <2>2. pos = Len(f) + 1
    BY <1>3, <1>4, <2>1
  <2>3. ~Spoilt(f) /\ SymbolsRead(f, exchanges')
    BY <1>3, <1>4, <1>5, <2>1, <2>2, SymbolsEnd
  <2> QED BY <1>5, <1>7, <1>9, <2>1, <2>3
<1> QED BY <1>11, <1>12, <1>13, <1>14, <1>15

\* Without a section there is no endpoint.
LEMMA LeavesNothing ==
  ASSUME NEW f PROVE Leaves(Nothing, f, {})
BY DEF Leaves, CompleteAmong, LastOfName, Nothing

\* The steps of EndpointConfig::load.
LEMMA StepEndpoints ==
  ASSUME Inv,
         \/ OpenEndpointConfig \/ EndpointHeader \/ EndpointComment \/ EndpointSetting
         \/ EndOfEndpoints
  PROVE  Inv'
<1> USE DEF Inv
<1> DEFINE f == EndpointFile.lines
<1>1. /\ disk' = disk /\ disk \in Disk
      /\ stage \in {"open_endpoints", "endpoints"}
      /\ UNCHANGED << udp_port, current_sessions, exchanges, symbol_config, tasks >>
  BY DEF OpenEndpointConfig, EndpointHeader, EndpointComment, EndpointSetting, EndOfEndpoints,
         EndpointLineIs, TypeOK, symbolVars, endpointVars
<1>2. SymbolFile' = SymbolFile /\ EndpointFile' = EndpointFile /\ f' = f
  BY <1>1, FilesStay
<1>3. f \in Seq(EndpointLine) /\ (EndpointFile.state # "readable" => f = << >>)
  BY <1>1, FileTypes
<1>4. stage = "endpoints" =>
        /\ pos \in 1 .. Len(f) + 1
        /\ EndpointsReadTo(f, pos, current_exchange, current_settings, endpoints)
  BY DEF ParsersInv, EndpointsHalfRead
<1>5. /\ current_exchange \in Exchanges \cup {NoExchange}
      /\ pos \in Nat
      /\ DOMAIN current_settings \subseteq EndpointKeys
      /\ \A k \in DOMAIN current_settings : current_settings[k] \in Values
      /\ DOMAIN endpoints \subseteq Exchanges
      /\ \A n \in DOMAIN endpoints : endpoints[n] \in ExchangeEndpoint
  BY DEF TypeOK
<1>6. parse_exchange_settings(current_settings) \in ExchangeEndpoint
  BY DEF parse_exchange_settings, ExchangeEndpoint
<1>7. ASSUME current_exchange # NoExchange
      PROVE  LET new == Insert(endpoints, current_exchange,
                               parse_exchange_settings(current_settings))
             IN  /\ DOMAIN new \subseteq Exchanges
                 /\ \A n \in DOMAIN new : new[n] \in ExchangeEndpoint
  BY <1>5, <1>6, <1>7, InsertTypes
<1> HIDE DEF f
<1>8. ASSUME /\ stage' \in {"endpoints", "spawn"}
             /\ pos' \in Nat
             /\ stage' = "endpoints" =>
                  /\ pos' \in 1 .. Len(f) + 1
                  /\ EndpointsReadTo(f, pos', current_exchange', current_settings', endpoints')
             /\ stage' = "spawn" => Leaves(endpoints', f, Headers(f))
             /\ current_exchange' \in Exchanges \cup {NoExchange}
             /\ DOMAIN current_settings' \subseteq EndpointKeys
             /\ \A k \in DOMAIN current_settings' : current_settings'[k] \in Values
             /\ DOMAIN endpoints' \subseteq Exchanges
             /\ \A n \in DOMAIN endpoints' : endpoints'[n] \in ExchangeEndpoint
      PROVE  Inv'
  <2>1. TypeOK'
    BY <1>1, <1>8 DEF TypeOK, Stages
  <2>2. SymbolsResult'
    BY <1>1, <1>2, <1>8 DEF ParsersInv, SymbolsResult
  <2>3. EndpointsHalfRead' /\ EndpointsResult'
    BY <1>2, <1>8 DEF EndpointsHalfRead, EndpointsResult, f
  <2>4. NothingRead' /\ SymbolsHalfRead' /\ TasksAsWritten'
    BY <1>8 DEF NothingRead, SymbolsHalfRead, TasksAsWritten
  <2> QED BY <2>1, <2>2, <2>3, <2>4 DEF ParsersInv
<1>9. ASSUME pos <= Len(f), stage = "endpoints"
      PROVE  pos \in 1 .. Len(f) /\ pos + 1 \in 1 .. Len(f) + 1 /\ pos + 1 \in Nat
  BY <1>3, <1>4, <1>9
<1>10. CASE OpenEndpointConfig
  <2>1. /\ stage' = IF EndpointFile.state = "readable" THEN "endpoints" ELSE "spawn"
        /\ UNCHANGED << pos, current_exchange, current_settings, endpoints >>
        /\ pos = 1 /\ current_exchange = NoExchange
        /\ current_settings = Nothing /\ endpoints = Nothing
    BY <1>10 DEF OpenEndpointConfig, ParsersInv, NothingRead, endpointVars
  <2>2. EndpointsReadTo(f, pos', current_exchange', current_settings', endpoints')
    BY <1>3, <2>1, EndpointsBegin
  <2>3. ASSUME stage' = "spawn" PROVE Leaves(endpoints', f, Headers(f))
    <3>1. f = << >>
      BY <1>3, <2>1, <2>3
    <3>2. Headers(f) = {}
      BY <3>1 DEF Headers
    <3> QED BY <2>1, <3>2, LeavesNothing
  <2>4. 1 \in 1 .. Len(f) + 1
    BY <1>3
  <2>5. stage' \in {"endpoints", "spawn"}
    BY <2>1
  <2> QED BY <1>5, <1>8, <2>1, <2>2, <2>3, <2>4, <2>5
<1>11. CASE EndpointHeader
  <2>1. /\ stage = "endpoints" /\ stage' = "endpoints"
        /\ pos <= Len(f) /\ f[pos].kind = "section" /\ pos' = pos + 1
        /\ current_exchange' = f[pos].name
        /\ current_settings' = IF current_exchange = NoExchange THEN current_settings ELSE Nothing
        /\ endpoints' = IF current_exchange # NoExchange /\ Complete(current_settings)
                        THEN Insert(endpoints, current_exchange,
                                    parse_exchange_settings(current_settings))
                        ELSE endpoints
    BY <1>11 DEF EndpointHeader, EndpointLineIs, NextLine, SaveEndpoint, SettingsAfterHeader, f
  <2>2. EndpointsReadTo(f, pos', current_exchange', current_settings', endpoints')
    BY <1>3, <1>4, <1>5, <1>9, <2>1, EndpointsHeader
  <2>3. current_exchange' \in Exchanges
    BY <1>3, <1>9, <2>1, EndpointLineTypes
  <2>4. /\ DOMAIN current_settings' \subseteq EndpointKeys
        /\ \A k \in DOMAIN current_settings' : current_settings'[k] \in Values
    BY <1>5, <2>1 DEF Nothing
  <2>5. /\ DOMAIN endpoints' \subseteq Exchanges
        /\ \A n \in DOMAIN endpoints' : endpoints'[n] \in ExchangeEndpoint
    BY <1>5, <1>7, <2>1
  <2> QED BY <1>8, <1>9, <2>1, <2>2, <2>3, <2>4, <2>5
<1>12. CASE EndpointComment
  <2>1. /\ stage = "endpoints" /\ stage' = "endpoints"
        /\ pos <= Len(f) /\ f[pos].kind = "comment" /\ pos' = pos + 1
        /\ UNCHANGED << current_exchange, current_settings, endpoints >>
    BY <1>12 DEF EndpointComment, EndpointLineIs, NextLine, endpointVars, f
  <2>2. EndpointsReadTo(f, pos', current_exchange', current_settings', endpoints')
    BY <1>3, <1>4, <1>9, <2>1, EndpointsSkip
  <2> QED BY <1>5, <1>8, <1>9, <2>1, <2>2
<1>13. CASE EndpointSetting
  <2>1. /\ stage = "endpoints" /\ stage' = "endpoints"
        /\ pos <= Len(f) /\ f[pos].kind = "setting" /\ pos' = pos + 1
        /\ UNCHANGED << current_exchange, endpoints >>
        /\ current_settings' = Insert(current_settings, f[pos].key, f[pos].value)
    BY <1>13 DEF EndpointSetting, EndpointLineIs, NextLine, f
  <2>2. EndpointsReadTo(f, pos', current_exchange', current_settings', endpoints')
    BY <1>3, <1>4, <1>9, <2>1, EndpointsSetting
  <2>3. f[pos].key \in EndpointKeys /\ f[pos].value \in Values
    BY <1>3, <1>9, <2>1, EndpointLineTypes
  <2>4. /\ DOMAIN current_settings' \subseteq EndpointKeys
        /\ \A k \in DOMAIN current_settings' : current_settings'[k] \in Values
    BY <1>5, <2>1, <2>3, InsertTypes
  <2> QED BY <1>5, <1>8, <1>9, <2>1, <2>2, <2>4
<1>14. CASE EndOfEndpoints
  <2>1. /\ stage = "endpoints" /\ stage' = "spawn"
        /\ pos > Len(f) /\ pos' = pos
        /\ current_exchange' = NoExchange /\ current_settings' = current_settings
        /\ endpoints' = IF current_exchange # NoExchange /\ Complete(current_settings)
                        THEN Insert(endpoints, current_exchange,
                                    parse_exchange_settings(current_settings))
                        ELSE endpoints
    BY <1>14 DEF EndOfEndpoints, SaveEndpoint, f
  <2>2. pos = Len(f) + 1
    BY <1>3, <1>4, <2>1
  <2>3. Leaves(endpoints', f, HeadersAbove(f, pos))
    BY <1>3, <1>4, <1>5, <2>1, <2>2, EndpointStored
  <2>4. Leaves(endpoints', f, Headers(f))
    BY <1>3, <2>2, <2>3, AboveEnds
  <2>5. /\ DOMAIN endpoints' \subseteq Exchanges
        /\ \A n \in DOMAIN endpoints' : endpoints'[n] \in ExchangeEndpoint
    BY <1>5, <1>7, <2>1
  <2> QED BY <1>5, <1>8, <2>1, <2>4, <2>5
<1> QED BY <1>10, <1>11, <1>12, <1>13, <1>14

\* The tasks that ConnectionManager::run spawns.
LEMMA StepRun ==
  ASSUME Inv, Run
  PROVE  Inv'
<1> USE DEF Inv
<1> DEFINE f == SymbolFile.lines
           e == EndpointFile.lines
           Named == {f[h].name : h \in Headers(f)}
           Spawned(n) == {[exchange |-> n, line |-> exchanges[n][i].line,
                           port |-> exchanges[n][i].port,
                           target |-> connect_target(n)] : i \in DOMAIN exchanges[n]}
           Written(n) == {[exchange |-> n, line |-> i, port |-> parse_symbol_line(f[i]),
                           target |-> TargetAsWritten(e, n)] : i \in SessionLines(f, n)}
<1>1. /\ disk' = disk /\ disk \in Disk
      /\ stage = "spawn" /\ stage' = "running"
      /\ UNCHANGED << pos, udp_port, current_exchange, current_sessions, exchanges,
                      symbol_config, current_settings, endpoints >>
  BY DEF Run, TypeOK, symbolVars, endpointVars
<1>2. SymbolFile' = SymbolFile /\ EndpointFile' = EndpointFile
  BY <1>1, FilesStay
<1>3. /\ f \in Seq(SymbolLine) /\ e \in Seq(EndpointLine)
      /\ EndpointFile.state # "readable" => e = << >>
  BY <1>1, FileTypes
<1>4. /\ Leaves(endpoints, e, Headers(e))
      /\ symbol_config => SymbolsRead(f, exchanges)
  BY <1>1 DEF ParsersInv, EndpointsResult, SymbolsResult
<1>5. tasks' = IF symbol_config
               THEN UNION {Spawned(n) : n \in DOMAIN exchanges}
               ELSE {[exchange |-> BuiltIn, line |-> 0, port |-> udp_port,
                      target |-> "default"]}
  BY DEF Run
<1>6. ASSUME NEW n PROVE connect_target(n) = TargetAsWritten(e, n)
  BY <1>3, <1>4, TargetsAsWritten
<1>7. ASSUME NEW n PROVE connect_target(n) \in Targets
  BY DEF connect_target, Targets, build_default_websocket_url,
         build_websocket_url_from_endpoint
<1>8. tasks' \subseteq Task
  <2>1. CASE symbol_config
    <3>1. ASSUME NEW n \in DOMAIN exchanges, NEW i \in DOMAIN exchanges[n]
          PROVE  [exchange |-> n, line |-> exchanges[n][i].line,
                  port |-> exchanges[n][i].port, target |-> connect_target(n)] \in Task
      <4>1. n \in Exchanges /\ exchanges[n] \in Seq(SessionRecord)
        BY DEF TypeOK
      <4>2. exchanges[n][i] \in SessionRecord
        BY <4>1
      <4> QED BY <1>7, <4>1, <4>2 DEF SessionRecord, Task
    <3> QED BY <1>5, <2>1, <3>1
  <2>2. CASE ~symbol_config
    <3>1. udp_port \in Ports /\ BuiltIn \in Exchanges \cup {BuiltIn} /\ "default" \in Targets
          /\ 0 \in Nat
      BY DEF TypeOK, Targets
    <3> QED BY <1>5, <2>2, <3>1 DEF Task
  <2> QED BY <2>1, <2>2
<1>9. ASSUME symbol_config
      PROVE  tasks' = UNION {Written(n) : n \in Named}
  <2>1. DOMAIN exchanges = Named
    BY <1>4, <1>9 DEF SymbolsRead
  <2>2. ASSUME NEW n \in Named PROVE Spawned(n) = Written(n)
    <3>1. Lists(exchanges[n], f, SessionLines(f, n))
      BY <1>3, <1>4, <1>9, SymbolsAsWritten
    <3>2. /\ {exchanges[n][i].line : i \in DOMAIN exchanges[n]} = SessionLines(f, n)
          /\ \A i \in DOMAIN exchanges[n] :
               exchanges[n][i].port = parse_symbol_line(f[exchanges[n][i].line])
      BY <3>1 DEF Lists
    <3>3. Spawned(n) = {[exchange |-> n, line |-> exchanges[n][i].line,
                         port |-> parse_symbol_line(f[exchanges[n][i].line]),
                         target |-> TargetAsWritten(e, n)] : i \in DOMAIN exchanges[n]}
      BY <1>6, <3>2
    <3> QED BY <3>2, <3>3
  <2> HIDE DEF Spawned, Written, Named
  <2> QED BY <1>5, <1>9, <2>1, <2>2
<1>10. TypeOK'
  BY <1>1, <1>8 DEF TypeOK, Stages
<1>11. NothingRead' /\ SymbolsHalfRead' /\ EndpointsHalfRead'
  BY <1>1 DEF NothingRead, SymbolsHalfRead, EndpointsHalfRead
<1>12. SymbolsResult' /\ EndpointsResult'
  BY <1>1, <1>2 DEF ParsersInv, SymbolsResult, EndpointsResult
<1>13. TasksAsWritten'
  <2>1. (IF EndpointFile.state = "readable" THEN EndpointFile.lines ELSE << >>) = e
    BY <1>3
  <2>2. symbol_config' => tasks' = UNION {Written(n) : n \in Named}
    BY <1>1, <1>9
  <2> QED BY <1>2, <2>1, <2>2 DEF TasksAsWritten
<1> QED BY <1>10, <1>11, <1>12, <1>13 DEF ParsersInv

\* Every step of start-up keeps the invariant.
LEMMA ConfigStep ==
  ASSUME Inv, [Next]_vars
  PROVE  Inv'
<1>1. CASE UNCHANGED vars
  <2>1. TypeOK'
    BY <1>1 DEF Inv, TypeOK, vars
  <2>2. IniFile' = IniFile /\ SymbolFile' = SymbolFile /\ EndpointFile' = EndpointFile
    BY <1>1, FilesStay DEF vars
  <2>3. NothingRead' /\ SymbolsHalfRead' /\ SymbolsResult'
    BY <1>1, <2>2 DEF Inv, ParsersInv, NothingRead, SymbolsHalfRead, SymbolsResult, vars
  <2>4. EndpointsHalfRead' /\ EndpointsResult' /\ TasksAsWritten'
    BY <1>1, <2>2 DEF Inv, ParsersInv, EndpointsHalfRead, EndpointsResult, TasksAsWritten, vars
  <2> QED BY <2>1, <2>3, <2>4 DEF Inv, ParsersInv
<1> QED BY <1>1, StepOpenSymbols, StepSymbols, StepEndpoints, StepRun DEF Next

\* The inductive invariant of start-up: the type invariant, and the parsers hold
\* in front of every line what the lines above say.
THEOREM ConfigInvariant == Spec => []Inv
BY ConfigInit, ConfigStep, PTL DEF Spec

\* The variables of Config::load and run keep their types, for any files.
THEOREM TypeCorrect == Spec => []TypeOK
<1>1. Inv => TypeOK
  BY DEF Inv
<1> QED BY <1>1, ConfigInvariant, PTL

\* symbol_config.ini is read as it is written, for files of any length: it is given
\* up exactly if a line of a section is malformed, and otherwise every exchange
\* has the sessions of its last section, in order (SymbolConfig::parse).
THEOREM SectionsAsWrittenTheorem == Spec => []SectionsAsWritten
<1>1. ASSUME Inv PROVE SectionsAsWritten
  <2> DEFINE f == SymbolFile.lines
  <2>1. SUFFICES ASSUME stage \in {"spawn", "running"}
                 PROVE  /\ symbol_config <=> SymbolFile.state = "readable" /\ ~Spoilt(f)
                        /\ symbol_config =>
                             /\ DOMAIN exchanges = {f[h].name : h \in Headers(f)}
                             /\ \A n \in DOMAIN exchanges :
                                  /\ {exchanges[n][i].line : i \in DOMAIN exchanges[n]} =
                                       SessionLines(f, n)
                                  /\ \A i, j \in DOMAIN exchanges[n] :
                                       i < j => exchanges[n][i].line < exchanges[n][j].line
    BY DEF SectionsAsWritten
  <2>2. f \in Seq(SymbolLine)
    BY <1>1, FileTypes DEF Inv, TypeOK
  <2>3. /\ symbol_config <=> SymbolFile.state = "readable" /\ ~Spoilt(f)
        /\ symbol_config => SymbolsRead(f, exchanges)
    BY <1>1, <2>1 DEF Inv, ParsersInv, SymbolsResult
  <2> HIDE DEF f
  <2>4. ASSUME symbol_config
        PROVE  DOMAIN exchanges = {f[h].name : h \in Headers(f)}
    BY <2>3, <2>4 DEF SymbolsRead
  <2>5. ASSUME symbol_config, NEW n \in DOMAIN exchanges
        PROVE  Lists(exchanges[n], f, SessionLines(f, n))
    BY <2>2, <2>3, <2>4, <2>5, SymbolsAsWritten
  <2> QED BY <2>3, <2>4, <2>5 DEF Lists
<1> QED BY <1>1, ConfigInvariant, PTL

\* The tasks that run are the session lines of symbol_config.ini, each on its port
\* and connecting where the last complete section of endpoint.ini says, for files
\* of any length (ConnectionManager::run, connect_to_symbol_session).
THEOREM TasksAsWrittenTheorem == Spec => []TasksAsWritten
<1>1. Inv => TasksAsWritten
  BY DEF Inv, ParsersInv
<1> QED BY <1>1, ConfigInvariant, PTL
=============================================================================
