--------------------------- MODULE MCFeederConfig ---------------------------
(***************************************************************************)
(* FeederConfig on every pair of short files: all symbol_config.ini files  *)
(* of up to MaxSymbolLines lines beside a few of endpoint.ini, and all     *)
(* endpoint.ini files of up to MaxEndpointLines lines beside one that      *)
(* names every exchange, and on searches that meet the file in a later     *)
(* directory, unreadable or nowhere.                                       *)
(***************************************************************************)
EXTENDS FeederConfig

CONSTANTS
  MaxSymbolLines,    \* bound: lines of symbol_config.ini
  MaxEndpointLines   \* bound: lines of endpoint.ini

MCExchanges == {"BinanceSpot", "OkxSpot"}

MCPorts == {DefaultPort, 0, 1, 2}

SymbolLines ==
  {Comment, Malformed, Portless, Session(1), Section("BinanceSpot"), Section("OkxSpot")}

EndpointLines ==
  {Section("BinanceSpot"), Section("OkxSpot"),
   Setting("ws_url_base", "good"), Setting("ws_url_base", "bad"),
   Setting("timeout_ms", "good"),
   Setting("enabled", "good"), Setting("enabled", "false")}

TwoExchanges ==
  << Section("BinanceSpot"), Session(1), Comment, Session(2), Section("OkxSpot"), Portless >>

Enabled(n) ==
  << Section(n), Setting("ws_url_base", "good"), Setting("timeout_ms", "bad"),
     Setting("other", "good"), Setting("enabled", "good") >>

\* Settings of two sections, the second without `enabled`; a comment.
TwoEndpoints ==
  Enabled("BinanceSpot")
    \o << Comment, Section("OkxSpot"), Setting("timeout_ms", "good"),
          Setting("ws_url_base", "good"), Setting("enabled", "bad") >>

PortOne == << Section("BinanceSpot"), Setting("port", 2), Comment,
              Setting("other", NotANumber), Setting("port", 1) >>

FilesOf(Line, max) == UNION {[1 .. n -> Line] : n \in 0 .. max}

AnySymbols ==
  [ini : {<< Missing >>}, symbols : {<< File(f) >> : f \in FilesOf(SymbolLines, MaxSymbolLines)},
   endpoints : {<< File(<< >>) >>, << File(TwoEndpoints) >>}]

AnyEndpoints ==
  [ini : {<< Missing >>}, symbols : {<< File(TwoExchanges) >>},
   endpoints : {<< File(f) >> : f \in FilesOf(EndpointLines, MaxEndpointLines)}]

\* The same name in several directories.
Searches(f) ==
  {<< >>, << Missing, File(f) >>, << Unreadable, File(f) >>, << File(f), File(<< >>) >>}

AnySearch ==
  [ini : Searches(PortOne) \cup {<< File(<< Setting("port", v) >>) >> : v \in {0, NotANumber}},
   symbols : Searches(TwoExchanges), endpoints : Searches(TwoEndpoints)]

MCDisks == {AnySymbols, AnyEndpoints, AnySearch}
=============================================================================
