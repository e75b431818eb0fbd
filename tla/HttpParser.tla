----------------------------- MODULE HttpParser -----------------------------
(***************************************************************************)
(* The parsing functions of modules/src/http_parser.c.  Each one is an     *)
(* operator from the text it is given to what it returns: a record with    *)
(* the return code rc and, on SUCCESS, what was stored.                    *)
(***************************************************************************)
EXTENDS Text, TLC

CONSTANTS
  SchemeSize, HostSize, PortSize, PathSize   \* the arrays of URL_Parts

ASSUME UrlSizes == {SchemeSize, HostSize, PortSize, PathSize} \subseteq Nat \ {0}

BadFormat  == [rc |-> "ERR_BAD_FORMAT"]
InvalidArg == [rc |-> "ERR_INVALID_ARG"]

-----------------------------------------------------------------------------
(* http_parser_url                                                         *)

Digit == {"0", "8"}

(* The words a scheme can be, in lower case, and the ports that go with    *)
(* them.  http://h and HTTP://h mean the same.                             *)
Lower(word)  == IF word = <<"HTTP">> THEN <<"http">> ELSE word
DefaultPort  == [scheme \in {<<"http">>, <<"https">>} |->
                   IF scheme = <<"http">> THEN <<"8", "0">> ELSE <<"4", "4", "3">>]

(* Mutant: a colon anywhere begins a port.                                 *)
AnyColon(colon, slash) == colon >= 0

(* A colon begins a port only if it comes before the path.                 *)
HasPort(colon, slash) == colon >= 0 /\ (slash < 0 \/ colon < slash)

(* A part fits if it is not empty and leaves room for the NUL.             *)
Fits(part, size) == Len(part) \in 1..(size - 1)

http_parser_url(url) ==
    LET schemeEnd == Before(url, <<":", "/", "/">>)
        scheme    == Upto(url, schemeEnd)
        rest      == From(url, schemeEnd + 3)
        slash     == Before(rest, <<"/">>)
        colon     == Before(rest, <<":">>)
        pathStart == IF slash < 0 THEN Len(rest) ELSE slash
        withPort  == HasPort(colon, slash)
        host      == Upto(rest, IF withPort THEN colon ELSE pathStart)
        port      == SubSeq(rest, colon + 2, pathStart)
        path      == From(rest, pathStart)
    IN  IF \/ schemeEnd < 0
           \/ ~Fits(scheme, SchemeSize)
           \/ ~Fits(host, HostSize)
           \/ withPort /\ ~(Fits(port, PortSize) /\ ToSet(port) \subseteq Digit)
           \/ Len(path) >= PathSize
           \/ ~withPort /\ Lower(scheme) \notin DOMAIN DefaultPort
        THEN BadFormat
        ELSE [rc     |-> "SUCCESS",
              scheme |-> scheme,
              host   |-> host,
              port   |-> IF withPort THEN port ELSE DefaultPort[Lower(scheme)],
              path   |-> IF path = <<>> THEN <<"/">> ELSE path]

-----------------------------------------------------------------------------
(* http_parser_first_line                                                  *)

Methods == {"GET", "OPTIONS", "POST", "PUT", "DELETE", "DOWNLOAD"}

http_method_string_to_enum(method) ==
    IF method \in {<<m>> : m \in Methods} THEN method[1] ELSE "INVALID"

(* Mutant: a value runs to the end of the query.                           *)
WholeRest(value) == Len(value)

(* A value ends at the next "&", or at the end of the query.               *)
ValueEnd(value) == IF Contains(value, "&") THEN Before(value, <<"&">>) ELSE Len(value)

(* The loop over the query: a key runs to the next "=", whatever is in it; *)
(* what has no "=" any more is dropped.                                    *)
Params(query) ==
    LET params[n \in 0..(Len(query) + 1)] ==     \* ... from the n-th character on
            LET rest  == From(query, n)
                delim == Before(rest, <<"=">>)
                value == From(rest, delim + 1)
            IN  IF delim < 0 THEN <<>>
                ELSE <<[key |-> Upto(rest, delim), value |-> Upto(value, ValueEnd(value))]>>
                       \o params[n + delim + 1 + ValueEnd(value) + 1]
    IN  params[0]

(* method SP target SP version; the version may hold anything, but not     *)
(* nothing.  The target is a path and, after the first "?", a query.       *)
http_parser_first_line(line) ==
    LET first   == Before(line, <<" ">>)
        rest    == From(line, first + 1)
        second  == Before(rest, <<" ">>)
        target  == Upto(rest, second)
        version == From(rest, second + 1)
        mark    == Before(target, <<"?">>)
    IN  IF line = <<>> THEN InvalidArg
        ELSE IF first < 0 \/ second < 0 \/ version = <<>> THEN BadFormat
        ELSE [rc      |-> "SUCCESS",
              method  |-> http_method_string_to_enum(Upto(line, first)),
              path    |-> IF mark < 0 THEN target ELSE Upto(target, mark),
              params  |-> IF mark < 0 THEN <<>> ELSE Params(From(target, mark + 1)),
              version |-> version]

-----------------------------------------------------------------------------
(* http_parser_response_firstline                                          *)

(* HttpStatus_reasonPhrase: the codes that have a phrase.                  *)
KnownCodes ==
    (100..103) \cup (200..208) \cup {226} \cup ((300..308) \ {306})
      \cup (400..418) \cup (421..426) \cup {428, 429, 431, 451}
      \cup (500..508) \cup {510, 511}
HttpStatus_reasonPhrase(code) ==
    IF code \in KnownCodes THEN <<"phrase", ToString(code)>> ELSE <<"NULL">>

(* parse_string_to_int of a status: numbers are words, and what is not a   *)
(* number leaves the int at the 0 it was given.                            *)
Numbers == [word \in {ToString(n) : n \in 0..999} |-> CHOOSE n \in 0..999 : ToString(n) = word]
StatusNumber(status) ==
    IF Len(status) = 1 /\ status[1] \in DOMAIN Numbers THEN Numbers[status[1]] ELSE 0

(* Mutant: the phrase is not compared.                                     *)
AnyPhrase(reason, code) == TRUE

(* strcmp with the standard phrase.                                        *)
SamePhrase(reason, code) == reason = HttpStatus_reasonPhrase(code)

(* version SP status SP reason, kept as strings; the number is compared    *)
(* with and not kept.  Where there is no standard phrase, strcmp is called *)
(* with NULL, and what happens is undefined.                               *)
http_parser_response_firstline(line) ==
    LET first  == Before(line, <<" ">>)
        rest   == From(line, first + 1)
        second == Before(rest, <<" ">>)
        code   == StatusNumber(Upto(rest, second))
        reason == From(rest, second + 1)
    IN  IF line = <<>> THEN InvalidArg
        ELSE IF first < 0 \/ second < 0 THEN BadFormat
        ELSE IF code \notin KnownCodes THEN [rc |-> "undefined"]
        ELSE IF ~SamePhrase(reason, code) THEN BadFormat
        ELSE [rc |-> "SUCCESS", version |-> Upto(line, first),
              status_code_string |-> Upto(rest, second), reason_phrase |-> reason]

-----------------------------------------------------------------------------
(* http_parser_headers and http_parser_get_header_value                    *)

(* The lines that end in CRLF, up to the first empty one.                  *)
HeaderLines(buf) ==
    LET lines[n \in 0..Len(buf)] ==
            LET rest == From(buf, n)
                end  == LineEnd(rest)
            IN  IF end <= 0 THEN <<>> ELSE <<Upto(rest, end)>> \o lines[n + end + 2]
    IN  lines[0]

TrimValue(text) == TrimRight(TrimLeft(text, {" ", "TAB"}), {" ", "TAB", "CR", "LF"})

(* Blanks before a key stay.                                               *)
HeaderOf(line) ==
    LET colon == Before(line, <<":">>)
    IN  [key   |-> TrimRight(Upto(line, colon), {" ", "TAB", "CR", "LF"}),
         value |-> TrimValue(From(line, colon + 1))]

http_parser_headers(buf) ==
    LET lines == HeaderLines(buf)
    IN  IF \E i \in DOMAIN lines : ~Contains(lines[i], ":") THEN BadFormat
        ELSE [rc |-> "SUCCESS", headers |-> [i \in DOMAIN lines |-> HeaderOf(lines[i])]]

(* The first header of exactly this name.                                  *)
http_parser_get_header_value(headers, name) ==
    LET at == {i \in DOMAIN headers : headers[i].key = name}
    IN  IF at = {} THEN [rc |-> "ERR_NOT_FOUND"]
        ELSE [rc |-> "SUCCESS", value |-> headers[Min(at)].value]
=============================================================================
