----------------------------- MODULE Utilities ------------------------------
(***************************************************************************)
(* The functions of the library that can be judged by one call, or by one  *)
(* short sequence of calls: the HTTP parser, the configuration reader, the *)
(* time and file utilities, the log, the buffers of the TCP client and of  *)
(* the curl wrapper.  call is the call in progress, with its arguments and *)
(* its result; each property says, for the functions of one part, what the *)
(* result must be, by a definition that does not follow the code.          *)
(***************************************************************************)
EXTENDS HttpParser, ConfigHandler, TimeUtils, FileUtils, FileLogging, TcpData, CurlWrapper

CONSTANTS
  Urls, RequestLines, StatusLines,   \* the texts that are parsed
  HeaderBlocks,                      \* [buf, lines, names]: see ResponseHeadExact
  ConfigFiles,                       \* sequences of [text, key, value]: see ConfigExact
  ConfigKeys, ValueSizes,            \* the keys asked for, the sizes of the arrays
  Times, Offsets,                    \* broken-down times; offsets from UTC in hours
  Clock, Timeouts,                   \* milliseconds
  Directories, Extension,            \* what is listed
  Messages, Answers,                 \* what is sent, and what send answers
  Failures                           \* sets of allocations that fail

ASSUME UrlAssumption == Urls \subseteq Seq(STRING)

(* The uptime stays far below the 2^64 ms of the clock, and a timeout is   *)
(* an int.                                                                 *)
ASSUME ClockAssumption ==
    /\ Clock \subseteq 0..(ClockRange - 2 * (ClockMax + 1) - 1)
    /\ Timeouts \subseteq -(ClockMax + 1)..ClockMax

VARIABLE call

Idle == [fn |-> "none"]
Init == call = Idle

Call(fn, in, out) == call' = [fn |-> fn, in |-> in, out |-> out]
Return == call # Idle /\ call' = Idle

(* The parsers allocate, and give up when they cannot.                     *)
OrNoMemory(out) == {out, [rc |-> "ERR_NO_MEMORY"]}

ParseUrl == \E u \in Urls : Call("url", u, http_parser_url(u))
ParseRequestLine ==
    \E l \in RequestLines : \E out \in OrNoMemory(http_parser_first_line(l)) :
        Call("request", l, out)
ParseStatusLine ==
    \E l \in StatusLines : \E out \in OrNoMemory(http_parser_response_firstline(l)) :
        Call("status", l, out)
ParseHeaders ==
    \E b \in HeaderBlocks : \E out \in OrNoMemory(http_parser_headers(b.buf)) :
        Call("headers", b, out)
GetHeader ==
    /\ call.fn = "headers"
    /\ call.out.rc = "SUCCESS"
    /\ \E name \in call.in.names :
          call' = [fn |-> "get_header", in |-> [block |-> call.in, name |-> name],
                   out |-> http_parser_get_header_value(call.out.headers, name)]

FileText(lines) == FlattenSeq([i \in DOMAIN lines |-> lines[i].text])

(* fopen may fail.                                                         *)
GetConfigValue ==
    \E f \in ConfigFiles, n \in ValueSizes :
        LET in == [lines |-> f, size |-> n] IN
        \/ Call("get_value", in, config_get_value(FileText(f), ConfigKeys, n))
        \/ Call("get_value", in, [rc |-> -1, values |-> <<>>])
GetConfigValues ==
    \E f \in ConfigFiles, bad \in Failures :
        LET in == [lines |-> f, bad |-> bad] IN
        \/ Call("values_get", in, config_values_get(FileText(f), ConfigKeys, bad))
        \/ Call("values_get", in, [rc |-> -1, values |-> <<>>])

Timegm   == \E tm \in Times : Call("timegm", tm, timegm(tm))
PrintThenParse ==
    \E tm \in Times, o \in Offsets :
        /\ timegm(tm).rc = "ok" /\ tm.year >= 1970
        /\ LET s == PrintFull(timegm(tm).t, o) IN
           Call("full", [t |-> timegm(tm).t, offset |-> o],
                IF s.rc = "ok" THEN ParseFull(s) ELSE s)
ReadWithOffset ==
    \E tm \in Times, o \in Offsets \cap Nat, m \in {0, 30}, d \in {"+", "-", "Z"} :
        LET s == [tm |-> tm, dir |-> d, utc_hour |-> o, utc_min |-> m] IN
        Call("read", s, ParseFull(s))
Floors ==
    \E tm \in Times :
        /\ timegm(tm).rc = "ok" /\ tm.year >= 1970
        /\ LET t == timegm(tm).t IN
           Call("floors", t, [day |-> epoch_now_day(t), hour |-> epoch_now_hour(t),
                              min |-> epoch_now_min(t), iso |-> ParseIso(PrintIso(t)),
                              short |-> ParseIso(PrintShort(t))])
LookAtClock ==
    \E now \in Clock, timeout \in Timeouts : \E start \in {s \in Clock : s <= now} :
        Call("expired", [now |-> now, start |-> start, timeout |-> timeout],
             Expired(now, start, timeout))

ListFiles ==
    \E d \in Directories, opens \in BOOLEAN, bad \in Failures :
        Call("list", [dir |-> d, opens |-> opens, bad |-> bad],
             list_filenames_with_ext(opens, d, Extension, bad))
CountFiles ==
    \E d \in Directories, opens \in BOOLEAN :
        Call("count", [dir |-> d, opens |-> opens],
             count_files_with_extension(opens, d, Extension))

(* Pieces are collected, some for which there is no memory.                *)
Collect ==
    \E pieces \in SeqOf(Messages, 3), bad \in Failures, size \in {0, 5} :
        Call("collect", [pieces |-> pieces, bad |-> bad, size |-> size],
             FoldLeftDomain(LAMBDA data, n : tcp_client_realloc_data(data, pieces[n], n \in bad),
                            [addr |-> <<>>, size |-> size], pieces))

Write == \E m \in Messages, a \in Answers : Call("write", m, tcp_client_write(m, a))

(* A Curl_Data is used twice, whatever curl_init and the first call said.  *)
CurlTwice ==
    \E first, second \in SeqOf(Messages, 2), memory, easy, ok \in BOOLEAN, bad \in Failures :
        LET before == curl_get_response(curl_init(memory), easy, first, {}, TRUE).data IN
        \E again \in BOOLEAN :
            Call("curl", [before |-> before, easy |-> again, pieces |-> second, bad |-> bad,
                          ok |-> ok],
                 curl_get_response(before, again, second, bad, ok))

Log ==
    \E ops \in SeqOf(LogOps, 5) : Call("log", ops, FoldLeft(log_call, NoLog, ops))

Next ==
    \/ /\ call = Idle
       /\ \/ ParseUrl \/ ParseRequestLine \/ ParseStatusLine \/ ParseHeaders
          \/ GetConfigValue \/ GetConfigValues
          \/ Timegm \/ PrintThenParse \/ ReadWithOffset \/ Floors \/ LookAtClock
          \/ ListFiles \/ CountFiles \/ Log
          \/ Write \/ Collect \/ CurlTwice
    \/ GetHeader
    \/ Return

Spec == Init /\ [][Next]_call

-----------------------------------------------------------------------------
(* A way to read a URL: the scheme is the first a characters, the host     *)
(* comes after "://" and ends after b, the port after c of them, and what  *)
(* is left is the path.  There is no "://" before the one after the        *)
(* scheme.                                                                 *)
SchemeEnds(u, i) == SubSeq(u, i + 1, i + 3) = <<":", "/", "/">>

UrlCut(u, a, b, c) ==
    LET scheme == SubSeq(u, 1, a)
        host   == SubSeq(u, a + 4, b)
        port   == SubSeq(u, b + 1, c)
        path   == SubSeq(u, c + 1, Len(u))
    IN  /\ a + 3 <= b /\ b <= c
        /\ SchemeEnds(u, a) /\ \A i \in 0..(a - 1) : ~SchemeEnds(u, i)
        /\ Len(scheme) \in 1..(SchemeSize - 1)
        /\ Len(host) \in 1..(HostSize - 1)
        /\ ToSet(host) \cap {":", "/"} = {}
        /\ \/ port = <<>> /\ scheme \in {<<"http">>, <<"HTTP">>, <<"https">>}
           \/ /\ Len(port) \in 2..PortSize
              /\ port[1] = ":" /\ ToSet(From(port, 1)) \subseteq Digit
        /\ path = <<>> \/ (path[1] = "/" /\ Len(path) < PathSize)

UrlParts(u, a, b, c) ==
    LET scheme == SubSeq(u, 1, a)
        port   == SubSeq(u, b + 1, c)
        path   == SubSeq(u, c + 1, Len(u))
    IN  [rc     |-> "SUCCESS",
         scheme |-> scheme,
         host   |-> SubSeq(u, a + 4, b),
         port   |-> IF port # <<>> THEN From(port, 1)
                    ELSE IF scheme = <<"https">> THEN <<"4", "4", "3">> ELSE <<"8", "0">>,
         path   |-> IF path = <<>> THEN <<"/">> ELSE path]

(* What a URL may be read as.                                              *)
UrlReadings(u) ==
    {UrlParts(u, x[1], x[2], x[3]) :
        x \in {x \in (0..Len(u)) \X (0..Len(u)) \X (0..Len(u)) : UrlCut(u, x[1], x[2], x[3])}}

(* http_parser_url accepts a URL exactly if there is a way to read it,     *)
(* there is never more than one, and nothing of it is lost or cut off.     *)
UrlExact ==
    call.fn = "url" =>
        UrlReadings(call.in) = IF call.out.rc = "SUCCESS" THEN {call.out} ELSE {}

(* The query that a list of parameters was read from.                      *)
Joined(params) ==
    FlattenSeq([i \in DOMAIN params |->
        (IF i = 1 THEN <<>> ELSE <<"&">>) \o params[i].key \o <<"=">> \o params[i].value])

(* http_parser_first_line: the parts, put together again, are the line     *)
(* that was read, but for what of the query comes after the last "=" and   *)
(* its value; it fails exactly if there is no version.                     *)
RequestLineExact ==
    call.fn = "request" /\ call.out.rc # "ERR_NO_MEMORY" =>
        LET out    == call.out
            blanks == {i \in DOMAIN call.in : call.in[i] = " "}
            first  == Min(blanks)
            second == Min(blanks \ {first})
            target == SubSeq(call.in, first + 1, second - 1)
            query  == From(target, Len(out.path) + 1)
            rest   == From(query, Len(Joined(out.params)))
        IN  IF call.in = <<>> THEN out = InvalidArg
            ELSE IF Cardinality(blanks) < 2 THEN out = BadFormat
            ELSE IF second = Len(call.in) THEN out = BadFormat
            ELSE /\ out.rc = "SUCCESS"
                 /\ out.version = From(call.in, second)
                 /\ out.method \in Methods \cup {"INVALID"}
                 /\ \A m \in Methods : (out.method = m) <=> IsPrefix(<<m, " ">>, call.in)
                 /\ IsPrefix(out.path, target) /\ "?" \notin ToSet(out.path)
                 /\ out.path # target => target[Len(out.path) + 1] = "?"
                 /\ IsPrefix(Joined(out.params), query) /\ "=" \notin ToSet(rest)
                 /\ rest # <<>> /\ out.params # <<>> => Head(rest) = "&"
                 /\ \A i \in DOMAIN out.params : /\ "=" \notin ToSet(out.params[i].key)
                                                 /\ "&" \notin ToSet(out.params[i].value)

(* The head of a response.  A status line is taken exactly if it is a      *)
(* version, a code and the phrase of that code, and the result of parsing  *)
(* is undefined only for codes without a phrase.  The header lines, with   *)
(* any blanks around their values, give the headers they were made from,   *)
(* up to the empty line, and a name is looked up in the order they came;   *)
(* one line without a colon spoils them all.                               *)
ResponseHeadExact ==
    /\ call.fn = "status" =>
          LET Standard(n, c) ==
                call.in = Upto(call.in, n) \o <<" ", ToString(c), " ">> \o <<"phrase", ToString(c)>>
              good == {x \in (0..Len(call.in)) \X KnownCodes :
                         Standard(x[1], x[2]) /\ " " \notin ToSet(Upto(call.in, x[1]))}
          IN  /\ call.out.rc = "SUCCESS" =>
                    \E c \in KnownCodes :
                        /\ good = {<<Len(call.out.version), c>>}
                        /\ call.out.status_code_string = <<ToString(c)>>
                        /\ call.out.reason_phrase = <<"phrase", ToString(c)>>
              /\ call.out.rc \notin {"SUCCESS", "ERR_NO_MEMORY"} => good = {}
              /\ call.out.rc = "undefined" =>
                    \A c \in KnownCodes : Before(call.in, <<" ", ToString(c), " ">>)
                                            # Before(call.in, <<" ">>)
    /\ call.fn = "headers" /\ call.out.rc # "ERR_NO_MEMORY" =>
          call.out = IF \E i \in DOMAIN call.in.lines : ~call.in.lines[i].colon THEN BadFormat
                     ELSE [rc |-> "SUCCESS",
                           headers |-> [i \in DOMAIN call.in.lines |->
                                          [key   |-> call.in.lines[i].key,
                                           value |-> call.in.lines[i].value]]]
    /\ call.fn = "get_header" =>
          LET of == {i \in DOMAIN call.in.block.lines : call.in.block.lines[i].key = call.in.name}
          IN  IF of = {} THEN call.out.rc = "ERR_NOT_FOUND"
              ELSE call.out.value = call.in.block.lines[Min(of)].value

(* What the lines of a file say, as long as each fits the buffer of fgets: *)
(* config_get_value gives the first value of a key and config_values_get   *)
(* the last one, without the comments and blanks around it; a key is       *)
(* missing in both or in neither; and config_values_get loses memory, and  *)
(* counts more than it stores, only if a key occurs twice or strdup fails. *)
ConfigExact ==
    call.fn \in {"get_value", "values_get"} =>
        LET lines   == SelectSeq(call.in.lines, LAMBDA l : l.key # <<>>)
            of(k)   == {i \in DOMAIN lines : lines[i].key = k}
            present == {k \in ConfigKeys : of(k) # {}}
            out     == call.out
        IN  (\A i \in DOMAIN call.in.lines : Len(call.in.lines[i].text) < LineSize) =>
              IF out.rc = -1 THEN DOMAIN out.values = {}
              ELSE IF call.fn = "get_value"
              THEN /\ (out.rc = 0) <=> (present = ConfigKeys)
                   /\ DOMAIN out.values = present
                   /\ \A k \in present :
                        LET value == lines[Min(of(k))].value
                        IN  /\ IsPrefix(out.values[k], value)
                            /\ Len(out.values[k]) < call.in.size
                            /\ Len(value) < call.in.size => out.values[k] = value
              ELSE /\ DOMAIN out.values \subseteq present
                   /\ \A k \in DOMAIN out.values : out.values[k] = lines[Max(of(k))].value
                   /\ call.in.bad = {} => DOMAIN out.values = present
                   /\ out.rc >= Cardinality(DOMAIN out.values)
                   /\ (\A k \in present : Cardinality(of(k)) = 1) =>
                         out.lost = 0 /\ out.rc = Cardinality(DOMAIN out.values)

(* Whether the second of a time of day fits an int: from 1901-12-13 to     *)
(* 2038-01-19.                                                             *)
Representable(tm) ==
    LET minutes == 1440 * DayNumber(tm.year, tm.mon + 1, tm.mday) + 60 * tm.hour + tm.min
    IN  minutes <= (IntMax - tm.sec) \div 60 /\ -minutes <= IntMax \div 60

(* The years before 1969 in which the division of C, which rounds towards  *)
(* zero, counts a leap day too many: all but 1965, 1961, 1957 and so on.   *)
DayTooMany(year) == year < 1969 /\ (1969 - year) % 4 # 0

(* timegm agrees with the calendar as long as the second fits an int, but  *)
(* for the years before 1969 in which it is a day late.  The floors of a   *)
(* time are what their names say; a time with an offset is read as the     *)
(* instant it denotes exactly if the offset is one of whole hours, and a   *)
(* printed one is read back as what it was exactly if it was printed for   *)
(* UTC.                                                                    *)
CalendarExact ==
    LET in  == call.in
        out == call.out
    IN  CASE call.fn = "timegm" ->
               out = IF ~Representable(in) THEN Undefined
                     ELSE Epoch(Second(in) + IF DayTooMany(in.year) THEN 86400 ELSE 0)
          [] call.fn = "floors" ->
               /\ out.day = Epoch(in - (in % 86400)) /\ out.hour = Epoch(in - (in % 3600))
               /\ out.min = Epoch(in - (in % 60))
               /\ out.iso = out.min /\ out.short = out.day
          [] call.fn = "full" -> (out = Epoch(in.t)) <=> (in.offset = 0)
          [] call.fn = "read" ->
               /\ in.dir = "Z" => out = MinusOne
               /\ in.dir # "Z" /\ ~DayTooMany(in.tm.year) /\ Representable(in.tm) /\ out.rc = "ok" =>
                    LET offset == 3600 * in.utc_hour + 60 * in.utc_min IN
                    (out.t - Second(in.tm) = IF in.dir = "+" THEN -offset ELSE offset)
                      <=> (in.utc_min = 0)
          [] OTHER -> TRUE

(* A blocking call runs out of time when, and only when, more than its     *)
(* timeout has passed since it began, while the clock fits an int.  From   *)
(* then on it is always out of time, for the 2^32 ms after it began.       *)
DeadlineExact ==
    call.fn = "expired" /\ call.in.now - call.in.start < 2 * (ClockMax + 1) =>
        LET in == call.in IN
        call.out <=> /\ in.timeout > 0
                     /\ in.now > ClockMax \/ in.now - in.start > in.timeout

(* A list of n names takes a copy of each, and an array that is allocated  *)
(* once and again whenever the names have outgrown the doubled one.        *)
Allocations(n) ==
    n + Cardinality({k \in 0..n : n > 0 /\ (k = 0 \/ FirstCapacity * 2^(k - 1) < n)})

(* list_filenames_with_ext returns NULL exactly if the directory cannot be *)
(* opened or one of these allocations fails, and otherwise the names that  *)
(* end in a dot and the extension, in order; it never stores a name        *)
(* outside its array.  The header promises a NULL after the last name; it  *)
(* is there exactly if the one allocation made for it succeeds.            *)
(* count_files_with_extension, if the directory can be opened, counts the  *)
(* regular files among these, and besides them files with no dot before    *)
(* the extension, and whatever the file system does not tell the kind of.  *)
(* A line goes to the log file exactly if the last call that opened or     *)
(* closed it opened it, and a file stays open for good exactly if log_init *)
(* is called, successfully or not, before log_close.                       *)
FilesExact ==
    LET Wanted(name) == \E n \in 1..Len(name) : name = Upto(name, n) \o <<".">> \o Extension
                                               \/ name = <<".">> \o Extension
        NoDot(name)  == ~Wanted(name) /\ IsSuffix(Extension, name)
        names(dir)   == [i \in DOMAIN dir |-> dir[i].name]
        Many(dir, P(_, _)) == Cardinality({i \in DOMAIN dir : P(dir[i].kind, dir[i].name)})
    IN  /\ call.fn = "list" =>
              LET in     == call.in
                  wanted == SelectSeq(names(in.dir), Wanted)
                  last   == Allocations(Len(wanted)) + 1
              IN  /\ call.out.inside
                  /\ call.out.null <=> \/ ~in.opens
                                       \/ in.bad \cap 1..(last - 1) # {}
                                       \/ wanted = <<>> /\ last \in in.bad
                  /\ call.out.names = IF call.out.null THEN <<>> ELSE wanted
                  /\ ~call.out.null => (call.out.terminated <=> last \notin in.bad)
        /\ call.fn = "count" =>
              call.out = IF ~call.in.opens THEN -1
                         ELSE Many(call.in.dir, LAMBDA kind, name : kind = "regular" /\ Wanted(name))
                            + Many(call.in.dir, LAMBDA kind, name : kind = "regular" /\ NoDot(name))
                            + Many(call.in.dir, LAMBDA kind, name :
                                     kind = "unknown" /\ (Wanted(name) \/ NoDot(name)))
        /\ call.fn = "log" =>
              LET ops     == call.in
                  inits   == {n \in DOMAIN ops : ops[n] = "init"}
                  Latest(n) == Max({0} \cup {m \in 1..(n - 1) : ops[m] # "write"})
                  Lost(n) == \E m \in DOMAIN ops :
                               /\ m > n /\ ops[m] \in {"init", "init fails"}
                               /\ \A k \in (n + 1)..(m - 1) : ops[k] = "write"
                  sum     == FoldLeft(+, 0, call.out.lines)
              IN  /\ sum = Cardinality({n \in DOMAIN ops : ops[n] = "write" /\ Latest(n) \in inits})
                  /\ Cardinality(call.out.open \ {call.out.g_log_file})
                       = Cardinality({n \in inits : Lost(n)})

(* tcp_client_write returns how much of the message has gone out, from its *)
(* beginning, nothing twice and nothing left out, through interruptions    *)
(* and partial writes.  tcp_client_realloc_data keeps the pieces it had    *)
(* memory for, in order, if the client was made in zeroed memory.  What    *)
(* curl_get_response has stored when it succeeds is the response, nothing  *)
(* of an earlier one, as a string unless there is none, also if curl_init  *)
(* failed.  When it fails, it leaves a beginning of the response, and the  *)
(* handle is lost, unless there was none.                                  *)
BuffersExact ==
    /\ call.fn = "write" =>
          IF call.out.rc < 0 THEN IsPrefix(call.out.wire, call.in)
          ELSE call.out.wire = Upto(call.in, call.out.rc)
    /\ call.fn = "collect" /\ call.in.size = 0 =>
          LET kept == [n \in DOMAIN call.in.pieces |->
                         IF n \in call.in.bad THEN <<>> ELSE call.in.pieces[n]]
          IN  /\ call.out.addr = FlattenSeq(kept)
              /\ call.out.size = Len(call.out.addr)
    /\ call.fn = "curl" =>
          /\ call.out.rc = 0 => /\ call.out.data.text = FlattenSeq(call.in.pieces)
                                /\ call.out.handle = "cleaned up"
          /\ call.out.rc # 0 =>
                /\ IsPrefix(call.out.data.text, FlattenSeq(call.in.pieces))
                /\ \/ call.out.handle = "lost" /\ call.in.easy
                      /\ (~call.in.ok \/ DOMAIN call.in.pieces \cap call.in.bad # {})
                   \/ call.out.handle = "none" /\ ~call.in.easy /\ call.out.data.text = <<>>
          /\ call.out.data.text # <<>> => call.out.data.terminated /\ ~call.out.data.null
          /\ call.out.data.null => call.in.before.null
=============================================================================
