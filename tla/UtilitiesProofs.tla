-------------------------- MODULE UtilitiesProofs ---------------------------
(***************************************************************************)
(* Two functions, for arguments of every size.  The end of a blocking      *)
(* call, for clocks and ints of every width: TLC looks at 4-bit ints, the  *)
(* code has 32-bit ones.  The reading of a URL, for texts of every length  *)
(* and arrays of every size.  The other properties of Utilities are about  *)
(* folds over texts and stay with TLC.                                     *)
(***************************************************************************)
EXTENDS Utilities, TextProofs

(* A remainder is the number itself, or at least one divisor below it.     *)
LEMMA RemainderOfNat ==
    ASSUME NEW n \in Nat, NEW w \in Nat, w > 0
    PROVE  /\ n % w \in 0..(w - 1)
           /\ n < w => n % w = n
           /\ n >= w => n % w <= n - w
<1>1. n = (w * (n \div w)) + (n % w) /\ n % w \in 0..(w - 1) /\ n \div w \in Int
  OBVIOUS
<1>2. n < w => n % w = n
  OBVIOUS
<1>3. ASSUME n >= w PROVE n % w <= n - w
  <2>1. n \div w >= 1
    BY <1>1, <1>3
  <2>2. w * (n \div w) >= w * 1
    BY <1>1, <2>1
  <2> QED
    BY <1>1, <2>2
<1> QED
  BY <1>1, <1>2, <1>3

(* The remainder of a negative number that is not below -w.                *)
LEMMA RemainderOfNegative ==
    ASSUME NEW d \in Int, NEW w \in Nat, -w <= d, d < 0
    PROVE  d % w = d + w
OBVIOUS

(* (int)now is now while it fits; afterwards it is below every time of the *)
(* last 2^32 ms.                                                           *)
LEMMA AsIntValue ==
    ASSUME NEW now \in Nat, NEW start \in 0..now, now - start < 2 * (ClockMax + 1)
    PROVE  /\ AsInt(now) \in Int
           /\ now <= ClockMax => AsInt(now) = now
           /\ now > ClockMax => AsInt(now) < start /\ AsInt(now) >= -(ClockMax + 1)
<1> DEFINE low == now % (2 * (ClockMax + 1))
<1>0. ClockMax \in Nat
  BY WidthAssumption
<1>1. /\ low \in 0..(2 * ClockMax + 1)
      /\ now < 2 * (ClockMax + 1) => low = now
      /\ now >= 2 * (ClockMax + 1) => low <= now - 2 * (ClockMax + 1)
  BY <1>0, RemainderOfNat
<1>2. AsInt(now) = IF low > ClockMax THEN low - 2 * (ClockMax + 1) ELSE low
  BY DEF AsInt
<1> HIDE DEF low
<1> QED
  BY <1>0, <1>1, <1>2

(* The test at the head of the loop of http_blocking_work.                 *)
LEMMA ExpiredValue ==
    ASSUME NEW now \in Clock, NEW start \in Clock, start <= now, NEW timeout \in Timeouts,
           now - start < 2 * (ClockMax + 1)
    PROVE  Expired(now, start, timeout)
             <=> timeout > 0 /\ (now > ClockMax \/ now - start > timeout)
<1>0. /\ ClockMax \in Nat /\ ClockRange \in Nat /\ ClockRange > 4 * (ClockMax + 1)
      /\ now \in Nat /\ start \in 0..now
      /\ start < ClockRange - 2 * (ClockMax + 1)
      /\ timeout \in Int /\ timeout <= ClockMax
  BY WidthAssumption, ClockAssumption
<1>1. /\ AsInt(now) \in Int
      /\ now <= ClockMax => AsInt(now) = now
      /\ now > ClockMax => AsInt(now) < start /\ AsInt(now) >= -(ClockMax + 1)
  BY <1>0, AsIntValue
<1>2. CASE now <= ClockMax
  <2>1. now - start \in Nat /\ now - start < ClockRange
    BY <1>0, <1>2
  <2>2. (AsInt(now) - start) % ClockRange = now - start
    BY <1>0, <1>1, <1>2, <2>1, RemainderOfNat
  <2> QED
    BY <1>0, <1>2, <2>2 DEF Expired
<1>3. CASE now > ClockMax
  <2>1. AsInt(now) - start \in Int /\ -ClockRange <= AsInt(now) - start /\ AsInt(now) - start < 0
    BY <1>0, <1>1, <1>3
  <2>2. (AsInt(now) - start) % ClockRange = AsInt(now) - start + ClockRange
    BY <1>0, <2>1, RemainderOfNegative
  <2>3. AsInt(now) - start + ClockRange > timeout
    BY <1>0, <1>1, <1>3
  <2> QED
    BY <1>0, <1>3, <2>2, <2>3 DEF Expired
<1> QED
  BY <1>0, <1>2, <1>3

(* Every action but two is a call of another function.                     *)
LEMMA OtherCalls ==
    ASSUME Next
    PROVE  /\ ~LookAtClock => call'.fn # "expired"
           /\ ~ParseUrl => call'.fn # "url"
<1>1. ASSUME NEW fn, NEW in, NEW out, Call(fn, in, out)
      PROVE  call'.fn = fn
  BY <1>1 DEF Call
<1>2. LookAtClock => call'.fn = "expired"
  BY <1>1 DEF LookAtClock
<1>3. ParseUrl => call'.fn = "url"
  BY <1>1, Zenon DEF ParseUrl
<1>4. CASE \/ ParseRequestLine \/ ParseStatusLine \/ ParseHeaders
           \/ GetConfigValue \/ GetConfigValues \/ ListFiles \/ CountFiles \/ Write
  BY <1>1, <1>4 DEF ParseRequestLine, ParseStatusLine, ParseHeaders,
     GetConfigValue, GetConfigValues, ListFiles, CountFiles, Write
<1>5. CASE Timegm
  BY <1>1, <1>5 DEF Timegm
<1>6. CASE PrintThenParse
  BY <1>1, <1>6 DEF PrintThenParse
<1>7. CASE ReadWithOffset
  BY <1>1, <1>7 DEF ReadWithOffset
<1>8. CASE Floors
  BY <1>1, <1>8 DEF Floors
<1>9. CASE Collect
  <2>1. call'.fn = "collect"
    BY <1>1, <1>9, Zenon DEF Collect
  <2> QED
    BY <2>1
<1>10. CASE CurlTwice \/ Log
  BY <1>1, <1>10 DEF CurlTwice, Log
<1>11. CASE GetHeader \/ Return
  BY <1>11 DEF GetHeader, Return, Idle
<1> QED
  BY <1>2, <1>3, <1>4, <1>5, <1>6, <1>7, <1>8, <1>9, <1>10, <1>11 DEF Next

(* A blocking call runs out of time exactly when more than its timeout has *)
(* passed since it began, while the clock fits an int; from then on it is  *)
(* out of time at once, whatever its timeout.                              *)
THEOREM DeadlineIsExact == Spec => []DeadlineExact
<1>1. Init => DeadlineExact
  BY DEF Init, Idle, DeadlineExact
<1>2. ASSUME DeadlineExact, [Next]_call
      PROVE  DeadlineExact'
  <2>1. CASE LookAtClock
    <3>1. PICK now \in Clock, timeout \in Timeouts, start \in Clock :
          /\ start <= now
          /\ call' = [fn  |-> "expired",
                      in  |-> [now |-> now, start |-> start, timeout |-> timeout],
                      out |-> Expired(now, start, timeout)]
      BY <2>1 DEF LookAtClock, Call
    <3>2. /\ call'.in.now = now /\ call'.in.start = start /\ call'.in.timeout = timeout
          /\ call'.out = Expired(now, start, timeout)
      BY <3>1
    <3>3. now - start < 2 * (ClockMax + 1) =>
             (Expired(now, start, timeout)
                <=> timeout > 0 /\ (now > ClockMax \/ now - start > timeout))
      BY <3>1, ExpiredValue
    <3> QED
      BY <3>1, <3>2, <3>3 DEF DeadlineExact
  <2>2. CASE UNCHANGED call
    BY <1>2, <2>2 DEF DeadlineExact
  <2>3. CASE Next /\ ~LookAtClock
    <3>1. call'.fn # "expired"
      BY <2>3, OtherCalls
    <3> QED
      BY <3>1, Zenon DEF DeadlineExact
  <2> QED
    BY <1>2, <2>1, <2>2, <2>3
<1> QED
  BY <1>1, <1>2, PTL DEF Spec

-----------------------------------------------------------------------------
(* URLs.  A search for one character.                                      *)
LEMMA CharFound ==
    ASSUME NEW text \in Seq(STRING), NEW ch
    PROVE  \/ Before(text, <<ch>>) = -1 /\ \A i \in 1..Len(text) : text[i] # ch
           \/ /\ Before(text, <<ch>>) \in 0..(Len(text) - 1)
              /\ text[Before(text, <<ch>>) + 1] = ch
              /\ \A i \in 1..Before(text, <<ch>>) : text[i] # ch
<1> DEFINE sep == <<ch>>
           b   == Before(text, sep)
<1>1. sep \in Seq({ch}) /\ Len(sep) = 1 /\ Len(text) \in Nat
  OBVIOUS
<1>2. \A i \in 0..(Len(text) - 1) : SubSeq(text, i + 1, i + 1) = sep <=> text[i + 1] = ch
  <2> TAKE i \in 0..(Len(text) - 1)
  <2>1. i + 1 \in 0..Len(text) /\ i \in 0..(i + 1) /\ (i + 1) - i = 1
    BY <1>1
  <2>2. /\ SubSeq(text, i + 1, i + 1) \in Seq(STRING)
        /\ Len(SubSeq(text, i + 1, i + 1)) = 1
        /\ SubSeq(text, i + 1, i + 1)[1] = text[i + 1]
    BY <2>1, PartIs
  <2> DEFINE one == SubSeq(text, i + 1, i + 1)
  <2>3. one = sep <=> one[1] = ch
    <3>1. one \in Seq(STRING) /\ Len(one) = 1
      BY <2>2
    <3> HIDE DEF one
    <3> QED
      BY <3>1
  <2> QED
    BY <2>2, <2>3
<1> HIDE DEF sep
<1>3. \/ /\ b = -1
         /\ \A i \in 0..(Len(text) - 1) : SubSeq(text, i + 1, i + 1) # sep
      \/ /\ b \in 0..(Len(text) - 1)
         /\ SubSeq(text, b + 1, b + 1) = sep
         /\ \A i \in 0..(b - 1) : SubSeq(text, i + 1, i + 1) # sep
  <2> DEFINE n == Len(sep)
  <2>1. \/ /\ b = -1
           /\ \A i \in 0..(Len(text) - n) : SubSeq(text, i + 1, i + n) # sep
        \/ /\ b \in 0..(Len(text) - n)
           /\ SubSeq(text, b + 1, b + n) = sep
           /\ \A i \in 0..(b - 1) : SubSeq(text, i + 1, i + n) # sep
    BY <1>1, BeforeIs
  <2>2. n = 1
    BY <1>1
  <2> HIDE DEF b, n
  <2> QED
    BY <2>1, <2>2
<1> HIDE DEF b
<1>4. CASE /\ b = -1
           /\ \A i \in 0..(Len(text) - 1) : SubSeq(text, i + 1, i + 1) # sep
  <2>1. \A i \in 1..Len(text) : text[i] # ch
    <3> TAKE i \in 1..Len(text)
    <3>1. i - 1 \in 0..(Len(text) - 1) /\ (i - 1) + 1 = i
      BY <1>1
    <3> QED
      BY <1>2, <1>4, <3>1
  <2> QED
    BY <1>4, <2>1 DEF b, sep
<1>5. CASE /\ b \in 0..(Len(text) - 1)
           /\ SubSeq(text, b + 1, b + 1) = sep
           /\ \A i \in 0..(b - 1) : SubSeq(text, i + 1, i + 1) # sep
  <2>1. \A i \in 1..b : text[i] # ch
    <3> TAKE i \in 1..b
    <3>1. i - 1 \in 0..(Len(text) - 1) /\ i - 1 \in 0..(b - 1) /\ (i - 1) + 1 = i
      BY <1>1, <1>5
    <3> QED
      BY <1>2, <1>5, <3>1
  <2> QED
    BY <1>2, <1>5, <2>1 DEF b, sep
<1> QED
  BY <1>3, <1>4, <1>5

(* The characters of a part.                                               *)
LEMMA PartSet ==
    ASSUME NEW t \in Seq(STRING), NEW g \in 0..Len(t), NEW f \in 0..g
    PROVE  \A ch : ch \in ToSet(SubSeq(t, f + 1, g)) <=> \E i \in (f + 1)..g : t[i] = ch
<1> DEFINE u == SubSeq(t, f + 1, g)
<1>1. u \in Seq(STRING) /\ Len(u) = g - f /\ \A i \in 1..(g - f) : u[i] = t[f + i]
  BY PartIs
<1> HIDE DEF u
<1>2. ToSet(u) = {u[i] : i \in 1..(g - f)}
  BY <1>1 DEF ToSet
<1>3. \A i \in (f + 1)..g : i - f \in 1..(g - f) /\ f + (i - f) = i
  OBVIOUS
<1>4. \A i \in 1..(g - f) : f + i \in (f + 1)..g
  OBVIOUS
<1>5. ASSUME NEW ch, ch \in ToSet(u)
      PROVE  \E i \in (f + 1)..g : t[i] = ch
  <2>1. PICK i \in 1..(g - f) : u[i] = ch
    BY <1>2, <1>5
  <2> QED
    BY <1>1, <1>4, <2>1
<1>6. ASSUME NEW i \in (f + 1)..g
      PROVE  t[i] \in ToSet(u)
  BY <1>1, <1>2, <1>3
<1> QED
  BY <1>5, <1>6 DEF u

(* After the first h characters: the first slash, and a colon before it.   *)
FirstEnds(u, n, h, E, S) ==
    /\ \A i \in (h + 1)..S : u[i] # "/"
    /\ S = n \/ u[S + 1] = "/"
    /\ \A i \in (h + 1)..E : u[i] # ":"
    /\ E = S \/ u[E + 1] = ":"

(* ... and a host, a port with its colon or none, and a path or none.      *)
Authority(u, n, h, b, c) ==
    /\ \A i \in (h + 1)..b : u[i] # ":" /\ u[i] # "/"
    /\ c = b \/ (u[b + 1] = ":" /\ \A i \in (b + 2)..c : u[i] \in Digit)
    /\ c = n \/ u[c + 1] = "/"

(* In any text there is one way at most to end a host before the first     *)
(* colon or slash, and a port, which has digits only, before the slash:    *)
(* the way the parser finds.                                               *)
LEMMA OneCut ==
    ASSUME NEW u, NEW n \in Nat, NEW h \in 0..n, NEW S \in h..n, NEW E \in h..S,
           NEW b \in h..n, NEW c \in b..n,
           FirstEnds(u, n, h, E, S), Authority(u, n, h, b, c)
    PROVE  b = E /\ c = S
<1> USE DEF FirstEnds, Authority
<1>1. \A ch \in Digit : ch # "/"
  BY DEF Digit
<1>2. ~(b < E)
  <2> SUFFICES ASSUME b < E PROVE FALSE
    OBVIOUS
  <2>1. b + 1 \in (h + 1)..E /\ b + 1 \in (h + 1)..S
    OBVIOUS
  <2>2. u[b + 1] # ":" /\ u[b + 1] # "/"
    BY <2>1
  <2> QED
    BY <2>2
<1>3. ~(E < b)
  <2> SUFFICES ASSUME E < b PROVE FALSE
    OBVIOUS
  <2>1. E + 1 \in (h + 1)..b
    OBVIOUS
  <2>2. u[E + 1] # ":" /\ u[E + 1] # "/"
    BY <2>1
  <2> QED
    BY <2>2
<1>4. b = E
  BY <1>2, <1>3
<1>5. CASE c = b
  <2>1. E = S
    BY <1>4, <1>5
  <2> QED
    BY <1>4, <1>5, <2>1
<1>6. CASE c # b
  <2>1. E # S
    BY <1>4, <1>6
  <2>2. ~(c < S)
    <3> SUFFICES ASSUME c < S PROVE FALSE
      OBVIOUS
    <3>1. c + 1 \in (h + 1)..S
      OBVIOUS
    <3> QED
      BY <3>1
  <2>3. ~(S < c)
    <3> SUFFICES ASSUME S < c PROVE FALSE
      OBVIOUS
    <3>1. S + 1 \in (b + 2)..c
      BY <1>4, <2>1
    <3>2. u[S + 1] \in Digit
      BY <1>6, <3>1
    <3> QED
      BY <1>1, <3>2
  <2> QED
    BY <1>4, <2>2, <2>3
<1> QED
  BY <1>5, <1>6

(* What makes the parser accept a URL whose scheme ends after s            *)
(* characters, whose host ends after E and whose port after S.             *)
UrlFits(u, s, E, S) ==
    /\ s \in 1..(SchemeSize - 1)
    /\ E - (s + 3) \in 1..(HostSize - 1)
    /\ IF E < S THEN S - (E + 1) \in 1..(PortSize - 1) /\ \A i \in (E + 2)..S : u[i] \in Digit
       ELSE SubSeq(u, 1, s) \in {<<"http">>, <<"HTTP">>, <<"https">>}
    /\ Len(u) - S < PathSize

(* Where the parser finds the ends: the port at the first slash or at the  *)
(* end of the text, the host at a colon before it or there too.            *)
UrlFound(u, s, E, S) ==
    FirstEnds(u, Len(u), s + 3, E, S)

LEMMA PortOfScheme ==
    ASSUME NEW scheme
    PROVE  /\ Lower(scheme) \in DOMAIN DefaultPort
                <=> scheme \in {<<"http">>, <<"HTTP">>, <<"https">>}
           /\ scheme \in {<<"http">>, <<"HTTP">>, <<"https">>} =>
                DefaultPort[Lower(scheme)]
                  = IF scheme = <<"https">> THEN <<"4", "4", "3">> ELSE <<"8", "0">>
<1> DEFINE http == <<"http">>
           HTTP == <<"HTTP">>
           https == <<"https">>
           eighty == <<"8", "0">>
           tls == <<"4", "4", "3">>
<1>1. http # https /\ HTTP # https /\ http # HTTP
  OBVIOUS
<1>2. /\ Lower(scheme) = IF scheme = HTTP THEN http ELSE scheme
      /\ DefaultPort = [w \in {http, https} |-> IF w = http THEN eighty ELSE tls]
  BY DEF Lower, DefaultPort
<1> HIDE DEF http, HTTP, https, eighty, tls
<1>3. /\ Lower(scheme) \in DOMAIN DefaultPort <=> scheme \in {http, HTTP, https}
      /\ scheme \in {http, HTTP, https} =>
           DefaultPort[Lower(scheme)] = IF scheme = https THEN tls ELSE eighty
  BY <1>1, <1>2
<1> QED
  BY <1>3 DEF http, HTTP, https, eighty, tls

(* A search after the first h characters.                                  *)
LEMMA CharFoundAfter ==
    ASSUME NEW u \in Seq(STRING), NEW h \in 0..Len(u), NEW ch
    PROVE  \/ /\ Before(From(u, h), <<ch>>) = -1
              /\ \A i \in (h + 1)..Len(u) : u[i] # ch
           \/ /\ Before(From(u, h), <<ch>>) \in 0..(Len(u) - h - 1)
              /\ u[h + Before(From(u, h), <<ch>>) + 1] = ch
              /\ \A i \in (h + 1)..(h + Before(From(u, h), <<ch>>)) : u[i] # ch
<1> DEFINE v == From(u, h)
           b == Before(v, <<ch>>)
           n == Len(u)
<1>1. /\ n \in Nat /\ v \in Seq(STRING) /\ Len(v) = n - h
      /\ \A i \in 1..(n - h) : v[i] = u[h + i]
  <2>1. /\ n \in Nat /\ n \in 0..Len(u)
        /\ v = SubSeq(u, h + 1, n) /\ v \in Seq(STRING) /\ Len(v) = n - h
    BY FromIsPart
  <2> QED
    BY <2>1, PartIs
<1> HIDE DEF v, n
<1>2. \/ b = -1 /\ \A i \in 1..(n - h) : v[i] # ch
      \/ b \in 0..(n - h - 1) /\ v[b + 1] = ch /\ \A i \in 1..b : v[i] # ch
  BY <1>1, CharFound
<1> HIDE DEF b
<1>3. CASE b = -1 /\ \A i \in 1..(n - h) : v[i] # ch
  <2>1. \A i \in (h + 1)..n : i - h \in 1..(n - h) /\ h + (i - h) = i
    BY <1>1
  <2>2. \A i \in (h + 1)..n : u[i] # ch
    BY <1>1, <1>3, <2>1
  <2> QED
    BY <1>3, <2>2 DEF b, v, n
<1>4. CASE b \in 0..(n - h - 1) /\ v[b + 1] = ch /\ \A i \in 1..b : v[i] # ch
  <2>1. \A i \in (h + 1)..(h + b) : i - h \in 1..(n - h) /\ i - h \in 1..b /\ h + (i - h) = i
    BY <1>1, <1>4
  <2>2. \A i \in (h + 1)..(h + b) : u[i] # ch
    BY <1>1, <1>4, <2>1
  <2>3. b + 1 \in 1..(n - h) /\ h + (b + 1) = h + b + 1
    BY <1>1, <1>4
  <2>4. u[h + b + 1] = ch
    BY <1>1, <1>4, <2>3
  <2> QED
    BY <1>4, <2>2, <2>4 DEF b, v, n
<1> QED
  BY <1>2, <1>3, <1>4

(* Of the n characters of u after the first h, k come before the first ch, *)
(* or there is none and k is -1.                                           *)
FirstAfter(u, n, h, ch, k) ==
    /\ k \in Int
    /\ \/ k = -1 /\ \A i \in (h + 1)..n : u[i] # ch
       \/ k \in 0..(n - h - 1) /\ u[h + k + 1] = ch /\ \A i \in (h + 1)..(h + k) : u[i] # ch

LEMMA FirstFound ==
    ASSUME NEW u \in Seq(STRING), NEW h \in 0..Len(u), NEW ch
    PROVE  FirstAfter(u, Len(u), h, ch, Before(From(u, h), <<ch>>))
<1>1. \/ /\ Before(From(u, h), <<ch>>) = -1
         /\ \A i \in (h + 1)..Len(u) : u[i] # ch
      \/ /\ Before(From(u, h), <<ch>>) \in 0..(Len(u) - h - 1)
         /\ u[h + Before(From(u, h), <<ch>>) + 1] = ch
         /\ \A i \in (h + 1)..(h + Before(From(u, h), <<ch>>)) : u[i] # ch
  BY CharFoundAfter
<1> DEFINE k == Before(From(u, h), <<ch>>)
<1>2. k \in Int
  <2>1. k = -1 \/ k \in 0..(Len(u) - h - 1)
    BY <1>1
  <2> HIDE DEF k
  <2> QED
    BY <2>1
<1> QED
  BY <1>1, <1>2, Zenon DEF FirstAfter

(* The ends of host and port, from the first slash and the first colon.    *)
CutAt(slash, colon, n, s, E, S) ==
    /\ S - (s + 3) = IF slash < 0 THEN n - (s + 3) ELSE slash
    /\ HasPort(colon, slash) <=> E < S
    /\ HasPort(colon, slash) => E - (s + 3) = colon

LEMMA EndsFound ==
    ASSUME NEW u, NEW n \in Nat, n = Len(u), NEW s \in Nat, s + 3 <= n, NEW slash, NEW colon,
           FirstAfter(u, n, s + 3, "/", slash), FirstAfter(u, n, s + 3, ":", colon)
    PROVE  \E S \in (s + 3)..n : \E E \in (s + 3)..S :
              CutAt(slash, colon, n, s, E, S) /\ UrlFound(u, s, E, S)
<1>0. /\ slash \in Int /\ colon \in Int
      /\ \/ slash = -1 /\ \A i \in (s + 3 + 1)..n : u[i] # "/"
         \/ /\ slash \in 0..(n - (s + 3) - 1) /\ u[s + 3 + slash + 1] = "/"
            /\ \A i \in (s + 3 + 1)..(s + 3 + slash) : u[i] # "/"
      /\ \/ colon = -1 /\ \A i \in (s + 3 + 1)..n : u[i] # ":"
         \/ /\ colon \in 0..(n - (s + 3) - 1) /\ u[s + 3 + colon + 1] = ":"
            /\ \A i \in (s + 3 + 1)..(s + 3 + colon) : u[i] # ":"
  BY Zenon DEF FirstAfter
<1> SUFFICES \E S \in (s + 3)..n : \E E \in (s + 3)..S :
                /\ S - (s + 3) = IF slash < 0 THEN n - (s + 3) ELSE slash
                /\ HasPort(colon, slash) <=> E < S
                /\ HasPort(colon, slash) => E - (s + 3) = colon
                /\ \A i \in (s + 4)..S : u[i] # "/"
                /\ S = n \/ u[S + 1] = "/"
                /\ \A i \in (s + 4)..E : u[i] # ":"
                /\ E = S \/ u[E + 1] = ":"
  <2>1. s + 3 + 1 = s + 4
    OBVIOUS
  <2> QED
    BY <2>1, Zenon DEF CutAt, UrlFound, FirstEnds
<1> USE <1>0
<1>1. PICK S \in (s + 3)..n : /\ S - (s + 3) = IF slash < 0 THEN n - (s + 3) ELSE slash
                              /\ \A i \in (s + 4)..S : u[i] # "/"
                              /\ S = n \/ u[S + 1] = "/"
  <2>1. CASE slash = -1
    <3>1. n \in (s + 3)..n /\ \A i \in (s + 4)..n : i \in (s + 3 + 1)..n
      OBVIOUS
    <3> QED
      BY <2>1, <3>1
  <2>2. CASE slash # -1
    <3> DEFINE S == s + 3 + slash
    <3>1. /\ S \in (s + 3)..n /\ \A i \in (s + 4)..S : i \in (s + 3 + 1)..(s + 3 + slash)
          /\ S - (s + 3) = slash /\ ~(slash < 0)
      BY <2>2
    <3> QED
      BY <2>2, <3>1
  <2> QED
    BY <2>1, <2>2
<1>2. CASE HasPort(colon, slash)
  <2> DEFINE E == s + 3 + colon
  <2>1. colon \in 0..(n - (s + 3) - 1) /\ (slash < 0 \/ colon < slash)
    BY <1>2 DEF HasPort
  <2>2. E \in (s + 3)..S /\ E < S /\ E - (s + 3) = colon
    BY <1>1, <2>1
  <2>3. (\A i \in (s + 4)..E : u[i] # ":") /\ u[E + 1] = ":"
    <3>1. \A i \in (s + 4)..E : i \in (s + 3 + 1)..(s + 3 + colon)
      BY <2>1
    <3> QED
      BY <2>1, <3>1
  <2> HIDE DEF E
  <2> QED
    BY <1>1, <1>2, <2>2, <2>3
<1>3. CASE ~HasPort(colon, slash)
  <2>1. \A i \in (s + 4)..S : u[i] # ":"
    <3>1. CASE colon = -1
      <4>1. \A i \in (s + 4)..S : i \in (s + 3 + 1)..n
        BY <1>1
      <4> QED
        BY <3>1, <4>1
    <3>2. CASE colon # -1
      <4>1. ~(slash < 0) /\ ~(colon < slash) /\ colon \in 0..(n - (s + 3) - 1)
        BY <1>3, <3>2 DEF HasPort
      <4>2. \A i \in (s + 4)..S : i \in (s + 3 + 1)..(s + 3 + colon)
        BY <1>1, <4>1
      <4> QED
        BY <3>2, <4>2
    <3> QED
      BY <3>1, <3>2
  <2>2. S \in (s + 3)..S /\ ~(S < S)
    BY <1>1
  <2> QED
    BY <1>1, <1>3, <2>1, <2>2
<1> QED
  BY <1>2, <1>3

(* A part of what follows the first h characters, f and g from the front.  *)
LEMMA PartAfter ==
    ASSUME NEW u \in Seq(STRING), NEW g \in 0..Len(u), NEW f \in 0..g, NEW h \in 0..f
    PROVE  SubSeq(From(u, h), f - h + 1, g - h) = SubSeq(u, f + 1, g)
<1>1. h \in 0..Len(u) /\ Len(u) \in 0..Len(u)
  OBVIOUS
<1>2. From(u, h) = SubSeq(u, h + 1, Len(u))
  BY <1>1, FromIsPart
<1> DEFINE n == Len(u)
<1>3. g - h \in 0..(n - h) /\ f - h \in 0..(g - h) /\ n \in 0..Len(u) /\ h \in 0..n
  BY <1>1
<1>4. SubSeq(SubSeq(u, h + 1, n), f - h + 1, g - h) = SubSeq(u, h + (f - h) + 1, h + (g - h))
  BY <1>3, PartOfPart
<1>5. h + (f - h) + 1 = f + 1 /\ h + (g - h) = g
  OBVIOUS
<1> QED
  BY <1>2, <1>4, <1>5, Zenon

LEMMA EmptyText ==
    ASSUME NEW t \in Seq(STRING)
    PROVE  t = <<>> <=> Len(t) = 0
OBVIOUS

(* The parts of a URL, as the parser cuts them out of what follows the     *)
(* scheme.                                                                 *)
LEMMA PartsCut ==
    ASSUME NEW u \in Seq(STRING), NEW s \in 0..Len(u), s + 3 <= Len(u),
           NEW S \in (s + 3)..Len(u), NEW E \in (s + 3)..S
    PROVE  /\ Upto(From(u, s + 3), E - (s + 3)) = SubSeq(u, s + 4, E)
           /\ From(From(u, s + 3), S - (s + 3)) = SubSeq(u, S + 1, Len(u))
           /\ SubSeq(u, E + 1, S) = <<>> <=> ~(E < S)
           /\ E < S =>
                /\ SubSeq(From(u, s + 3), E - (s + 3) + 2, S - (s + 3)) = SubSeq(u, E + 2, S)
                /\ From(SubSeq(u, E + 1, S), 1) = SubSeq(u, E + 2, S)
<1> DEFINE n == Len(u)
           h == s + 3
<1>1. /\ n \in 0..Len(u) /\ h \in 0..n /\ S \in 0..n /\ E \in 0..S /\ E \in 0..n
      /\ h \in 0..E /\ h \in 0..S /\ h \in 0..h
  OBVIOUS
<1>2. Upto(From(u, h), E - h) = SubSeq(u, h + 1, E)
  <2>1. 1 = h - h + 1
    BY <1>1
  <2>2. SubSeq(From(u, h), h - h + 1, E - h) = SubSeq(u, h + 1, E)
    <3> HIDE DEF h, n
    <3> QED
      BY <1>1, PartAfter
  <2> QED
    BY <2>1, <2>2, Zenon DEF Upto
<1>3. From(From(u, h), S - h) = SubSeq(u, S + 1, n)
  <2>1. Len(From(u, h)) = n - h
    BY <1>1, FromIsPart
  <2>3. SubSeq(From(u, h), S - h + 1, n - h) = SubSeq(u, S + 1, n)
    <3> HIDE DEF h, n
    <3> QED
      BY <1>1, PartAfter
  <2> QED
    BY <2>1, <2>3, Zenon DEF From
<1>4. SubSeq(u, E + 1, S) = <<>> <=> ~(E < S)
  <2>1. SubSeq(u, E + 1, S) \in Seq(STRING) /\ Len(SubSeq(u, E + 1, S)) = S - E
    BY <1>1, PartIs
  <2>2. SubSeq(u, E + 1, S) = <<>> <=> Len(SubSeq(u, E + 1, S)) = 0
    BY <2>1, EmptyText
  <2> QED
    BY <1>1, <2>1, <2>2
<1>5. ASSUME E < S
      PROVE  /\ SubSeq(From(u, h), E - h + 2, S - h) = SubSeq(u, E + 2, S)
             /\ From(SubSeq(u, E + 1, S), 1) = SubSeq(u, E + 2, S)
  <2> DEFINE e == E + 1
  <2>1. e \in 0..S /\ h \in 0..e /\ E - h + 2 = e - h + 1 /\ 1 \in 0..(S - E)
    BY <1>1, <1>5
  <2>2. e + 1 = E + 2
    BY <1>1
  <2>3. SubSeq(From(u, h), e - h + 1, S - h) = SubSeq(u, e + 1, S)
    <3> HIDE DEF e, h, n
    <3> QED
      BY <1>1, <2>1, PartAfter
  <2>4. From(SubSeq(u, E + 1, S), 1) = SubSeq(u, E + 1 + 1, S)
    BY <1>1, <2>1, PartFrom
  <2> QED
    BY <2>1, <2>2, <2>3, <2>4, Zenon
<1>6. h + 1 = s + 4
  OBVIOUS
<1> QED
  BY <1>2, <1>3, <1>4, <1>5, <1>6, Zenon

(* How long they are, and what is in them.                                 *)
LEMMA PartsHold ==
    ASSUME NEW u \in Seq(STRING), NEW a \in 0..Len(u), a + 3 <= Len(u),
           NEW c \in (a + 3)..Len(u), NEW b \in (a + 3)..c
    PROVE  /\ Len(SubSeq(u, 1, a)) = a
           /\ Len(SubSeq(u, a + 4, b)) = b - (a + 3)
           /\ \A ch : ch \in ToSet(SubSeq(u, a + 4, b)) <=> \E i \in (a + 4)..b : u[i] = ch
           /\ Len(SubSeq(u, b + 1, c)) = c - b
           /\ b < c => /\ SubSeq(u, b + 1, c)[1] = u[b + 1]
                       /\ Len(SubSeq(u, b + 2, c)) = c - (b + 1)
                       /\ \A ch : ch \in ToSet(SubSeq(u, b + 2, c))
                                    <=> \E i \in (b + 2)..c : u[i] = ch
           /\ Len(SubSeq(u, c + 1, Len(u))) = Len(u) - c
           /\ SubSeq(u, c + 1, Len(u)) = <<>> <=> c = Len(u)
           /\ c < Len(u) => SubSeq(u, c + 1, Len(u))[1] = u[c + 1]
<1> DEFINE n == Len(u)
           h == a + 3
           d == b + 1
<1>1. /\ n \in 0..Len(u) /\ h \in 0..b /\ c \in 0..n /\ b \in 0..c /\ b \in 0..n /\ a \in 0..n
      /\ 0 \in 0..a /\ h \in Nat /\ n \in Nat
  OBVIOUS
<1>2. Len(SubSeq(u, 1, a)) = a
  <2>1. Len(SubSeq(u, 0 + 1, a)) = a - 0
    BY <1>1, PartIs
  <2>2. 0 + 1 = 1 /\ a - 0 = a
    OBVIOUS
  <2> QED
    BY <2>1, <2>2, Zenon
<1>3. /\ Len(SubSeq(u, a + 4, b)) = b - (a + 3)
      /\ \A ch : ch \in ToSet(SubSeq(u, a + 4, b)) <=> \E i \in (a + 4)..b : u[i] = ch
  <2>1. /\ Len(SubSeq(u, h + 1, b)) = b - h
        /\ \A ch : ch \in ToSet(SubSeq(u, h + 1, b)) <=> \E i \in (h + 1)..b : u[i] = ch
    <3> HIDE DEF h
    <3> QED
      BY <1>1, PartIs, PartSet
  <2>2. h + 1 = a + 4
    OBVIOUS
  <2> QED
    BY <2>1, <2>2, Zenon
<1>4. Len(SubSeq(u, b + 1, c)) = c - b /\ \A i \in 1..(c - b) : SubSeq(u, b + 1, c)[i] = u[b + i]
  BY <1>1, PartIs
<1>5. ASSUME b < c
      PROVE  /\ SubSeq(u, b + 1, c)[1] = u[b + 1]
             /\ Len(SubSeq(u, b + 2, c)) = c - (b + 1)
             /\ \A ch : ch \in ToSet(SubSeq(u, b + 2, c)) <=> \E i \in (b + 2)..c : u[i] = ch
  <2>1. 1 \in 1..(c - b) /\ d \in 0..c
    BY <1>1, <1>5
  <2>2. /\ Len(SubSeq(u, d + 1, c)) = c - d
        /\ \A ch : ch \in ToSet(SubSeq(u, d + 1, c)) <=> \E i \in (d + 1)..c : u[i] = ch
    <3> HIDE DEF d
    <3> QED
      BY <1>1, <2>1, PartIs, PartSet
  <2>3. d + 1 = b + 2
    BY <1>1
  <2>4. SubSeq(u, b + 1, c)[1] = u[b + 1]
    BY <1>4, <2>1
  <2> QED
    BY <2>2, <2>3, <2>4, Zenon
<1>6. /\ SubSeq(u, c + 1, n) \in Seq(STRING)
      /\ Len(SubSeq(u, c + 1, n)) = n - c
      /\ \A i \in 1..(n - c) : SubSeq(u, c + 1, n)[i] = u[c + i]
  BY <1>1, PartIs
<1>7. SubSeq(u, c + 1, n) = <<>> <=> c = n
  <2>1. SubSeq(u, c + 1, n) = <<>> <=> Len(SubSeq(u, c + 1, n)) = 0
    BY <1>6, EmptyText
  <2> QED
    BY <1>1, <1>6, <2>1
<1>8. c < n => SubSeq(u, c + 1, n)[1] = u[c + 1]
  <2> SUFFICES ASSUME c < n PROVE SubSeq(u, c + 1, n)[1] = u[c + 1]
    OBVIOUS
  <2>1. 1 \in 1..(n - c)
    BY <1>1
  <2> QED
    BY <1>6, <2>1
<1> QED
  BY <1>2, <1>3, <1>4, <1>5, <1>6, <1>7, <1>8, Zenon

(* What http_parser_url does with a URL that has a "://".                  *)
LEMMA UrlParsed ==
    ASSUME NEW u \in Seq(STRING), NEW s \in 0..Len(u), s + 3 <= Len(u),
           Before(u, <<":", "/", "/">>) = s
    PROVE  \E S \in (s + 3)..Len(u) : \E E \in (s + 3)..S :
              /\ UrlFound(u, s, E, S)
              /\ http_parser_url(u) = IF UrlFits(u, s, E, S) THEN UrlParts(u, s, E, S)
                                      ELSE BadFormat
<1> DEFINE n         == Len(u)
           scheme    == Upto(u, s)
           rest      == From(u, s + 3)
           slash     == Before(rest, <<"/">>)
           colon     == Before(rest, <<":">>)
           pathStart == IF slash < 0 THEN Len(rest) ELSE slash
           withPort  == HasPort(colon, slash)
           host      == Upto(rest, IF withPort THEN colon ELSE pathStart)
           port      == SubSeq(rest, colon + 2, pathStart)
           path      == From(rest, pathStart)
           bad       == \/ s < 0
                        \/ ~Fits(scheme, SchemeSize)
                        \/ ~Fits(host, HostSize)
                        \/ withPort /\ ~(Fits(port, PortSize) /\ ToSet(port) \subseteq Digit)
                        \/ Len(path) >= PathSize
                        \/ ~withPort /\ Lower(scheme) \notin DOMAIN DefaultPort
           parts     == [rc     |-> "SUCCESS",
                         scheme |-> scheme,
                         host   |-> host,
                         port   |-> IF withPort THEN port ELSE DefaultPort[Lower(scheme)],
                         path   |-> IF path = <<>> THEN <<"/">> ELSE path]
<1>1. http_parser_url(u) = IF bad THEN BadFormat ELSE parts
  BY DEF http_parser_url
<1>2. n \in Nat /\ s \in Nat /\ s + 3 \in 0..n /\ s + 3 <= n
  OBVIOUS
<1>3. Len(rest) = n - (s + 3)
  BY <1>2, FromIsPart
<1>4. FirstAfter(u, n, s + 3, "/", slash) /\ FirstAfter(u, n, s + 3, ":", colon)
  <2> DEFINE h == s + 3
  <2>1. h \in 0..Len(u)
    BY <1>2
  <2> HIDE DEF h
  <2>2. ASSUME NEW ch
        PROVE  FirstAfter(u, n, h, ch, Before(From(u, h), <<ch>>))
    BY <2>1, FirstFound
  <2> QED
    BY <2>2, Zenon DEF h
<1>5. n = Len(u)
  OBVIOUS
<1> HIDE DEF slash, colon, n
<1>6. PICK S \in (s + 3)..n : \E E \in (s + 3)..S :
         CutAt(slash, colon, n, s, E, S) /\ UrlFound(u, s, E, S)
  BY <1>2, <1>4, <1>5, EndsFound
<1>7. PICK E \in (s + 3)..S : CutAt(slash, colon, n, s, E, S) /\ UrlFound(u, s, E, S)
  BY <1>6
<1>8. /\ S - (s + 3) = IF slash < 0 THEN n - (s + 3) ELSE slash
      /\ HasPort(colon, slash) <=> E < S
      /\ HasPort(colon, slash) => E - (s + 3) = colon
  BY <1>7, Zenon DEF CutAt
<1>9. /\ pathStart = S - (s + 3)
      /\ withPort <=> E < S
      /\ (IF withPort THEN colon ELSE pathStart) = E - (s + 3)
      /\ E < S => colon + 2 = E - (s + 3) + 2
  <2>1. pathStart = S - (s + 3)
    BY <1>3, <1>8, Zenon
  <2> HIDE DEF pathStart
  <2>2. withPort => colon = E - (s + 3) /\ colon + 2 = E - (s + 3) + 2
    BY <1>2, <1>8, Zenon DEF HasPort
  <2>3. ~withPort => E = S
    BY <1>2, <1>8
  <2> QED
    BY <1>8, <2>1, <2>2, <2>3
<1>10. S \in (s + 3)..Len(u) /\ E \in (s + 3)..S
  BY DEF n
<1>11. /\ host = SubSeq(u, s + 4, E)
       /\ path = SubSeq(u, S + 1, Len(u))
       /\ E < S => port = SubSeq(u, E + 2, S)
       /\ E < S => From(SubSeq(u, E + 1, S), 1) = SubSeq(u, E + 2, S)
       /\ SubSeq(u, E + 1, S) = <<>> <=> ~(E < S)
  <2>1. /\ Upto(From(u, s + 3), E - (s + 3)) = SubSeq(u, s + 4, E)
        /\ From(From(u, s + 3), S - (s + 3)) = SubSeq(u, S + 1, Len(u))
        /\ SubSeq(u, E + 1, S) = <<>> <=> ~(E < S)
        /\ E < S =>
             /\ SubSeq(From(u, s + 3), E - (s + 3) + 2, S - (s + 3)) = SubSeq(u, E + 2, S)
             /\ From(SubSeq(u, E + 1, S), 1) = SubSeq(u, E + 2, S)
    BY <1>10, PartsCut
  <2> HIDE DEF pathStart, withPort
  <2> QED
    BY <1>9, <2>1, Zenon
<1>12. /\ Len(SubSeq(u, 1, s)) = s
       /\ Len(SubSeq(u, s + 4, E)) = E - (s + 3)
       /\ \A ch : ch \in ToSet(SubSeq(u, s + 4, E)) <=> \E i \in (s + 4)..E : u[i] = ch
       /\ Len(SubSeq(u, E + 1, S)) = S - E
       /\ E < S => /\ SubSeq(u, E + 1, S)[1] = u[E + 1]
                   /\ Len(SubSeq(u, E + 2, S)) = S - (E + 1)
                   /\ \A ch : ch \in ToSet(SubSeq(u, E + 2, S))
                                <=> \E i \in (E + 2)..S : u[i] = ch
       /\ Len(SubSeq(u, S + 1, Len(u))) = Len(u) - S
       /\ SubSeq(u, S + 1, Len(u)) = <<>> <=> S = Len(u)
       /\ S < Len(u) => SubSeq(u, S + 1, Len(u))[1] = u[S + 1]
  BY <1>10, PartsHold
<1>13. scheme = SubSeq(u, 1, s)
  BY DEF Upto
<1> HIDE DEF scheme, rest, pathStart, withPort, host, port, path
<1>14. /\ Lower(scheme) \in DOMAIN DefaultPort
            <=> scheme \in {<<"http">>, <<"HTTP">>, <<"https">>}
       /\ scheme \in {<<"http">>, <<"HTTP">>, <<"https">>} =>
            DefaultPort[Lower(scheme)]
              = IF scheme = <<"https">> THEN <<"4", "4", "3">> ELSE <<"8", "0">>
  BY PortOfScheme
<1>15. bad <=> ~UrlFits(u, s, E, S)
  <2> DEFINE known == Lower(scheme) \in DOMAIN DefaultPort
             digits == \A i \in (E + 2)..S : u[i] \in Digit
  <2>1. Len(scheme) = s /\ Len(host) = E - (s + 3) /\ Len(path) = Len(u) - S
    BY <1>11, <1>12, <1>13
  <2>2. E < S => Len(port) = S - (E + 1) /\ (ToSet(port) \subseteq Digit <=> digits)
    <3> HIDE DEF digits
    <3>1. E < S => Len(port) = S - (E + 1)
      BY <1>11, <1>12
    <3>2. ASSUME E < S PROVE ToSet(port) \subseteq Digit <=> digits
      <4>1. \A ch : ch \in ToSet(port) <=> \E i \in (E + 2)..S : u[i] = ch
        BY <1>11, <1>12, <3>2, Zenon
      <4> QED
        BY <4>1, Zenon DEF digits
    <3> QED
      BY <3>1, <3>2
  <2>3. UrlFits(u, s, E, S) <=>
            /\ s \in 1..(SchemeSize - 1)
            /\ E - (s + 3) \in 1..(HostSize - 1)
            /\ IF E < S THEN S - (E + 1) \in 1..(PortSize - 1) /\ digits ELSE known
            /\ Len(u) - S < PathSize
    BY <1>13, <1>14, Zenon DEF UrlFits
  <2> HIDE DEF known, digits
  <2>4. bad <=> \/ s < 0
                \/ ~Fits(scheme, SchemeSize)
                \/ ~Fits(host, HostSize)
                \/ withPort /\ ~(Fits(port, PortSize) /\ ToSet(port) \subseteq Digit)
                \/ Len(path) >= PathSize
                \/ ~withPort /\ ~known
    BY DEF known
  <2>5. {SchemeSize, HostSize, PortSize, PathSize} \subseteq Nat /\ Len(u) - S \in Int
    BY <1>2, UrlSizes
  <2>6. /\ ~(s < 0)
        /\ Fits(scheme, SchemeSize) <=> s \in 1..(SchemeSize - 1)
        /\ Fits(host, HostSize) <=> E - (s + 3) \in 1..(HostSize - 1)
        /\ Len(path) >= PathSize <=> ~(Len(u) - S < PathSize)
    BY <1>2, <2>1, <2>5 DEF Fits
  <2>7. E < S => (Fits(port, PortSize) <=> S - (E + 1) \in 1..(PortSize - 1))
    BY <2>2 DEF Fits
  <2> QED
    BY <1>9, <2>2, <2>3, <2>4, <2>6, <2>7, Zenon
<1>16. UrlFits(u, s, E, S) => parts = UrlParts(u, s, E, S)
  <2> SUFFICES ASSUME UrlFits(u, s, E, S) PROVE parts = UrlParts(u, s, E, S)
    OBVIOUS
  <2> DEFINE given   == SubSeq(u, E + 1, S)
             default == IF scheme = <<"https">> THEN <<"4", "4", "3">> ELSE <<"8", "0">>
             slashes == IF path = <<>> THEN <<"/">> ELSE path
             p       == IF given # <<>> THEN From(given, 1) ELSE default
             q       == IF withPort THEN port ELSE DefaultPort[Lower(scheme)]
  <2>1. UrlParts(u, s, E, S) = [rc |-> "SUCCESS", scheme |-> scheme, host |-> host,
                                port |-> p, path |-> slashes]
    BY <1>11, <1>13, Zenon DEF UrlParts
  <2>2. p = q
    <3>1. CASE E < S
      BY <1>9, <1>11, <3>1, Zenon
    <3>2. CASE ~(E < S)
      <4>1. scheme \in {<<"http">>, <<"HTTP">>, <<"https">>}
        BY <1>13, <3>2, Zenon DEF UrlFits
      <4>2. DefaultPort[Lower(scheme)] = default
        BY <1>14, <4>1, Zenon
      <4> QED
        BY <1>9, <1>11, <3>2, <4>2, Zenon
    <3> QED
      BY <3>1, <3>2
  <2>3. parts = [rc |-> "SUCCESS", scheme |-> scheme, host |-> host, port |-> q, path |-> slashes]
    OBVIOUS
  <2> QED
    BY <2>1, <2>2, <2>3, Zenon
<1>17. http_parser_url(u) = IF UrlFits(u, s, E, S) THEN UrlParts(u, s, E, S) ELSE BadFormat
  <2> HIDE DEF bad, parts
  <2> QED
    BY <1>1, <1>15, <1>16
<1> QED
  BY <1>7, <1>10, <1>17

(* Where the scheme ends.                                                  *)
LEMMA SchemeFound ==
    ASSUME NEW u \in Seq(STRING)
    PROVE  LET s == Before(u, <<":", "/", "/">>) IN
           \/ s = -1 /\ \A i \in 0..(Len(u) - 3) : ~SchemeEnds(u, i)
           \/ /\ s \in 0..(Len(u) - 3) /\ SchemeEnds(u, s)
              /\ \A i \in 0..(s - 1) : ~SchemeEnds(u, i)
<1> DEFINE sep == <<":", "/", "/">>
           n   == Len(sep)
           s   == Before(u, sep)
<1>1. sep \in Seq({":", "/"})
  OBVIOUS
<1>2. n = 3
  OBVIOUS
<1>3. \A i : SchemeEnds(u, i) <=> SubSeq(u, i + 1, i + n) = sep
  BY <1>2, Zenon DEF SchemeEnds
<1> HIDE DEF sep
<1>4. \/ /\ s = -1
         /\ \A i \in 0..(Len(u) - n) : SubSeq(u, i + 1, i + n) # sep
      \/ /\ s \in 0..(Len(u) - n)
         /\ SubSeq(u, s + 1, s + n) = sep
         /\ \A i \in 0..(s - 1) : SubSeq(u, i + 1, i + n) # sep
  BY <1>1, BeforeIs
<1> HIDE DEF n, s
<1>5. \/ s = -1 /\ \A i \in 0..(Len(u) - 3) : ~SchemeEnds(u, i)
      \/ /\ s \in 0..(Len(u) - 3) /\ SchemeEnds(u, s)
         /\ \A i \in 0..(s - 1) : ~SchemeEnds(u, i)
  BY <1>2, <1>3, <1>4, Zenon
<1> QED
  BY <1>5, Zenon DEF s, sep

(* UrlCut, character by character.                                         *)
LEMMA UrlCutIs ==
    ASSUME NEW u \in Seq(STRING), NEW a \in 0..Len(u), a + 3 <= Len(u),
           NEW c \in (a + 3)..Len(u), NEW b \in (a + 3)..c
    PROVE  UrlCut(u, a, b, c) <=>
             /\ SchemeEnds(u, a) /\ \A i \in 0..(a - 1) : ~SchemeEnds(u, i)
             /\ a \in 1..(SchemeSize - 1)
             /\ b - (a + 3) \in 1..(HostSize - 1)
             /\ \A i \in (a + 4)..b : u[i] # ":" /\ u[i] # "/"
             /\ \/ ~(b < c) /\ SubSeq(u, 1, a) \in {<<"http">>, <<"HTTP">>, <<"https">>}
                \/ /\ b < c /\ c - (b + 1) \in 1..(PortSize - 1)
                   /\ u[b + 1] = ":" /\ \A i \in (b + 2)..c : u[i] \in Digit
             /\ c = Len(u) \/ (u[c + 1] = "/" /\ Len(u) - c < PathSize)
<1> DEFINE n      == Len(u)
           scheme == SubSeq(u, 1, a)
           host   == SubSeq(u, a + 4, b)
           port   == SubSeq(u, b + 1, c)
           path   == SubSeq(u, c + 1, Len(u))
           known  == scheme \in {<<"http">>, <<"HTTP">>, <<"https">>}
           ends   == SchemeEnds(u, a) /\ \A i \in 0..(a - 1) : ~SchemeEnds(u, i)
           named  == \A i \in (a + 4)..b : u[i] # ":" /\ u[i] # "/"
           number == \A i \in (b + 2)..c : u[i] \in Digit
<1>1. /\ Len(scheme) = a
      /\ Len(host) = b - (a + 3)
      /\ \A ch : ch \in ToSet(host) <=> \E i \in (a + 4)..b : u[i] = ch
      /\ Len(port) = c - b
      /\ b < c => /\ port[1] = u[b + 1]
                  /\ Len(SubSeq(u, b + 2, c)) = c - (b + 1)
                  /\ \A ch : ch \in ToSet(SubSeq(u, b + 2, c)) <=> \E i \in (b + 2)..c : u[i] = ch
      /\ Len(path) = n - c
      /\ path = <<>> <=> c = n
      /\ c < n => path[1] = u[c + 1]
  BY PartsHold
<1>2. port = <<>> <=> ~(b < c)
  BY PartsCut
<1>3. b < c => From(port, 1) = SubSeq(u, b + 2, c)
  BY PartsCut
<1>4. ToSet(host) \cap {":", "/"} = {} <=> named
  <2>1. ToSet(host) \cap {":", "/"} = {} <=> ":" \notin ToSet(host) /\ "/" \notin ToSet(host)
    <3> HIDE DEF host
    <3> QED
      OBVIOUS
  <2> QED
    BY <1>1, <2>1, Zenon
<1>5. ASSUME b < c PROVE ToSet(From(port, 1)) \subseteq Digit <=> number
  <2>1. \A ch : ch \in ToSet(From(port, 1)) <=> \E i \in (b + 2)..c : u[i] = ch
    BY <1>1, <1>3, <1>5, Zenon
  <2> HIDE DEF port
  <2> QED
    BY <2>1, Zenon
<1>6. UrlCut(u, a, b, c) <=>
        /\ a + 3 <= b /\ b <= c /\ ends
        /\ Len(scheme) \in 1..(SchemeSize - 1)
        /\ Len(host) \in 1..(HostSize - 1)
        /\ ToSet(host) \cap {":", "/"} = {}
        /\ \/ port = <<>> /\ known
           \/ /\ Len(port) \in 2..PortSize
              /\ port[1] = ":" /\ ToSet(From(port, 1)) \subseteq Digit
        /\ path = <<>> \/ (path[1] = "/" /\ Len(path) < PathSize)
  BY DEF UrlCut
<1>7. /\ n \in Nat /\ a \in Nat /\ b \in Nat /\ c \in Nat /\ a + 3 <= b /\ b <= c /\ c <= n
      /\ PortSize \in Nat
  BY UrlSizes
<1> HIDE DEF n, scheme, host, port, path, known, ends, named, number
<1>8. (\/ port = <<>> /\ known
       \/ /\ Len(port) \in 2..PortSize
          /\ port[1] = ":" /\ ToSet(From(port, 1)) \subseteq Digit)
      <=> (\/ ~(b < c) /\ known
           \/ b < c /\ c - (b + 1) \in 1..(PortSize - 1) /\ u[b + 1] = ":" /\ number)
  <2>1. CASE b < c
    <3>1. Len(port) \in 2..PortSize <=> c - (b + 1) \in 1..(PortSize - 1)
      <4>1. Len(port) = c - b
        BY <1>1, Zenon
      <4>2. c - b \in 2..PortSize <=> c - (b + 1) \in 1..(PortSize - 1)
        BY <1>7
      <4> QED
        BY <4>1, <4>2, Zenon
    <3> QED
      BY <1>1, <1>2, <1>5, <2>1, <3>1, Zenon
  <2>2. CASE ~(b < c)
    <3>1. ~(Len(port) \in 2..PortSize)
      <4>1. Len(port) = c - b
        BY <1>1, Zenon
      <4>2. ~(c - b \in 2..PortSize)
        BY <1>7, <2>2
      <4> QED
        BY <4>1, <4>2, Zenon
    <3> QED
      BY <1>2, <2>2, <3>1, Zenon
  <2> QED
    BY <2>1, <2>2
<1>9. (path = <<>> \/ (path[1] = "/" /\ Len(path) < PathSize))
      <=> (c = n \/ (u[c + 1] = "/" /\ n - c < PathSize))
  <2>1. c = n \/ c < n
    BY <1>7
  <2> QED
    BY <1>1, <2>1, Zenon
<1>10. UrlCut(u, a, b, c) <=>
         /\ ends
         /\ a \in 1..(SchemeSize - 1)
         /\ b - (a + 3) \in 1..(HostSize - 1)
         /\ named
         /\ \/ ~(b < c) /\ known
            \/ b < c /\ c - (b + 1) \in 1..(PortSize - 1) /\ u[b + 1] = ":" /\ number
         /\ c = n \/ (u[c + 1] = "/" /\ n - c < PathSize)
  BY <1>1, <1>4, <1>6, <1>7, <1>8, <1>9, Zenon
<1> QED
  BY <1>10, Zenon DEF n, scheme, known, ends, named, number

(* No other way to cut a URL than the parser's, and the parser's is one    *)
(* exactly if it accepts the URL.                                          *)
LEMMA OneReading ==
    ASSUME NEW u \in Seq(STRING), NEW s \in 0..Len(u), s + 3 <= Len(u),
           SchemeEnds(u, s), \A i \in 0..(s - 1) : ~SchemeEnds(u, i),
           NEW S \in (s + 3)..Len(u), NEW E \in (s + 3)..S, UrlFound(u, s, E, S)
    PROVE  /\ UrlFits(u, s, E, S) <=> UrlCut(u, s, E, S)
           /\ \A a \in 0..Len(u), b \in 0..Len(u), c \in 0..Len(u) :
                 UrlCut(u, a, b, c) => a = s /\ b = E /\ c = S
<1> DEFINE n     == Len(u)
           known == SubSeq(u, 1, s) \in {<<"http">>, <<"HTTP">>, <<"https">>}
           number == \A i \in (E + 2)..S : u[i] \in Digit
<1>1. n \in Nat
  OBVIOUS
<1>2. /\ \A i \in (s + 4)..S : u[i] # "/"
      /\ S = n \/ u[S + 1] = "/"
      /\ \A i \in (s + 4)..E : u[i] # ":"
      /\ E = S \/ u[E + 1] = ":"
  <2>1. s + 3 + 1 = s + 4
    OBVIOUS
  <2> QED
    BY <2>1, Zenon DEF UrlFound, FirstEnds
<1>3. UrlFits(u, s, E, S) <=> UrlCut(u, s, E, S)
  <2>1. \A i \in (s + 4)..E : u[i] # ":" /\ u[i] # "/"
    <3>1. \A i \in (s + 4)..E : i \in (s + 4)..S
      OBVIOUS
    <3> QED
      BY <1>2, <3>1, Zenon
  <2>2. UrlCut(u, s, E, S) <=>
          /\ s \in 1..(SchemeSize - 1)
          /\ E - (s + 3) \in 1..(HostSize - 1)
          /\ \/ ~(E < S) /\ known
             \/ E < S /\ S - (E + 1) \in 1..(PortSize - 1) /\ u[E + 1] = ":" /\ number
          /\ S = n \/ (u[S + 1] = "/" /\ n - S < PathSize)
    <3>1. UrlCut(u, s, E, S) <=>
             /\ SchemeEnds(u, s) /\ \A i \in 0..(s - 1) : ~SchemeEnds(u, i)
             /\ s \in 1..(SchemeSize - 1)
             /\ E - (s + 3) \in 1..(HostSize - 1)
             /\ \A i \in (s + 4)..E : u[i] # ":" /\ u[i] # "/"
             /\ \/ ~(E < S) /\ SubSeq(u, 1, s) \in {<<"http">>, <<"HTTP">>, <<"https">>}
                \/ /\ E < S /\ S - (E + 1) \in 1..(PortSize - 1)
                   /\ u[E + 1] = ":" /\ \A i \in (E + 2)..S : u[i] \in Digit
             /\ S = Len(u) \/ (u[S + 1] = "/" /\ Len(u) - S < PathSize)
      BY UrlCutIs
    <3> QED
      BY <2>1, <3>1, Zenon
  <2>3. UrlFits(u, s, E, S) <=>
          /\ s \in 1..(SchemeSize - 1)
          /\ E - (s + 3) \in 1..(HostSize - 1)
          /\ IF E < S THEN S - (E + 1) \in 1..(PortSize - 1) /\ number ELSE known
          /\ n - S < PathSize
    BY Zenon DEF UrlFits
  <2>4. E < S => u[E + 1] = ":"
    <3>1. E < S => E # S
      OBVIOUS
    <3> QED
      BY <1>2, <3>1, Zenon
  <2>5. n - S < PathSize <=> (S = n \/ (u[S + 1] = "/" /\ n - S < PathSize))
    <3>1. S = n => n - S < PathSize
      BY <1>1, UrlSizes
    <3> QED
      BY <1>2, <3>1, Zenon
  <2> HIDE DEF n, known, number
  <2> QED
    BY <2>2, <2>3, <2>4, <2>5, Zenon
<1>4. ASSUME NEW a \in 0..n, NEW b \in 0..n, NEW c \in 0..n, UrlCut(u, a, b, c)
      PROVE  a = s /\ b = E /\ c = S
  <2>1. a + 3 <= b /\ b <= c
    BY <1>4, Zenon DEF UrlCut
  <2>2. /\ a \in 0..Len(u) /\ a + 3 <= Len(u)
        /\ c \in (a + 3)..Len(u) /\ b \in (a + 3)..c
    BY <1>1, <2>1
  <2>3. /\ SchemeEnds(u, a) /\ \A i \in 0..(a - 1) : ~SchemeEnds(u, i)
        /\ \A i \in (a + 4)..b : u[i] # ":" /\ u[i] # "/"
        /\ \/ ~(b < c)
           \/ /\ b < c
              /\ u[b + 1] = ":" /\ \A i \in (b + 2)..c : u[i] \in Digit
        /\ c = Len(u) \/ u[c + 1] = "/"
    <3>1. UrlCut(u, a, b, c) <=>
             /\ SchemeEnds(u, a) /\ \A i \in 0..(a - 1) : ~SchemeEnds(u, i)
             /\ a \in 1..(SchemeSize - 1)
             /\ b - (a + 3) \in 1..(HostSize - 1)
             /\ \A i \in (a + 4)..b : u[i] # ":" /\ u[i] # "/"
             /\ \/ ~(b < c) /\ SubSeq(u, 1, a) \in {<<"http">>, <<"HTTP">>, <<"https">>}
                \/ /\ b < c /\ c - (b + 1) \in 1..(PortSize - 1)
                   /\ u[b + 1] = ":" /\ \A i \in (b + 2)..c : u[i] \in Digit
             /\ c = Len(u) \/ (u[c + 1] = "/" /\ Len(u) - c < PathSize)
      BY <2>2, UrlCutIs
    <3> QED
      BY <1>4, <3>1, Zenon
  <2>4. a = s
    <3>1. ~(a < s)
      <4>1. a < s => a \in 0..(s - 1)
        BY <2>2
      <4> QED
        BY <2>3, <4>1, Zenon
    <3>2. ~(s < a)
      <4>1. s < a => s \in 0..(a - 1)
        BY <2>2
      <4> QED
        BY <2>3, <4>1, Zenon
    <3> QED
      BY <2>2, <3>1, <3>2
  <2> DEFINE h == s + 3
  <2>5. /\ h \in 0..n /\ S \in h..n /\ E \in h..S /\ b \in h..n /\ c \in b..n
        /\ h + 1 = s + 4 /\ h + 1 = a + 4
        /\ ~(b < c) => c = b
    BY <1>1, <2>2, <2>4
  <2>6. FirstEnds(u, n, h, E, S) /\ Authority(u, n, h, b, c)
    BY <1>2, <2>3, <2>5, Zenon DEF FirstEnds, Authority
  <2> HIDE DEF h, n
  <2>7. b = E /\ c = S
    BY <1>1, <2>5, <2>6, OneCut
  <2> QED
    BY <2>4, <2>7
<1> QED
  BY <1>3, <1>4, Zenon

(* The ways to read a URL are what the parser returns.                     *)
LEMMA ReadingsParsed ==
    ASSUME NEW u \in Seq(STRING)
    PROVE  UrlReadings(u) = IF http_parser_url(u).rc = "SUCCESS" THEN {http_parser_url(u)} ELSE {}
<1> DEFINE n == Len(u)
           C == {x \in (0..n) \X (0..n) \X (0..n) : UrlCut(u, x[1], x[2], x[3])}
           r == http_parser_url(u)
<1>1. UrlReadings(u) = {UrlParts(u, x[1], x[2], x[3]) : x \in C}
  BY DEF UrlReadings
<1>2. \A a, b, c : UrlParts(u, a, b, c).rc = "SUCCESS"
  BY DEF UrlParts
<1>3. BadFormat.rc # "SUCCESS"
  BY DEF BadFormat
<1>4. n \in Nat
  OBVIOUS
<1> DEFINE s == Before(u, <<":", "/", "/">>)
<1>5. \/ s = -1 /\ \A i \in 0..(n - 3) : ~SchemeEnds(u, i)
      \/ /\ s \in 0..(n - 3) /\ SchemeEnds(u, s)
         /\ \A i \in 0..(s - 1) : ~SchemeEnds(u, i)
  BY SchemeFound, Zenon
<1>6. CASE s = -1 /\ \A i \in 0..(n - 3) : ~SchemeEnds(u, i)
  <2>1. C = {}
    <3> SUFFICES ASSUME NEW a \in 0..n, NEW b \in 0..n, NEW c \in 0..n, UrlCut(u, a, b, c)
                 PROVE  FALSE
      OBVIOUS
    <3>1. a + 3 <= b /\ SchemeEnds(u, a)
      BY Zenon DEF UrlCut
    <3>2. a \in 0..(n - 3)
      BY <1>4, <3>1
    <3> QED
      BY <1>6, <3>1, <3>2, Zenon
  <2>2. r = BadFormat
    <3>1. s < 0
      <4> HIDE DEF s
      <4> QED
        BY <1>6
    <3> QED
      BY <3>1, Zenon DEF http_parser_url
  <2> HIDE DEF C, r
  <2> QED
    BY <1>1, <1>3, <2>1, <2>2 DEF r
<1>7. CASE /\ s \in 0..(n - 3) /\ SchemeEnds(u, s)
           /\ \A i \in 0..(s - 1) : ~SchemeEnds(u, i)
  <2>1. PICK z \in 0..n : z = s /\ z + 3 <= n
    <3> HIDE DEF s
    <3> QED
      BY <1>4, <1>7
  <2>2. /\ Before(u, <<":", "/", "/">>) = z /\ SchemeEnds(u, z)
        /\ \A i \in 0..(z - 1) : ~SchemeEnds(u, i)
    BY <1>7, <2>1, Zenon
  <2>3. PICK S \in (z + 3)..n : \E E \in (z + 3)..S :
              /\ UrlFound(u, z, E, S)
              /\ r = IF UrlFits(u, z, E, S) THEN UrlParts(u, z, E, S) ELSE BadFormat
    BY <2>1, <2>2, UrlParsed, Zenon
  <2>4. PICK E \in (z + 3)..S :
              /\ UrlFound(u, z, E, S)
              /\ r = IF UrlFits(u, z, E, S) THEN UrlParts(u, z, E, S) ELSE BadFormat
    BY <2>3, Zenon
  <2>5. /\ UrlFits(u, z, E, S) <=> UrlCut(u, z, E, S)
        /\ \A a \in 0..n, b \in 0..n, c \in 0..n :
              UrlCut(u, a, b, c) => a = z /\ b = E /\ c = S
    BY <2>1, <2>2, <2>4, OneReading, Zenon
  <2>6. E \in 0..n /\ S \in 0..n
    BY <1>4, <2>1
  <2> DEFINE cut == <<z, E, S>>
  <2>7. cut \in (0..n) \X (0..n) \X (0..n) /\ cut[1] = z /\ cut[2] = E /\ cut[3] = S
    BY <2>6
  <2>8. \A x \in C : x = cut
    BY <2>5
  <2>9. C = IF UrlFits(u, z, E, S) THEN {cut} ELSE {}
    <3> HIDE DEF n, cut
    <3> QED
      BY <2>5, <2>7, <2>8
  <2>10. UrlParts(u, cut[1], cut[2], cut[3]) = UrlParts(u, z, E, S)
    OBVIOUS
  <2> HIDE DEF C, r, cut
  <2>11. CASE UrlFits(u, z, E, S)
    <3>1. UrlReadings(u) = {UrlParts(u, z, E, S)}
      BY <1>1, <2>9, <2>10, <2>11
    <3>2. r = UrlParts(u, z, E, S) /\ r.rc = "SUCCESS"
      BY <1>2, <2>4, <2>11, Zenon
    <3> QED
      BY <3>1, <3>2, Zenon DEF r
  <2>12. CASE ~UrlFits(u, z, E, S)
    <3>1. UrlReadings(u) = {}
      BY <1>1, <2>9, <2>12
    <3>2. r.rc # "SUCCESS"
      BY <1>3, <2>4, <2>12, Zenon
    <3> QED
      BY <3>1, <3>2, Zenon DEF r
  <2> QED
    BY <2>11, <2>12
<1> QED
  BY <1>5, <1>6, <1>7

(* http_parser_url accepts a URL exactly if there is a way to read it, the *)
(* way is the only one, and what it returns is that reading, for texts of  *)
(* every length and for arrays of every size.                              *)
THEOREM UrlIsExact == Spec => []UrlExact
<1>1. Init => UrlExact
  BY DEF Init, Idle, UrlExact
<1>2. ASSUME UrlExact, [Next]_call
      PROVE  UrlExact'
  <2>1. CASE ParseUrl
    <3>1. PICK u \in Urls : call' = [fn |-> "url", in |-> u, out |-> http_parser_url(u)]
      BY <2>1, Zenon DEF ParseUrl, Call
    <3>2. call'.in = u /\ call'.out = http_parser_url(u)
      BY <3>1
    <3>3. u \in Seq(STRING)
      BY UrlAssumption
    <3>4. UrlReadings(u) = IF http_parser_url(u).rc = "SUCCESS" THEN {http_parser_url(u)} ELSE {}
      BY <3>3, ReadingsParsed
    <3> QED
      BY <3>2, <3>4, Zenon DEF UrlExact
  <2>2. CASE UNCHANGED call
    BY <1>2, <2>2, Zenon DEF UrlExact
  <2>3. CASE Next /\ ~ParseUrl
    <3>1. call'.fn # "url"
      BY <2>3, OtherCalls
    <3> QED
      BY <3>1, Zenon DEF UrlExact
  <2> QED
    BY <1>2, <2>1, <2>2, <2>3
<1> QED
  BY <1>1, <1>2, PTL DEF Spec
=============================================================================
