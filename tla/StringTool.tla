----------------------------- MODULE StringTool -----------------------------
(***************************************************************************)
(* Text: matching of wildcards (StringTool::strmatch over the list that    *)
(* parseMatchPattern makes), the search for a substring, substitution in a *)
(* rule (RegSub), and the functions that split, quote and encode lines.  A *)
(* character is a one-letter string ("q" is a quote).  Only the case of    *)
(* "a" and "A" is told apart.                                              *)
(***************************************************************************)
EXTENDS Integers, Sequences, FiniteSets, SequencesExt, FiniteSetsExt

(***************************************************************************)
(* Dates: parseHttpTime reads the three forms of a date, and getLogTime    *)
(* writes one with the offset of the local time.  A date arrives as        *)
(* tokens: a number (its digits together), a word, or one of the           *)
(* characters the parser tells apart.                                      *)
(***************************************************************************)

CONSTANTS
    DtYears,   \* the years tried
    DtDays,    \* the days of a month tried
    DtClocks,  \* the times of day tried: <<hour, minute, second>>
    DtOffsets, \* the offsets of local time tried, in minutes
    MaxBent    \* bound of the model: tokens changed in a date

VARIABLES dt, lg
dtVars == <<dt, lg>>

-----------------------------------------------------------------------------
(* The calendar, for reference: days since 1970 counted year by year.      *)
leap(y) == (y % 4 = 0 /\ y % 100 # 0) \/ y % 400 = 0
monthLen(y, m) == CASE m \in {4, 6, 9, 11} -> 30 [] m = 2 -> IF leap(y) THEN 29 ELSE 28 [] OTHER -> 31
daysBefore(y, m) == MapThenSumSet(LAMBDA k : monthLen(y, k), 1 .. m - 1)
daysSince1970(y, m, d) == MapThenSumSet(LAMBDA k : IF leap(k) THEN 366 ELSE 365, 1970 .. y - 1) + daysBefore(y, m) + d - 1
(* A second is its day and its second of the day.                          *)
secondOf(t) == [day |-> daysSince1970(t.year, t.mon, t.day), sec |-> t.clock[3] + 60 * (t.clock[2] + 60 * t.clock[1])]
Refused == [day |-> 0, sec |-> 0]

Times == {t \in [year : DtYears, mon : 1 .. 12, day : DtDays, clock : DtClocks] : t.day <= monthLen(t.year, t.mon)}

-----------------------------------------------------------------------------
(* The three forms of RFC 2616, as tokens. *)
number(n) == [kind |-> "num", val |-> n]
month(m) == [kind |-> "mon", val |-> m]
word(m) == [kind |-> "word", val |-> m]     \* the month its letters give, 0 for none
sep(c) == [kind |-> c, val |-> 0]
blank == sep(" ")
clockTokens(c) == <<number(c[1]), sep(":"), number(c[2]), sep(":"), number(c[3])>>
tokens(t, form) ==
    CASE form = "1123" -> <<word(0), sep(","), blank, number(t.day), blank, month(t.mon), blank, number(t.year), blank>>
                             \o clockTokens(t.clock) \o <<blank, word(0)>>
      [] form = "850" -> <<word(0), sep(","), blank, number(t.day), sep("-"), month(t.mon), sep("-"), number(t.year % 100), blank>>
                             \o clockTokens(t.clock) \o <<blank, word(0)>>
      [] OTHER -> <<word(0), blank, month(t.mon), blank, number(t.day), blank>> \o clockTokens(t.clock)
                             \o <<blank, number(t.year)>>

-----------------------------------------------------------------------------
(* The parser.  fail: it has returned 0.                                   *)
startParse == [state |-> "START", type |-> 0, n |-> 0, flag |-> TRUE, fail |-> FALSE,
               mon |-> 0, day |-> 0, year |-> 0, hour |-> 24, min |-> 60, sec |-> 60]

isalpha(k) == k.kind \in {"word", "mon"}
isnum(k) == k.kind = "num"
refuse(p) == [p EXCEPT !.fail = TRUE]

inStart(p, k) ==
    CASE k.kind = " " -> [p EXCEPT !.state = "MON", !.n = 0, !.type = 3]
      [] k.kind = "," -> [p EXCEPT !.state = "DAY"]
      [] OTHER -> p
(* n counts the letters of the month.  The month goes by one to three of   *)
(* them, so that "Abc" is August, "Mon" May and "Sun" September; a word    *)
(* such as "Tue" leaves one that none of the cases below knows.            *)
inMon(p, k) ==
    CASE k.kind = " " /\ p.n = 0 -> p
      [] isalpha(k) -> IF p.n = 0 THEN [p EXCEPT !.n = 3, !.mon = k.val] ELSE p
      [] ~isalpha(k) /\ ~(k.kind = " " /\ p.n = 0) ->
            IF p.n < 3 \/ (p.type = 1 /\ k.kind # " ") \/ (p.type = 2 /\ k.kind # "-") THEN refuse(p)
            ELSE [p EXCEPT !.flag = TRUE, !.n = 0, !.state = IF p.type = 3 THEN "DAY" ELSE "YEAR"]
inDay(p, k) ==
    CASE k.kind = " " /\ p.flag -> p
      [] isnum(k) -> [p EXCEPT !.flag = FALSE, !.n = k.val]
      [] k.kind \in {" ", "-"} /\ ~(k.kind = " " /\ p.flag) ->
            LET type == IF p.type # 0 THEN p.type ELSE IF k.kind = " " THEN 1 ELSE 2
            IN  [p EXCEPT !.type = type, !.day = p.n, !.n = 0, !.flag = TRUE, !.state = IF type = 3 THEN "HOUR" ELSE "MON"]
      [] OTHER -> refuse(p)
inYear(p, k) ==
    CASE k.kind = " " /\ p.flag -> p
      [] isnum(k) -> [p EXCEPT !.flag = FALSE, !.year = k.val]
      [] OTHER -> [p EXCEPT !.n = 0, !.flag = TRUE, !.state = IF p.type = 3 THEN "END" ELSE "HOUR"]
inHour(p, k) ==
    CASE k.kind = " " /\ p.flag -> p
      [] isnum(k) -> [p EXCEPT !.flag = FALSE, !.n = k.val]
      [] k.kind = ":" -> [p EXCEPT !.hour = p.n, !.n = 0, !.state = "MIN"]
      [] OTHER -> refuse(p)
inMin(p, k) ==
    CASE isnum(k) -> [p EXCEPT !.n = k.val]
      [] k.kind = ":" -> [p EXCEPT !.min = p.n, !.n = 0, !.state = "SEC"]
      [] OTHER -> refuse(p)
inSec(p, k) ==
    CASE isnum(k) -> [p EXCEPT !.n = k.val]
      [] k.kind = " " -> [p EXCEPT !.sec = p.n, !.n = 0, !.flag = TRUE, !.state = IF p.type = 3 THEN "YEAR" ELSE "END"]
      [] OTHER -> refuse(p)

(* The first character is read twice, which only START could notice.       *)
step(p, k) ==
    IF p.fail \/ p.state = "END" THEN p
    ELSE CASE p.state = "START" -> inStart(p, k)
           [] p.state = "MON" -> inMon(p, k)
           [] p.state = "DAY" -> inDay(p, k)
           [] p.state = "YEAR" -> inYear(p, k)
           [] p.state = "HOUR" -> inHour(p, k)
           [] p.state = "MIN" -> inMin(p, k)
           [] p.state = "SEC" -> inSec(p, k)

(* The table of days, by year % 4 = 0, and the leap days since 1970.       *)
daytab(y, m) == daysBefore(IF y % 4 = 0 THEN 2000 ELSE 2001, m)
yearOf(p) == IF p.year <= 100 THEN p.year + (IF p.year < 70 THEN 2000 ELSE 1900) ELSE p.year
toTime(p) ==
    LET y == yearOf(p)
        read == p.state = "END" \/ (p.type = 3 /\ p.state = "YEAR")
    IN  IF \/ p.fail \/ ~read
           \/ p.sec >= 60 \/ p.min >= 60 \/ p.hour >= 24 \/ p.day = 0 \/ y < 1970
           \/ p.mon = 0
           \/ p.day > daytab(y, p.mon + 1) - daytab(y, p.mon)
        THEN Refused
        ELSE [day |-> p.day - 1 + daytab(y, p.mon) + 365 * (y - 1970) + ((y - 1969) \div 4), sec |-> p.sec + 60 * (p.min + 60 * p.hour)]

parseHttpTime(s) == toTime(FoldLeft(step, startParse, s))

-----------------------------------------------------------------------------
(* getLogTime: the offset is found from the fields of the two times.  The  *)
(* string made last is given again for the same second, whatever bGMT is;  *)
(* the one of second 0, before any was made, is empty.                     *)
yday(y, m, d) == daysBefore(y, m) + d - 1
yearDays(y) == yday(y, 12, 31) + 1
(* The local day of the year and minute of the day, off minutes from t.    *)
shifted(t, off) ==
    LET m == t.clock[1] * 60 + t.clock[2] + off
        d == yday(t.year, t.mon, t.day) + (m \div 1440)
    IN  [hour |-> (m % 1440) \div 60, min |-> m % 60,
         yday |-> IF d < 0 THEN yearDays(t.year - 1) - 1 ELSE d % yearDays(t.year)]

timezone(gmt, local) ==
    LET days == local.yday - gmt.yday
        hours == (IF days < -1 THEN 24 ELSE IF days > 1 THEN -24 ELSE days * 24) + local.hour - gmt.hour
    IN  hours * 60 + local.min - gmt.min

(* The digits of the offset: hours, tens of minutes (0 to 5), minutes.     *)
offsetDigits(tz) ==
    LET a == IF tz > 0 THEN tz ELSE -tz
    IN  [neg |-> tz < 0, hours |-> (a \div 10) \div 6, tens |-> (a \div 10) % 6, ones |-> a % 10]
emptyStr == [neg |-> FALSE, hours |-> -1, tens |-> 0, ones |-> 0]
getLogTime(last, t, off, bGMT) ==
    IF last.time = t THEN last
    ELSE [time |-> t, off |-> off, gmt |-> bGMT,
          out |-> offsetDigits(IF bGMT THEN 0 ELSE timezone(shifted(t, 0), shifted(t, off)))]

-----------------------------------------------------------------------------
(* A date is taken in one of the forms, or with tokens changed; a log line *)
(* is written.                                                             *)
NotRead == [day |-> -1, sec |-> 0]
NoDate == [year |-> 1970, mon |-> 1, day |-> 1, clock |-> <<0, 0, 0>>]
Noise == {number(0), number(61), word(0), word(5), word(8), blank, sep(","), sep("-"), sep(":")}

InitDt ==
    /\ \E t \in Times, form \in {"1123", "850", "asctime"} :
          dt = [time |-> t, form |-> form, text |-> tokens(t, form), bent |-> 0, got |-> NotRead]
    /\ lg = [time |-> NoDate, off |-> 0, gmt |-> TRUE, out |-> emptyStr]

BendDate ==
    /\ dt.got = NotRead /\ dt.bent < MaxBent /\ dt.time.day \in {1, 31} /\ dt.time.mon \in {2, 12}
    /\ \E i \in DOMAIN dt.text, k \in Noise :
          /\ isnum(k) => isnum(dt.text[i])
          /\ isalpha(k) => isalpha(dt.text[i])
          /\ dt' = [dt EXCEPT !.text[i] = k, !.bent = @ + 1]
    /\ UNCHANGED lg
ParseDate == dt.got = NotRead /\ dt' = [dt EXCEPT !.got = parseHttpTime(dt.text)] /\ UNCHANGED lg
LogLine ==
    /\ dt.got = NotRead /\ dt.bent = 0 /\ dt.form = "1123"
    /\ \E off \in DtOffsets, gmt \in BOOLEAN : lg' = getLogTime(lg, dt.time, off, gmt)
    /\ UNCHANGED dt

NextDt == BendDate \/ ParseDate \/ LogLine

-----------------------------------------------------------------------------
(* A date in any of the three forms is the second it names, in every year  *)
(* to 2099 and at every end of a month, when the two digits of RFC 850 are *)
(* taken for 1970 to 2069; a date with a day, hour, minute or second out   *)
(* of range is refused.                                                    *)
yearAt(i) == i = (IF dt.form = "asctime" THEN 13 ELSE 8)
ParsedRight ==
    dt.got # NotRead =>
        /\ dt.bent = 0 /\ (dt.form = "850" => dt.time.year \in 1970 .. 2069) => dt.got = secondOf(dt.time)
        /\ (\E i \in DOMAIN dt.text : dt.text[i] = number(61) /\ ~yearAt(i)) => dt.got = Refused

(* The offset in the string of a second is that of the local time, also    *)
(* when the two times are in different days or years, if the call that     *)
(* made the string was for local time.                                     *)
ZoneRight ==
    LET o == lg.out
    IN  o # emptyStr /\ ~lg.gmt => (IF o.neg THEN -1 ELSE 1) * (o.hours * 60 + o.tens * 10 + o.ones) = lg.off
-----------------------------------------------------------------------------

(***************************************************************************)
(* The multi-pattern search: patterns put into a trie, the trie turned     *)
(* into an automaton with fail links, and the search over a text.  A       *)
(* state is named by the path of labels that leads to it; characters are   *)
(* their codes, so that label lists have an order and cases exist.         *)
(***************************************************************************)

CONSTANTS
    AhoChars,       \* characters of texts
    PatChars,       \* characters of patterns, some of them
    MaxPatterns,    \* bound of the model: patterns added
    MaxPatLen,      \* bound of the model: characters of a pattern
    MaxTextLen      \* bound of the model: characters of a text

VARIABLES
    ac,     \* the trie: label list and output length of every state; flags
    acPats, \* the patterns added so far
    acRun   \* the search: phase, text, position, state, range reported
ahoVars == <<ac, acPats, acRun>>

tolower(c) == IF c \in 65 .. 90 THEN c + 32 ELSE c
toupper(c) == IF c \in 97 .. 122 THEN c - 32 ELSE c
Folded(s, ci) == IF ci THEN [i \in 1 .. Len(s) |-> tolower(s[i])] ELSE s
FAIL == <<0>>
ZeroState == << >>

-----------------------------------------------------------------------------
(* The trie.  Lists of labels are kept in order, and read up to the first  *)
(* label that is too large.                                                *)
goto_list_insert(list, sym) ==
    SelectSeq(list, LAMBDA l : l < sym) \o <<sym>> \o SelectSeq(list, LAMBDA l : ~(l < sym))

ac_goto_get_before_treemake(g, s, sym) ==
    LET big == {i \in DOMAIN g.kids[s] : g.kids[s][i] >= sym}
    IN  IF big # {} /\ g.kids[s][Min(big)] = sym THEN Append(s, sym) ELSE FAIL

ac_goto_get(g, s, sym) ==
    LET to == ac_goto_get_before_treemake(g, s, sym) IN IF to = FAIL /\ s = ZeroState THEN s ELSE to

(* A new state under s. *)
ac_goto_set(g, s, sym) ==
    LET n == Append(s, sym)
    IN  [g EXCEPT !.kids = [t \in DOMAIN g.kids \cup {n} |->
                               IF t = n THEN << >> ELSE IF t = s THEN goto_list_insert(@[s], sym) ELSE @[t]],
                  !.out = [t \in DOMAIN g.out \cup {n} |-> IF t = n THEN 0 ELSE @[t]]]

(* The subtree below s is freed. *)
ac_free_goto_node(g, s) ==
    LET left == {t \in DOMAIN g.kids : ~IsStrictPrefix(s, t)}
    IN  [g EXCEPT !.kids = [t \in left |-> IF t = s THEN << >> ELSE @[t]], !.out = [t \in left |-> @[t]]]

(* How far the trie already follows p.                                     *)
Known(g, p) ==
    {n \in 0 .. Len(p) : \A i \in 1 .. n : ac_goto_get_before_treemake(g, SubSeq(p, 1, i - 1), p[i]) # FAIL}

ac_add_non_unique_pattern(g, pattern) ==
    LET p == Folded(pattern, g.ci)
        j == Max(Known(g, p))
        grown == FoldLeft(LAMBDA a, i : ac_goto_set(a, SubSeq(p, 1, i - 1), p[i]), g, [i \in 1 .. Len(p) - j |-> j + i])
    IN  CASE ~g.noPrefix /\ (\E i \in 1 .. j : g.out[SubSeq(p, 1, i)] > 0) -> g
          [] ~g.noPrefix /\ j = Len(p) -> [ac_free_goto_node(g, p) EXCEPT !.out[p] = Len(p)]
          [] OTHER -> [grown EXCEPT !.out[p] = Len(p)]

(* Fail links, breadth first: that of a state comes from those above it.   *)
ac_maketree(g) ==
    LET ns == DOMAIN g.kids
        fail[n \in ns] ==
            IF Len(n) <= 1 THEN ZeroState
            ELSE LET walk[s \in ns] == IF ac_goto_get(g, s, Last(n)) = FAIL THEN walk[fail[s]]
                                       ELSE ac_goto_get(g, s, Last(n))
                 IN  walk[fail[Front(n)]]
    IN  fail

(* The lists become arrays, each label in both its cases when case does    *)
(* not count.                                                              *)
ac_optimize(list, ci) ==
    IF ci THEN FlattenSeq([i \in 1 .. Len(list) |-> <<toupper(list[i]), tolower(list[i])>>]) ELSE list

-----------------------------------------------------------------------------
(* The search.  The byte after the text is read when the text ends at a    *)
(* first character; it may be anything.                                    *)
labels(s) == ac_optimize(ac.kids[s], ac.ci)
ahoTakes(s, c) == \E i \in DOMAIN labels(s) : labels(s)[i] = c
child(s, c) == Append(s, IF ac.ci THEN tolower(c) ELSE c)

(* The state the loop over fail links stops in: one that takes c, or the   *)
(* zero state, which is not asked, so that c is passed over even when a    *)
(* pattern starts with it.                                                 *)
fallBack(s, c) ==
    LET down[t \in DOMAIN ac.kids] ==
            IF ahoTakes(t, c) THEN t ELSE IF ac.fail[t] = ZeroState THEN ZeroState ELSE down[ac.fail[t]]
    IN  down[s]

InitAho ==
    /\ \E ci, np \in BOOLEAN :
          ac = [ci |-> ci, noPrefix |-> np, kids |-> [s \in {ZeroState} |-> << >>],
                out |-> [s \in {ZeroState} |-> 0], fail |-> [s \in {ZeroState} |-> ZeroState]]
    /\ acPats = {}
    /\ acRun = [phase |-> "add", text |-> << >>, n |-> 0, start |-> 0, at |-> 0, state |-> ZeroState, from |-> -1, to |-> -1]

Patterns == UNION {[1 .. k -> PatChars] : k \in 1 .. MaxPatLen}

AddPattern ==
    /\ acRun.phase = "add" /\ Cardinality(acPats) < MaxPatterns
    /\ \E p \in Patterns \ acPats :
          acPats' = acPats \cup {p} /\ ac' = ac_add_non_unique_pattern(ac, p)
    /\ UNCHANGED acRun

(* The text is one byte longer than the n that may be searched. *)
MakeTree ==
    /\ acRun.phase = "add" /\ acPats # {}
    /\ ac' = [ac EXCEPT !.fail = ac_maketree(ac)]
    /\ \E n \in 1 .. MaxTextLen, pos \in 0 .. 1 : \E t \in [1 .. n + 1 -> AhoChars] :
          /\ pos < n
          /\ acRun' = [acRun EXCEPT !.phase = "search", !.text = t, !.n = n, !.start = pos, !.at = pos]
    /\ UNCHANGED acPats

(* One pass of the loop over the text; at counts from 0 as iStringIter. *)
ac_search ==
    /\ acRun.phase = "search" /\ acRun.at < acRun.n
    /\ LET firsts == {i \in acRun.at .. acRun.n - 1 : ahoTakes(ZeroState, acRun.text[i + 1])}
           fast == acRun.state = ZeroState
           at == IF fast THEN Min(firsts) + 1 ELSE acRun.at
           s0 == IF fast THEN child(ZeroState, acRun.text[at]) ELSE acRun.state
           c == acRun.text[at + 1]
           s == fallBack(s0, c)
           next == child(s, c)
           moved == [acRun EXCEPT !.at = at + 1, !.state = next]
           hit == [moved EXCEPT !.from = at - ac.out[next] + 1, !.to = at + 1,
                                !.phase = IF ac.noPrefix THEN @ ELSE "done"]
       IN  acRun' = CASE fast /\ firsts = {} -> [acRun EXCEPT !.phase = "done"]
                      [] ~(fast /\ firsts = {}) /\ s = ZeroState -> [acRun EXCEPT !.at = at + 1, !.state = s]
                      [] ~(fast /\ firsts = {}) /\ s # ZeroState /\ ac.out[next] = 0 -> moved
                      [] OTHER -> hit
    /\ UNCHANGED <<ac, acPats>>

SearchEnds ==
    /\ acRun.phase = "search" /\ acRun.at >= acRun.n
    /\ acRun' = [acRun EXCEPT !.phase = "done"]
    /\ UNCHANGED <<ac, acPats>>

NextAho == AddPattern \/ MakeTree \/ ac_search \/ SearchEnds

-----------------------------------------------------------------------------
(* A range that ac_search reports holds one of the patterns added, case    *)
(* apart when it does not count, at or after the position it started from: *)
(* fail links always name what has just been read.  The range may end one  *)
(* byte behind the n that were to be searched, where the loop over first   *)
(* characters lets the search read.                                        *)
MatchReal ==
    acRun.from # -1 =>
        /\ acRun.from >= acRun.start /\ acRun.to <= acRun.n + 1
        /\ \E p \in acPats : Folded(p, ac.ci) = Folded(SubSeq(acRun.text, acRun.from + 1, acRun.to), ac.ci)

(* A pattern of two characters or more that stands where ac_search starts  *)
(* is never overlooked (one further on may be), whatever patterns were     *)
(* added before and after it: adding one may drop others only for a prefix *)
(* that is a pattern.  Only a pattern of one character may be that prefix, *)
(* which the loop over first characters passes by.                         *)
StartFound ==
    acRun.phase = "done" /\ acRun.from = -1 =>
        ~\E p \in acPats :
            /\ Len(p) > 1 /\ acRun.start + Len(p) <= acRun.n
            /\ Folded(SubSeq(acRun.text, acRun.start + 1, acRun.start + Len(p)), ac.ci) = Folded(p, ac.ci)
            /\ \A q \in acPats : Len(q) = 1 => Folded(q, ac.ci) # <<Folded(p, ac.ci)[1]>>
-----------------------------------------------------------------------------

CONSTANTS
    MaxGlob,  \* bound of the model: characters of a pattern
    MaxText,  \* bound of the model: characters of a text
    MaxRule,  \* bound of the model: characters of a rule
    CacheSize,  \* CACHE_SIZE (256): characters mempbrk looks at at a time
    MaxTokens,  \* bound of the model: characters of a line
    SubstRoom \* the length of RegSub::exec's output buffer

VARIABLE st
stVars == <<st>>

lower(c) == IF c = "A" THEN "a" ELSE c
sameChar(c, d, sens) == IF sens THEN c = d ELSE lower(c) = lower(d)
sameText(s, t, sens) == Len(s) = Len(t) /\ \A i \in DOMAIN s : sameChar(s[i], t[i], sens)

-----------------------------------------------------------------------------
(* parseMatchPattern: text, runs of "?" and runs of "*" as one.  A         *)
(* backslash takes the character after it as text, whichever it is.        *)
piece(kind, s) == [kind |-> kind, s |-> s]
endText(x) == IF x.text = << >> THEN x.list ELSE Append(x.list, piece("text", x.text))
patternStep(x, c) ==
    LET run == c \in {"*", "?"} /\ ~x.esc
        again == run /\ x.text = << >> /\ x.list # << >> /\ Last(x.list).kind = c /\ x.open
    IN  CASE again -> [x EXCEPT !.list = IF c = "*" THEN @ ELSE Append(Front(@), piece("?", Append(Last(@).s, c)))]
          [] run /\ ~again -> [x EXCEPT !.list = Append(endText(x), piece(c, <<c>>)), !.text = << >>, !.open = TRUE]
          [] c = "\\" /\ ~x.esc -> [x EXCEPT !.esc = TRUE, !.open = FALSE]
          [] OTHER -> [x EXCEPT !.text = Append(@, c), !.esc = FALSE, !.open = FALSE]
parseMatchPattern(pat) ==
    endText(FoldLeft(patternStep, [list |-> << >>, text |-> << >>, esc |-> FALSE, open |-> FALSE], pat))

(* strmatch: 0 matches, 1 does not, -1 when what is left is too short.     *)
(* Pieces at both ends are taken off first, up to a "*"; "?" that follow a *)
(* "*" are then skipped, and the first text searched for.                  *)
takes(src, p, sens) ==
    IF Len(p.s) > Len(src) THEN -1 ELSE IF p.kind = "?" \/ sameText(SubSeq(src, 1, Len(p.s)), p.s, sens) THEN 0 ELSE 1
takesEnd(src, p, sens) ==
    IF Len(p.s) > Len(src) THEN -1
    ELSE IF p.kind = "?" \/ sameText(SubSeq(src, Len(src) - Len(p.s) + 1, Len(src)), p.s, sens) THEN 0 ELSE 1

skipWild(src, list) ==
    LET texts == {i \in DOMAIN list : list[i].kind = "text"}
        n == IF texts = {} THEN Len(list) ELSE Min(texts) - 1
        over == MapThenSumSet(LAMBDA i : IF list[i].kind = "?" THEN Len(list[i].s) ELSE 0, 1 .. n)
    IN  [short |-> over > Len(src), src |-> IF over > Len(src) THEN << >> ELSE SubSeq(src, over + 1, Len(src)),
         list |-> SubSeq(list, n + 1, Len(list))]

RECURSIVE strmatch(_, _, _)
RECURSIVE searchFirst(_, _, _)

(* Without a way back: the first place where the text occurs decides. *)
searchOnce(src, list, sens) ==
    LET at == {i \in DOMAIN src : sameChar(src[i], list[1].s[1], sens)}
    IN  IF at = {} THEN -1 ELSE strmatch(SubSeq(src, Min(at), Len(src)), list, sens)
searchFirst(src, list, sens) ==
    LET at == {i \in DOMAIN src : sameChar(src[i], list[1].s[1], sens)}
        len == Len(list[1].s)
        ret == strmatch(SubSeq(src, Min(at), Len(src)), list, sens)
    IN  CASE Len(src) < len \/ at = {} -> -1
          [] Len(src) >= len /\ at # {} /\ Len(src) - Min(at) + 1 < len -> -1
          [] OTHER -> IF ret # 1 THEN ret ELSE searchFirst(SubSeq(src, Min(at) + 1, Len(src)), list, sens)

strmatch(src, list, sens) ==
    LET skip == skipWild(src, list)
    IN  CASE list # << >> /\ list[1].kind # "*" ->
                IF takes(src, list[1], sens) # 0 THEN takes(src, list[1], sens)
                ELSE strmatch(SubSeq(src, Len(list[1].s) + 1, Len(src)), Tail(list), sens)
          [] list # << >> /\ list[1].kind = "*" /\ Last(list).kind # "*" ->
                IF takesEnd(src, Last(list), sens) # 0 THEN takesEnd(src, Last(list), sens)
                ELSE strmatch(SubSeq(src, 1, Len(src) - Len(Last(list).s)), Front(list), sens)
          [] list = << >> -> IF src = << >> THEN 0 ELSE 1
          [] Len(list) = 1 -> 0
          [] OTHER -> IF skip.list = << >> THEN IF ~skip.short /\ skip.src = << >> THEN 0 ELSE 1
                      ELSE IF skip.short THEN -1 ELSE searchFirst(skip.src, skip.list, sens)

(* What a list means. *)
RECURSIVE means(_, _, _)
means(src, list, sens) ==
    IF list = << >> THEN src = << >>
    ELSE IF list[1].kind = "*" THEN \E n \in 0 .. Len(src) : means(SubSeq(src, n + 1, Len(src)), Tail(list), sens)
    ELSE takes(src, list[1], sens) = 0 /\ means(SubSeq(src, Len(list[1].s) + 1, Len(src)), Tail(list), sens)

-----------------------------------------------------------------------------
(* memmem and strncasestr: the place of needle in text, 0 for none.  Each   *)
(* place with the first character is tried; strncasestr compares that one  *)
(* as a char with an unsigned char, so that "h" (a byte above 127) is not   *)
(* found there.                                                            *)
occurs(text, needle, i, sens) ==
    i + Len(needle) - 1 <= Len(text) /\ sameText(SubSeq(text, i, i + Len(needle) - 1), needle, sens)
RECURSIVE memmem(_, _, _)
memmem(text, needle, from) ==
    LET at == {i \in from .. Len(text) : text[i] = needle[1]}
        i == Min(at)
    IN  IF at = {} \/ Len(text) - i + 1 < Len(needle) THEN 0
        ELSE IF sameText(SubSeq(text, i, i + Len(needle) - 1), needle, TRUE) THEN i
        ELSE memmem(text, needle, i + 1)
RECURSIVE strncasestr(_, _, _)
strncasestr(text, needle, i) ==
    IF i = Len(text) - Len(needle) + 2 THEN 0
    ELSE IF lower(text[i]) = lower(needle[1]) /\ needle[1] # "h"
            /\ sameText(SubSeq(text, i + 1, i + Len(needle) - 1), Tail(needle), FALSE) THEN i
    ELSE strncasestr(text, needle, i + 1)
searched(text, needle, sens) ==
    IF Len(text) < Len(needle) THEN 0 ELSE IF needle = << >> THEN 1
    ELSE IF sens THEN memmem(text, needle, 1) ELSE strncasestr(text, needle, 1)

-----------------------------------------------------------------------------
(* RegSub.  A rule is text with "&" and "$1" for what matched; "\" before  *)
(* "$" or "&" makes it text.  compile lists entries: text, then the number *)
(* of what matched, or -1.                                                 *)
digit(c) == c = "1"
noEntry == [s |-> << >>, param |-> -1]
ruleStep(x, i, rule) ==
    LET c == rule[i]
        after == IF i < Len(rule) THEN rule[i + 1] ELSE ""
        put(ch) == [x EXCEPT !.cur.s = Append(@, ch)]
        end(param) == [x EXCEPT !.list = Append(@, [x.cur EXCEPT !.param = param]), !.cur = noEntry]
    IN  CASE x.skip -> [x EXCEPT !.skip = FALSE]
          [] ~x.skip /\ c = "&" -> end(0)
          [] ~x.skip /\ c = "$" /\ digit(after) -> [end(1) EXCEPT !.skip = TRUE]
          [] ~x.skip /\ c = "\\" /\ after \in {"$", "&"} -> [put(after) EXCEPT !.skip = TRUE]
          [] OTHER -> put(c)
compile(rule) ==
    LET x == FoldLeft(LAMBDA a, i : ruleStep(a, i, rule), [list |-> << >>, cur |-> noEntry, skip |-> FALSE],
                      [i \in 1 .. Len(rule) |-> i])
    IN  IF x.cur.s = << >> THEN x.list ELSE Append(x.list, x.cur)

(* The parts that fit are copied, and the length is that of all of them.   *)
(* matches: what matched, by number.                                       *)
putPart(x, s) ==
    [out |-> IF x.len + Len(s) < SubstRoom THEN x.out \o s ELSE x.out, len |-> x.len + Len(s)]
execSub(list, matches) ==
    LET one(x, e) ==
            LET t == IF e.s # << >> THEN putPart(x, e.s) ELSE x
            IN  IF e.param >= 0 /\ e.param < Len(matches) THEN putPart(t, matches[e.param + 1]) ELSE t
        done == FoldLeft(one, [out |-> << >>, len |-> 0], list)
    IN  [out |-> done.out, len |-> done.len, ok |-> done.len < SubstRoom]

(* What a rule means: character by character, with what each stands for.   *)
RECURSIVE substituted(_, _)
substituted(rule, matches) ==
    LET two == IF Len(rule) >= 2 THEN rule[2] ELSE ""
        rest(n) == substituted(SubSeq(rule, n + 1, Len(rule)), matches)
        matched(i) == IF i < Len(matches) THEN matches[i + 1] ELSE << >>
    IN  CASE rule = << >> -> << >>
          [] rule # << >> /\ rule[1] = "&" -> matched(0) \o rest(1)
          [] rule # << >> /\ rule[1] = "$" /\ two = "1" -> matched(1) \o rest(2)
          [] rule # << >> /\ rule[1] = "\\" /\ two \in {"$", "&"} -> <<two>> \o rest(2)
          [] OTHER -> <<rule[1]>> \o rest(1)

-----------------------------------------------------------------------------
(* mempbrk: the first character of s that is in accept, 0 for none.  Each  *)
(* character of accept is searched in front of what was found before it,   *)
(* CacheSize characters at a time.                                         *)
RECURSIVE mempbrk(_, _)
mempbrk(s, accept) ==
    LET narrow(x, c) ==
            LET at == {i \in 1 .. Min({x.size, CacheSize}) : s[i] = c}
            IN  IF at = {} THEN x ELSE [size |-> Min(at) - 1, min |-> Min(at)]
        here == FoldLeft(narrow, [size |-> Len(s), min |-> 0], accept).min
        later == mempbrk(SubSeq(s, CacheSize + 1, Len(s)), accept)
    IN  IF here # 0 \/ Len(s) <= CacheSize THEN here ELSE IF later = 0 THEN 0 ELSE later + CacheSize
memcspn(s, reject) == LET p == mempbrk(s, reject) IN IF p = 0 THEN Len(s) ELSE p - 1
memspn(s, accept) == Min({i \in 0 .. Len(s) : i = Len(s) \/ s[i + 1] \notin ToSet(accept)})

(* StrParse::parse until it returns NULL.                                  *)
RECURSIVE strParse(_, _)
strParse(s, delim) ==
    LET e == mempbrk(s, delim)
    IN  IF s = << >> THEN << >> ELSE IF e = 0 THEN <<s>>
        ELSE <<SubSeq(s, 1, e - 1)>> \o strParse(SubSeq(s, e + 1, Len(s)), delim)

(* strtrim of a range.                                                     *)
strtrim(s) ==
    LET b == memspn(s, <<" ">>)
        e == {i \in b + 1 .. Len(s) : s[i] # " "}
    IN  IF e = {} THEN << >> ELSE SubSeq(s, b + 1, Max(e))

(* parseNextArg: spaces, then an argument up to the quote it began with or *)
(* to a space; a backslash takes what follows with it.  The end of the     *)
(* line ends a quoted argument, but not one whose last character is a      *)
(* backslash with nothing to take.                                         *)
RECURSIVE argStop(_, _, _)
argStop(s, i, end) ==
    IF i > Len(s) \/ s[i] = end THEN i
    ELSE argStop(s, IF s[i] = "\\" THEN i + 2 ELSE i + 1, end)
parseNextArg(s) ==
    LET b == memspn(s, <<" ">>) + 1
        quoted == b <= Len(s) /\ s[b] = "q"
        begin == IF quoted THEN b + 1 ELSE b
        stop == argStop(s, begin, IF quoted THEN "q" ELSE " ")
    IN  [ret |-> IF stop > Len(s) + 1 /\ ~quoted THEN -1 ELSE 0,
         begin |-> begin, end |-> Min({stop, Len(s) + 1}),
         next |-> IF stop <= Len(s) THEN stop + 1 ELSE stop]

(* memNextArg of len characters: looks for the quote and counts the        *)
(* backslashes in front of it.  Each search is as long as the first one,   *)
(* so that what follows the len characters may be looked at as well.       *)
backslashes(s, i) == i - 1 - Max({1} \cup {j \in 2 .. i - 1 : s[j] # "\\"})
RECURSIVE nextQuote(_, _, _)
nextQuote(s, p, len) ==
    LET at == {i \in p + 1 .. Min({p + len, Len(s)}) : s[i] = "q"}
    IN  IF at = {} THEN 0
        ELSE IF backslashes(s, Min(at)) % 2 = 0 THEN Min(at) ELSE nextQuote(s, Min(at), len)
memNextArg(s, len) ==
    IF s[1] = "q" THEN nextQuote(s, 1, len - 1) ELSE mempbrk(SubSeq(s, 1, len), <<" ">>)

(* unescapeQuote, in place: what is in front of a backslash that escapes   *)
(* the quote moves over it.  The result starts behind the n moved places.  *)
RECURSIVE unescape(_, _)
unescape(x, p) ==
    LET at == {i \in p .. Len(x.buf) - 1 : x.buf[i] = "\\"}
        b == Min(at)
        moved == [i \in DOMAIN x.buf |-> IF i > x.n + 1 /\ i <= b THEN x.buf[i - 1] ELSE x.buf[i]]
    IN  IF at = {} THEN x
        ELSE IF x.buf[b + 1] = "q" THEN unescape([buf |-> moved, n |-> x.n + 1], b + 1)
        ELSE unescape(x, b + 2)
unescapeQuote(s) == LET x == unescape([buf |-> s, n |-> 0], 1) IN SubSeq(x.buf, x.n + 1, Len(x.buf))
RECURSIVE unescaped(_)
unescaped(s) ==
    IF Len(s) < 2 THEN s
    ELSE IF s[1] # "\\" THEN <<s[1]>> \o unescaped(Tail(s))
    ELSE (IF s[2] = "q" THEN <<"q">> ELSE SubSeq(s, 1, 2)) \o unescaped(SubSeq(s, 3, Len(s)))

(* hexEncode of bytes at the start of a buffer into the same buffer, from  *)
(* the end, or into another; hexDecode of the digits.  s_hex is the code   *)
(* of a digit.                                                             *)
s_hex(d) == IF d < 10 THEN 48 + d ELSE 87 + d
hexdigit(ch) == IF ch <= 57 THEN ch - 48 ELSE (ch % 8) + 9
hexEncode(s, same) ==
    LET n == Len(s)
        put(mem, i, byte) == [mem EXCEPT ![2 * i] = s_hex(byte % 16), ![2 * i - 1] = s_hex(byte \div 16)]
        up == [i \in 1 .. n |-> i]
        buf == [i \in 1 .. 2 * n |-> IF same /\ i <= n THEN s[i] ELSE 0]
    IN  IF same THEN FoldLeft(LAMBDA mem, i : put(mem, i, mem[i]), buf, Reverse(up))
        ELSE FoldLeft(LAMBDA mem, i : put(mem, i, s[i]), buf, up)
hexDecode(t) == [i \in 1 .. Len(t) \div 2 |-> hexdigit(t[2 * i - 1]) * 16 + hexdigit(t[2 * i])]

(* str_off_t: digits from the end of the buffer, moved behind the sign.    *)
digitsOf(n) == IF n < 10 THEN <<48 + n>> ELSE IF n < 100 THEN <<48 + n \div 10, 48 + (n % 10)>>
               ELSE <<48 + n \div 100, 48 + ((n \div 10) % 10), 48 + (n % 10)>>
RECURSIVE putDigits(_, _, _)
putDigits(buf, p, val) ==
    LET b == [buf EXCEPT ![p] = 48 + (val % 10)]
    IN  IF val < 10 THEN [buf |-> b, p |-> p] ELSE putDigits(b, p - 1, val \div 10)
str_off_t(len, val) ==
    LET neg == IF val < 0 THEN 1 ELSE 0
        buf == [i \in 1 .. len |-> IF i = 1 /\ val < 0 THEN 45 ELSE 0]
        d == putDigits(buf, len, IF val < 0 THEN -val ELSE val)
        n == len - d.p + 1
    IN  [i \in 1 .. neg + n |-> IF i <= neg THEN d.buf[i] ELSE d.buf[d.p + i - neg - 1]]

(* convertMatchToReg in a buffer with room for so many characters: "?" is  *)
(* ".", a "." is put before each "*"; <<0>> when there is no room.         *)
RECURSIVE toReg(_, _, _)
toReg(s, p, room) ==
    IF p > Len(s) THEN s
    ELSE CASE s[p] = "?" -> toReg([s EXCEPT ![p] = "."], p + 1, room)
           [] s[p] = "*" -> IF Len(s) = room THEN <<"0">>
                            ELSE toReg(SubSeq(s, 1, p - 1) \o <<".">> \o SubSeq(s, p, Len(s)), p + 2, room)
           [] OTHER -> toReg(s, p + 1, room)
convertMatchToReg(s, room) == toReg(s, 1, room)

(* lookupSubString of a key of one character in a list of "key=value"      *)
(* separated by ";": where the value starts and its length, or NULL.       *)
NullText == [at |-> 0, len |-> 0]
firstOf(s, i, c) == Min({j \in i .. Len(s) : s[j] = c} \cup {Len(s) + 1})
pastSpaces(s, i) == Min({j \in i .. Len(s) : s[j] # " "} \cup {Len(s) + 1})
valueAt(s, p) ==
    LET quote == p <= Len(s) /\ s[p] = "q"
        end == firstOf(s, IF quote THEN p + 1 ELSE p, IF quote THEN "q" ELSE ";")
        trimmed == Max({p} \cup {j + 1 : j \in {i \in p .. end - 1 : s[i] # " "}})
    IN  IF p > Len(s) THEN [at |-> p, len |-> 0]
        ELSE IF quote THEN [at |-> p + 1, len |-> end - p - 1] ELSE [at |-> p, len |-> trimmed - p]
RECURSIVE lookupSubString(_, _, _)
lookupSubString(s, i, key) ==
    LET k == pastSpaces(s, i)
        c == pastSpaces(s, k + 1)
        semi == firstOf(s, k, ";")
    IN  IF i > Len(s) \/ k > Len(s) THEN NullText
        ELSE IF s[k] = key /\ (c > Len(s) \/ s[c] = ";") THEN NullText
        ELSE IF s[k] = key /\ s[c] = "=" THEN valueAt(s, pastSpaces(s, c + 1))
        ELSE IF semi > Len(s) THEN NullText ELSE lookupSubString(s, semi + 1, key)

(* findCloseBracket from behind an opening one: where the depth is zero    *)
(* again, or the end.                                                      *)
RECURSIVE closeFrom(_, _, _)
closeFrom(s, i, dep) ==
    IF i > Len(s) THEN i
    ELSE CASE s[i] = "(" -> closeFrom(s, i + 1, dep + 1)
           [] s[i] = ")" -> IF dep = 1 THEN i ELSE closeFrom(s, i + 1, dep - 1)
           [] OTHER -> closeFrom(s, i + 1, dep)
findCloseBracket(s) == closeFrom(s, 1, 1)
RECURSIVE charFrom(_, _, _, _)
charFrom(s, i, dep, c) ==
    IF i > Len(s) \/ (s[i] = ")" /\ dep = 1) THEN 0
    ELSE CASE s[i] = "(" -> charFrom(s, i + 1, dep + 1, c)
           [] s[i] = ")" -> charFrom(s, i + 1, dep - 1, c)
           [] OTHER -> IF dep = 1 /\ s[i] = c THEN i ELSE charFrom(s, i + 1, dep, c)
findCharInBracket(s, c) == charFrom(s, 1, 1, c)

-----------------------------------------------------------------------------
(* The words of a memcached command line, whose last character a carriage  *)
(* return follows, and the numbers among them.  A long has WideMod values  *)
(* and an int NarrowMod; one digit stands for one of base 10.              *)
WideMod == 128
NarrowMod == 32
valueOf(digits) == FoldLeft(LAMBDA n, c : 10 * n + (IF c = "9" THEN 9 ELSE 1), 0, digits)
isDigit(c) == c \in {"1", "9"}

(* advToken from place i: where the word is, its length, where to go on.   *)
advToken(s, i) ==
    LET b == pastSpaces(s, i)
        e == firstOf(s, b, " ")
    IN  IF b > Len(s) THEN [at |-> Len(s) + 1, len |-> 0, next |-> Len(s) + 1]
        ELSE [at |-> b, len |-> e - b, next |-> IF e <= Len(s) THEN e + 1 ELSE e]

RECURSIVE wordsFrom(_, _)
wordsFrom(s, i) ==
    LET w == advToken(s, i) IN IF w.len = 0 THEN << >> ELSE <<w.at>> \o wordsFrom(s, w.next)

(* strtol and its kin, external, at place i of a line: a sign, digits.     *)
strtox(s, i) ==
    LET signed == i <= Len(s) /\ s[i] = "-"
        b == IF signed THEN i + 1 ELSE i
        e == Min({j \in b .. Len(s) : ~isDigit(s[j])} \cup {Len(s) + 1})
    IN  [neg |-> signed, val |-> valueOf(SubSeq(s, b, e - 1)), end |-> IF e = b THEN i ELSE e]

(* Nothing read, or what was read does not end the word.                   *)
notNumber(s, i, r) == r.end = i \/ (r.end <= Len(s) /\ s[r.end] # " ")
NoNumber == [ok |-> FALSE, val |-> 0]
wrapped(n, mod) == n % mod
asSigned(n, mod) == LET m == wrapped(n, mod) IN IF m >= mod \div 2 THEN m - mod ELSE m
signedVal(r) == IF r.neg THEN -r.val ELSE r.val
longRange(r) == signedVal(r) \in -(WideMod \div 2) .. WideMod \div 2 - 1
ulongRange(r) == r.val < WideMod

myStrtoll(s, i) ==
    LET r == strtox(s, i)
    IN  IF ~longRange(r) \/ notNumber(s, i, r) THEN NoNumber ELSE [ok |-> TRUE, val |-> signedVal(r)]
myStrtoull(s, i) ==
    LET r == strtox(s, i)
    IN  IF ~ulongRange(r) \/ notNumber(s, i, r) THEN NoNumber
        ELSE [ok |-> TRUE, val |-> wrapped(signedVal(r), WideMod)]

(* The narrow ones read a long and keep its low half, whatever it was.     *)
myStrtol(s, i) ==
    LET r == strtox(s, i)
    IN  IF ~longRange(r) \/ notNumber(s, i, r) THEN NoNumber
        ELSE [ok |-> TRUE, val |-> asSigned(signedVal(r), NarrowMod)]
myStrtoul(s, i) ==
    LET r == strtox(s, i)
    IN  IF ~ulongRange(r) \/ notNumber(s, i, r) THEN NoNumber
        ELSE [ok |-> TRUE, val |-> wrapped(wrapped(signedVal(r), WideMod), NarrowMod)]

-----------------------------------------------------------------------------
Texts == BoundedSeq({"a", "b", "A"}, MaxText)
InitSt == st = [op |-> "none", text |-> << >>, pat |-> << >>, sens |-> TRUE, ret |-> 0, out |-> << >>]

Match ==
    /\ st.op = "none"
    /\ \E pat \in BoundedSeq({"a", "b", "*", "?", "\\"}, MaxGlob), text \in Texts, sens \in BOOLEAN :
       /\ pat # << >> => Last(pat) # "\\" \* a final backslash is read past the end of the pattern
       /\ st' = [st EXCEPT !.op = "match", !.text = text, !.pat = pat, !.sens = sens,
                           !.ret = strmatch(text, parseMatchPattern(pat), sens)]
Search ==
    /\ st.op = "none"
    /\ \E needle \in BoundedSeq({"a", "b", "h"}, 2), text \in BoundedSeq({"a", "b", "A", "h"}, MaxText + 1), sens \in BOOLEAN :
          st' = [st EXCEPT !.op = "search", !.text = text, !.pat = needle, !.sens = sens, !.ret = searched(text, needle, sens)]
Subst ==
    /\ st.op = "none"
    /\ \E rule \in BoundedSeq({"a", "1", "$", "&", "\\"}, MaxRule) :
          LET r == execSub(compile(rule), <<<<"b", "b">>, <<"b">>>>)
          IN  st' = [st EXCEPT !.op = "subst", !.pat = rule, !.ret = r.len, !.out = r.out, !.sens = r.ok]

(* The same text is split, trimmed, unquoted and searched for its bracket. *)
Tokens ==
    /\ st.op = "none"
    /\ \E text \in BoundedSeq({"a", " ", "q", "\\"}, MaxTokens) :
          st' = [st EXCEPT !.op = "tokens", !.text = text, !.out = strParse(text, <<" ", "q">>)]
Lookup ==
    /\ st.op = "none"
    /\ \E text \in BoundedSeq({"a", "b", "=", ";", " "}, MaxTokens) :
          LET r == lookupSubString(text, 1, "a")
          IN  st' = [st EXCEPT !.op = "lookup", !.text = text, !.ret = r.at,
                               !.out = SubSeq(text, r.at, r.at + r.len - 1)]
Reg ==
    /\ st.op = "none"
    /\ \E text \in BoundedSeq({"a", "*", "?"}, MaxGlob), room \in MaxGlob .. MaxGlob + 2 :
          st' = [st EXCEPT !.op = "reg", !.text = text, !.ret = room, !.out = convertMatchToReg(text, room)]
Bracket ==
    /\ st.op = "none"
    /\ \E text \in BoundedSeq({"a", "(", ")"}, MaxTokens) :
          st' = [st EXCEPT !.op = "bracket", !.text = text, !.ret = findCloseBracket(text)]
Hex ==
    /\ st.op = "none"
    /\ \E bytes \in BoundedSeq({0, 9, 10, 171, 255}, 3), same \in BOOLEAN :
          st' = [st EXCEPT !.op = "hex", !.text = bytes, !.out = hexEncode(bytes, same)]
Number ==
    /\ st.op = "none"
    /\ \E val \in {-105, -10, -9, 0, 7, 10, 99, 100}, len \in 5 .. 6 :
          st' = [st EXCEPT !.op = "number", !.ret = val, !.out = str_off_t(len, val)]
CmdLine ==
    /\ st.op = "none"
    /\ \E text \in BoundedSeq({"a", " ", "1", "9", "-"}, MaxTokens) :
          st' = [st EXCEPT !.op = "line", !.text = text, !.out = wordsFrom(text, 1)]

NextSt == Match \/ Search \/ Subst \/ Tokens \/ Lookup \/ Reg \/ Bracket \/ Hex \/ Number \/ CmdLine

-----------------------------------------------------------------------------
(* strmatch says a text matches exactly when it does, with any number of   *)
(* "*" and "?" and in either case; patterns in which "?" stands alone      *)
(* between two "*" are left out, for which it does not search.             *)
lonely(list) == \E i \in DOMAIN list : i > 1 /\ i < Len(list) /\ list[i].kind = "?" /\ list[i - 1].kind = "*" /\ list[i + 1].kind = "*"
GlobExact ==
    st.op = "match" =>
        LET list == parseMatchPattern(st.pat)
        IN  /\ st.ret = 0 => means(st.text, list, st.sens)
            /\ means(st.text, list, st.sens) /\ ~lonely(list) => st.ret = 0

(* The place found is the first at which the whole needle occurs, and no   *)
(* place is missed but by strncasestr for a first byte above 127.          *)
FirstFound ==
    st.op = "search" =>
        LET at == {i \in 1 .. Len(st.text) + 1 : occurs(st.text, st.pat, i, st.sens)}
            blind == ~st.sens /\ st.pat # << >> /\ st.pat[1] = "h"
        IN  st.ret = IF at = {} \/ blind THEN 0 ELSE Min(at)

(* What RegSub makes of a rule is the rule with what matched in its place; *)
(* success means that all of it, and the null byte, is in the buffer, and  *)
(* failure tells the length it would have had.                             *)
SubstWhole ==
    st.op = "subst" =>
        LET want == substituted(st.pat, <<<<"b", "b">>, <<"b">>>>)
        IN  /\ st.ret = Len(want)
            /\ st.sens => st.out = want /\ Len(want) < SubstRoom
            /\ ~st.sens => Len(want) >= SubstRoom

(* A text is split at every delimiter and nowhere else; an argument ends   *)
(* at the first quote or space that no backslash takes; looking for the    *)
(* quote backward gives the same place when it is among the characters     *)
(* given, and none of them otherwise; taking out the escapes in place      *)
(* leaves what the argument means.                                         *)
taken(t, begin, i) ==
    LET other == {j \in begin .. i - 1 : t[j] # "\\"} IN (i - 1 - Max({begin - 1} \cup other)) % 2 = 1
TokensWhole ==
    st.op = "tokens" =>
        LET t == st.text
            at == {i \in DOMAIN t : t[i] \in {" ", "q"}}
            ends == at \cup (DOMAIN t \cap {Len(t)})
            arg == parseNextArg(t)
            quoted == arg.begin > 1 /\ t[arg.begin - 1] = "q"
            stops == {i \in arg.begin .. Len(t) : t[i] = (IF quoted THEN "q" ELSE " ") /\ ~taken(t, arg.begin, i)}
        IN  /\ Len(st.out) = Cardinality(ends)
            /\ FlattenSeq(st.out) = SelectSeq(t, LAMBDA c : c \notin {" ", "q"})
            /\ arg.end = Min(stops \cup {Len(t) + 1})
            /\ arg.ret = -1 <=> ~quoted /\ stops = {} /\ taken(t, arg.begin, Len(t) + 1)
            /\ t # << >> /\ t[1] = "q" =>
                 \A len \in DOMAIN t :
                    LET m == memNextArg(t, len)
                    IN  IF stops # {} /\ Min(stops) <= len THEN m = Min(stops) ELSE m = 0 \/ m > len
            /\ unescapeQuote(t) = unescaped(t)
            /\ LET u == strtrim(t)
               IN  /\ u # << >> => u[1] # " " /\ Last(u) # " "
                   /\ SelectSeq(u, LAMBDA c : c # " ") = SelectSeq(t, LAMBDA c : c # " ")

(* What is looked up is the value of the first item of that name, without  *)
(* the spaces around it, or nothing when that item has no value.           *)
items(t) ==
    LET cut == <<0>> \o SetToSortSeq({i \in DOMAIN t : t[i] = ";"}, <) \o <<Len(t) + 1>>
    IN  [n \in 1 .. Len(cut) - 1 |-> SubSeq(t, cut[n] + 1, cut[n + 1] - 1)]
nameOf(item) == strtrim(SubSeq(item, 1, firstOf(item, 1, "=") - 1))
SubStringFound ==
    st.op = "lookup" =>
        LET all == items(st.text)
            named == {n \in DOMAIN all : nameOf(all[n]) = <<"a">>}
            item == all[Min(named)]
            eq == firstOf(item, 1, "=")
        IN  IF named = {} THEN st.ret = 0 /\ st.out = << >>
            ELSE /\ st.ret # 0 <=> eq <= Len(item)
                 /\ st.out = IF eq <= Len(item) THEN strtrim(SubSeq(item, eq + 1, Len(item))) ELSE << >>

(* A pattern turned into an expression in its own buffer is the pattern    *)
(* with "." for "?" and ".*" for "*", unless it has no room for that.      *)
RegWhole ==
    st.op = "reg" =>
        LET of(c) == CASE c = "?" -> <<".">> [] c = "*" -> <<".", "*">> [] OTHER -> <<c>>
            want == FlattenSeq([i \in DOMAIN st.text |-> of(st.text[i])])
        IN  st.out = IF Len(want) <= st.ret THEN want ELSE <<"0">>

(* The digits of a number end up at the start of the buffer, whatever its  *)
(* sign and size.                                                          *)
NumberTold ==
    st.op = "number" =>
        st.out = IF st.ret < 0 THEN <<45>> \o digitsOf(-st.ret) ELSE digitsOf(st.ret)

(* A command line has the words its blanks separate; a word is taken for a *)
(* number exactly when it is one, and in a long's range, and then has that *)
(* number's value; a 32-bit argument has its low half, which is another    *)
(* number when it does not fit (advToken, myStrtoul and the others).       *)
LineRead ==
    st.op = "line" =>
        LET words == SelectSeq(strParse(st.text, <<" ">>), LAMBDA w : w # << >>)
            body(w) == IF w[1] = "-" THEN Tail(w) ELSE w
            num(w) == body(w) # << >> /\ \A i \in DOMAIN body(w) : isDigit(body(w)[i])
            val(w) == IF w[1] = "-" THEN -valueOf(body(w)) ELSE valueOf(body(w))
            fits(x, mod) == x \in -(mod \div 2) .. mod \div 2 - 1
        IN  /\ Len(st.out) = Len(words)
            /\ \A n \in DOMAIN words :
                  LET w == words[n]  i == st.out[n]
                      ll == myStrtoll(st.text, i)  ull == myStrtoull(st.text, i)
                      l == myStrtol(st.text, i)  ul == myStrtoul(st.text, i)
                  IN  /\ SubSeq(st.text, i, i + Len(w) - 1) = w
                      /\ ll.ok <=> num(w) /\ fits(val(w), WideMod)
                      /\ ull.ok <=> num(w) /\ valueOf(body(w)) < WideMod
                      /\ l.ok = ll.ok /\ ul.ok = ull.ok
                      /\ ll.ok => ll.val = val(w)
                      /\ ull.ok => (ull.val - val(w)) % WideMod = 0 /\ (ull.val = val(w) <=> w[1] # "-")
                      /\ l.ok => (l.val - val(w)) % NarrowMod = 0 /\ (l.val = val(w) <=> fits(val(w), NarrowMod))
                      /\ ul.ok => (ul.val - val(w)) % NarrowMod = 0 /\ ul.val \in 0 .. NarrowMod - 1

(* The bracket found is the first that closes the one opened before.       *)
depth(s, i) ==
    1 + Cardinality({j \in 1 .. i : s[j] = "("}) - Cardinality({j \in 1 .. i : s[j] = ")"})
BracketCloses ==
    st.op = "bracket" =>
        LET at == {i \in DOMAIN st.text : depth(st.text, i) = 0}
            end == IF at = {} THEN Len(st.text) + 1 ELSE Min(at)
            here == {i \in 1 .. end - 1 : st.text[i] = "a" /\ depth(st.text, i) = 1}
        IN  /\ st.ret = end
            /\ findCharInBracket(st.text, "a") = IF here = {} THEN 0 ELSE Min(here)

(* What is encoded, in place or not, is decoded to the same bytes: in      *)
(* place, no byte is overwritten that is still to be read.                 *)
HexBack == st.op = "hex" => hexDecode(st.out) = st.text
=============================================================================
