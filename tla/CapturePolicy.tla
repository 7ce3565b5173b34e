--------------------------- MODULE CapturePolicy ---------------------------
(***************************************************************************)
(* .tribiosignore: how the file is compiled into patterns and how a        *)
(* pattern is matched.  Texts are sequences of bytes, indexed from 1; an   *)
(* index one past the end means the end.  An error is only told from the   *)
(* absence of one: its message is left out.                                *)
(***************************************************************************)
EXTENDS Integers, Sequences, SequencesExt, FiniteSetsExt

Tab == 9
Newline == 10
Return == 13
Space == 32
Bang == 33
Hash == 35
Star == 42
Dash == 45
Slash == 47
Question == 63
Bracket == 91
Backslash == 92
Close == 93
Caret == 94
-----------------------------------------------------------------------------
(***************************************************************************)
(* Character classes.                                                      *)
(***************************************************************************)
NoClassEnd == 0
Skips(text, i, bytes) == IF i <= Len(text) /\ text[i] \in bytes THEN i + 1 ELSE i

(* Just past the closing bracket of the class that opens at open.            *)
find_class_end(glob, open) ==
    LET scan[i \in 1 .. Len(glob) + 2] ==
            IF i > Len(glob) THEN NoClassEnd
            ELSE IF glob[i] = Close THEN i + 1
            ELSE scan[IF glob[i] = Backslash THEN i + 2 ELSE i + 1]
    IN scan[Skips(glob, Skips(glob, open + 1, {Bang, Caret}), {Close})]

class_matches(glob, open, end, byte) ==
    LET close == end - 1
        first == Skips(glob, open + 1, {Bang, Caret})
        member[i \in 1 .. close + 1] ==
            /\ i < close
            /\ LET low == IF glob[i] = Backslash THEN i + 1 ELSE i
                   ranged == low + 2 < close /\ glob[low + 1] = Dash
                   high == IF ~ranged THEN low
                           ELSE IF glob[low + 2] = Backslash /\ low + 3 < close THEN low + 3
                           ELSE low + 2
               IN (glob[low] <= byte /\ byte <= glob[high]) \/ member[high + 1]
    IN member[first] # (first # open + 1)
-----------------------------------------------------------------------------
(***************************************************************************)
(* Matching.  failed remembers the pairs of indices already proven not to  *)
(* match; it is threaded through the calls, as the vector the code passes. *)
(***************************************************************************)
Won(failed) == [ok |-> TRUE, failed |-> failed]
MutForgetsTextIndex(start, failed) == [ok |-> FALSE, failed |-> failed \cup ({start[1]} \X (1 .. 16))]
remember_failure(start, failed) == [ok |-> FALSE, failed |-> failed \cup {start}]

StarsEnd(glob, g) == CHOOSE e \in g .. Len(glob) + 1 :
    (\A i \in g .. e - 1 : glob[i] = Star) /\ (e > Len(glob) \/ glob[e] # Star)

(* "**" that is a whole segment of the glob.                                 *)
WholeSegment(glob, g) ==
    LET e == StarsEnd(glob, g) IN
    e - g >= 2 /\ (g = 1 \/ glob[g - 1] = Slash) /\ (e > Len(glob) \/ glob[e] = Slash)

(* Where the glob goes on after the item at g matched byte, 0 if it does not.*)
ItemEnd(glob, g, byte) ==
    CASE glob[g] = Question -> IF byte = Slash THEN 0 ELSE g + 1
      [] glob[g] = Bracket ->
           LET e == find_class_end(glob, g) IN
           IF e = NoClassEnd \/ byte = Slash THEN 0
           ELSE IF class_matches(glob, g, e, byte) THEN e ELSE 0
      [] OTHER ->
           LET i == IF glob[g] = Backslash THEN g + 1 ELSE g IN
           IF i <= Len(glob) /\ glob[i] = byte THEN i + 1 ELSE 0

NextSlash(text, t) == LET found == {i \in t .. Len(text) : text[i] = Slash} IN
    IF found = {} THEN 0 ELSE Min(found)

RECURSIVE match_capture_glob_from(_, _, _, _, _), MatchItems(_, _, _, _, _, _),
          TryDirectories(_, _, _, _, _, _), TryStar(_, _, _, _, _, _)

match_capture_glob_from(glob, text, g, t, failed) ==
    IF <<g, t>> \in failed THEN [ok |-> FALSE, failed |-> failed]
    ELSE MatchItems(glob, text, g, t, failed, <<g, t>>)

MatchItems(glob, text, g, t, failed, start) ==
    IF g > Len(glob)
      THEN IF t > Len(text) THEN Won(failed) ELSE remember_failure(start, failed)
    ELSE IF glob[g] = Star
      THEN LET e == StarsEnd(glob, g) IN
           IF ~WholeSegment(glob, g) THEN TryStar(glob, text, e, t, failed, start)
           ELSE IF e > Len(glob) THEN Won(failed)
           ELSE TryDirectories(glob, text, e + 1, t, failed, start)
    ELSE IF t > Len(text) THEN remember_failure(start, failed)
    ELSE LET e == ItemEnd(glob, g, text[t]) IN
         IF e = 0 THEN remember_failure(start, failed)
         ELSE MatchItems(glob, text, e, t + 1, failed, start)

(* "**/" stands for zero or more whole directories.                          *)
TryDirectories(glob, text, g, t, failed, start) ==
    LET tried == match_capture_glob_from(glob, text, g, t, failed)
        slash == NextSlash(text, t)
    IN IF tried.ok THEN tried
       ELSE IF slash = 0 THEN remember_failure(start, tried.failed)
       ELSE TryDirectories(glob, text, g, slash + 1, tried.failed, start)

TryStar(glob, text, g, t, failed, start) ==
    LET tried == match_capture_glob_from(glob, text, g, t, failed) IN
    IF tried.ok THEN tried
    ELSE IF t > Len(text) \/ text[t] = Slash THEN remember_failure(start, tried.failed)
    ELSE TryStar(glob, text, g, t + 1, tried.failed, start)

match_capture_glob(glob, text) == match_capture_glob_from(glob, text, 1, 1, {}).ok

(***************************************************************************)
(* The reference: what a glob means, without searching.                    *)
(***************************************************************************)
RECURSIVE Means(_, _, _, _)
Means(glob, text, g, t) ==
    IF g > Len(glob) THEN t > Len(text)
    ELSE IF glob[g] # Star THEN
        /\ t <= Len(text)
        /\ ItemEnd(glob, g, text[t]) # 0
        /\ Means(glob, text, ItemEnd(glob, g, text[t]), t + 1)
    ELSE LET e == StarsEnd(glob, g) IN
         IF ~WholeSegment(glob, g)
           THEN \E s \in t .. Len(text) + 1 :
                   (\A i \in t .. s - 1 : text[i] # Slash) /\ Means(glob, text, e, s)
         ELSE e > Len(glob) \/ \E s \in t .. Len(text) + 1 :
                   (s = t \/ text[s - 1] = Slash) /\ Means(glob, text, e + 1, s)
-----------------------------------------------------------------------------
(***************************************************************************)
(* Compiling.                                                              *)
(***************************************************************************)
(* is_valid_utf8: the lead byte gives the number of continuation bytes and   *)
(* the range of the first of them.                                           *)
MutAcceptsSurrogates(lead) ==
    CASE lead \in 194 .. 223 -> [more |-> 1, low |-> 128, high |-> 191]
      [] lead \in 224 .. 239 -> [more |-> 2, low |-> IF lead = 224 THEN 160 ELSE 128, high |-> 191]
      [] lead \in 240 .. 244 -> [more |-> 3, low |-> IF lead = 240 THEN 144 ELSE 128,
                                 high |-> IF lead = 244 THEN 143 ELSE 191]
Continuation(lead) ==
    CASE lead \in 194 .. 223 -> [more |-> 1, low |-> 128, high |-> 191]
      [] lead \in 224 .. 239 -> [more |-> 2, low |-> IF lead = 224 THEN 160 ELSE 128,
                                 high |-> IF lead = 237 THEN 159 ELSE 191]
      [] lead \in 240 .. 244 -> [more |-> 3, low |-> IF lead = 240 THEN 144 ELSE 128,
                                 high |-> IF lead = 244 THEN 143 ELSE 191]
is_valid_utf8(text) ==
    LET valid[i \in 1 .. Len(text) + 1] ==
            IF i > Len(text) THEN TRUE
            ELSE IF text[i] < 128 THEN valid[i + 1]
            ELSE /\ text[i] \in 194 .. 244
                 /\ LET c == Continuation(text[i]) IN
                    /\ i + c.more <= Len(text)
                    /\ text[i + 1] \in c.low .. c.high
                    /\ \A k \in 2 .. c.more : text[i + k] \in 128 .. 191
                    /\ valid[i + c.more + 1]
    IN valid[1]

(* Blanks at the end go unless an odd number of backslashes precedes them.   *)
trim_unescaped_trailing_whitespace(line) ==
    LET Run(n) == Cardinality({k \in 1 .. n - 1 : \A j \in k .. n - 1 : line[j] = Backslash})
        kept[n \in 0 .. Len(line)] ==
            IF n > 0 /\ line[n] \in {Space, Tab} /\ Run(n) % 2 = 0 THEN kept[n - 1] ELSE n
    IN SubSeq(line, 1, kept[Len(line)])

validate_glob(glob) ==
    LET valid[i \in 1 .. Len(glob) + 2] ==
            IF i > Len(glob) THEN TRUE
            ELSE IF glob[i] = Backslash THEN i < Len(glob) /\ valid[i + 2]
            ELSE IF glob[i] = Bracket
              THEN find_class_end(glob, i) # NoClassEnd /\ valid[find_class_end(glob, i)]
            ELSE valid[i + 1]
    IN valid[1]

HasEmptySegment(glob) ==
    \/ Head(glob) = Slash \/ Last(glob) = Slash
    \/ \E i \in 1 .. Len(glob) - 1 : glob[i] = Slash /\ glob[i + 1] = Slash

(* No pattern, an error, or a pattern.                                       *)
parse_pattern_line(raw) ==
    LET line == trim_unescaped_trailing_whitespace(
                    IF raw # <<>> /\ Last(raw) = Return THEN Front(raw) ELSE raw)
        negated == line # <<>> /\ Head(line) = Bang
        body == IF negated THEN Tail(line) ELSE line
        directory_only == body # <<>> /\ Last(body) = Slash
        named == IF directory_only THEN Front(body) ELSE body
        rooted == named # <<>> /\ Head(named) = Slash
        glob == IF rooted THEN Tail(named) ELSE named
    IN IF line = <<>> \/ Head(line) = Hash
         THEN [kind |-> "none"]
       ELSE IF glob = <<>> THEN [kind |-> "error"]
       ELSE IF HasEmptySegment(glob) \/ ~validate_glob(glob) THEN [kind |-> "error"]
       ELSE [kind |-> "pattern", glob |-> glob, negated |-> negated,
             directory_only |-> directory_only,
             anchored |-> rooted \/ Slash \in ToSet(glob)]

LinesOf(source) ==
    FoldLeft(LAMBDA lines, byte : IF byte = Newline THEN Append(lines, <<>>)
                                  ELSE [lines EXCEPT ![Len(lines)] = Append(@, byte)],
             <<<<>>>>, source)

compile(source) ==
    LET parsed == [i \in 1 .. Len(LinesOf(source)) |-> parse_pattern_line(LinesOf(source)[i])]
    IN IF 0 \in ToSet(source) \/ ~is_valid_utf8(source)
            \/ \E i \in DOMAIN parsed : parsed[i].kind = "error"
         THEN [ok |-> FALSE, patterns |-> <<>>]
       ELSE [ok |-> TRUE, patterns |-> SelectSeq(parsed, LAMBDA p : p.kind = "pattern")]

(* decide: the last pattern that matches wins.  A path is a sequence of      *)
(* names, each a sequence of bytes.                                          *)
TextOf(path) == FoldLeft(LAMBDA text, name : IF text = <<>> THEN name ELSE text \o <<Slash>> \o name,
                         <<>>, path)
excluded(patterns, path, is_directory) ==
    LET matching == {i \in DOMAIN patterns :
            /\ patterns[i].directory_only => is_directory
            /\ match_capture_glob(patterns[i].glob,
                                  IF patterns[i].anchored THEN TextOf(path) ELSE Last(path))}
    IN matching # {} /\ ~patterns[Max(matching)].negated
=============================================================================
