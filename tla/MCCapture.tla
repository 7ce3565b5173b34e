----------------------------- MODULE MCCapture -----------------------------
(***************************************************************************)
(* Small Projects for ProjectConfigure, and every small input of the pure  *)
(* algorithms: a probe grows byte by byte while the Project stays as it    *)
(* is.  The names .git, .tribios and .tribiosignore are two bytes long.    *)
(***************************************************************************)
EXTENDS ProjectConfigure, BaseCapture, Encodings

CONSTANTS MaxGrowth, \* bound: bytes added to a policy text
          MaxBytes   \* bound: bytes of the other probes

VARIABLE probe   \* the input of an algorithm: what it is for, where it began and what it is

A == <<97>>
B == <<98>>
MCGit == <<46, 103>>
MCTribios == <<46, 116>>
MCPolicyFile == <<46, 105>>
MCUniverse == {<<A>>, <<B>>, <<A, A>>, <<A, B>>, <<A, B, A>>, <<B, A>>, <<A, MCGit>>,
               <<MCGit>>, <<MCGit, A>>, <<MCPolicyFile>>}

Project(dirs, files, others) ==
    [path \in MCUniverse |-> IF path \in dirs THEN "dir" ELSE IF path \in files THEN "file"
                             ELSE IF path \in DOMAIN others THEN others[path] ELSE "none"]
Only(path, kind) == [p \in {path} |-> kind]
Plain == Project({<<A>>, <<A, B>>, <<MCGit>>}, {<<B>>, <<A, A>>, <<A, B, A>>, <<MCGit, A>>}, <<>>)
Policed == [Plain EXCEPT ![<<MCPolicyFile>>] = "file", ![<<A, MCGit>>] = "file"]
Linked == [Policed EXCEPT ![<<B>>] = "link"]
Mounted == Project({<<A>>}, {<<MCPolicyFile>>}, Only(<<A, A>>, "unreadable") @@
                       Only(<<A, B>>, "mount") @@ Only(<<B>>, "special"))
MCTrees == {Plain, Policed, Linked, Mounted}
MCSources == {<<97, 47>>, <<98>>, <<91>>, <<97, 47, 42, Newline, 33, 97, 47, 98>>}
-----------------------------------------------------------------------------
Seeds == {<<>>, <<Star, Star, Slash>>, <<97, Slash, Star, Star, Slash>>, <<Star, Newline>>,
          <<Bracket, 97, Dash>>, <<97, 98, Star, 97, Star>>}
PolicyBytes == {97, 98, Star, Question, Slash, Bang, Bracket, Close, Backslash, Space, Newline}
Utf8Bytes == {65, 128, 143, 144, 159, 160, 191, 193, 194, 224, 237, 240, 244, 245}
MessageBytes == {Percent, FieldEnd, LineEnd, LineReturn, 31, 50, 65, 200}
LengthBytes == {0, 1, 2, 127, 128, 129, 130, 254, 255}

NoProbe == [kind |-> "none", seed |-> 0, data |-> <<>>]
Probes == {[kind |-> "policy", seed |-> Len(s), data |-> s] : s \in Seeds}
            \cup {[kind |-> k, seed |-> 0, data |-> <<>>] : k \in {"utf8", "length"}}
            \cup {[kind |-> "message", seed |-> 0, data |-> <<<<>>>>]}

MCInit == Init /\ probe \in {NoProbe} \cup (IF tree = Plain /\ source = <<98>> THEN Probes ELSE {})

Added == Len(probe.data) - probe.seed
GrowBy(byte) == probe' = [probe EXCEPT !.data = Append(@, byte)]
GrowPolicy == probe.kind = "policy" /\ Added < MaxGrowth /\ \E b \in PolicyBytes : GrowBy(b)
GrowUtf8 == probe.kind = "utf8" /\ Added < MaxBytes /\ \E b \in Utf8Bytes : GrowBy(b)
GrowLength == probe.kind = "length" /\ Added < MaxBytes /\ \E b \in LengthBytes : GrowBy(b)
GrowMessage ==
    /\ probe.kind = "message" /\ Len(FlattenSeq(probe.data)) + Len(probe.data) <= MaxBytes
    /\ \/ \E b \in MessageBytes :
            probe' = [probe EXCEPT !.data[Len(probe.data)] = Append(@, b)]
       \/ GrowBy(<<>>)

MCNext == \/ probe = NoProbe /\ Next /\ UNCHANGED probe
          \/ (GrowPolicy \/ GrowUtf8 \/ GrowLength \/ GrowMessage) /\ UNCHANGED vars
MCSpec == MCInit /\ [][MCNext]_<<vars, probe>>
-----------------------------------------------------------------------------
Names3 == {A, B, A \o B}
Texts == {TextOf(path) : path \in UNION {[1 .. n -> Names3] : n \in 1 .. 3}}

(* The matcher, with its table of failures, matches what the glob means, for *)
(* every pattern that compiles (match_capture_glob).                         *)
MatchesReference ==
    probe.kind = "policy" =>
        \A p \in ToSet(compile(probe.data).patterns) : \A text \in Texts :
            match_capture_glob(p.glob, text) = Means(p.glob, text, 1, 1)

(* Bytes are taken for UTF-8 exactly when they are the encodings of scalar   *)
(* values, each in its shortest form (is_valid_utf8).                        *)
ScalarOf(s) ==
    FoldLeft(LAMBDA value, byte : (value * 64) + (byte % 64),
             s[1] % (CASE Len(s) = 1 -> 128 [] Len(s) = 2 -> 32 [] Len(s) = 3 -> 16 [] OTHER -> 8),
             Tail(s))
IsScalar(s) ==
    LET value == ScalarOf(s) IN
    /\ s[1] \in CASE Len(s) = 1 -> 0 .. 127 [] Len(s) = 2 -> 192 .. 223
                  [] Len(s) = 3 -> 224 .. 239 [] OTHER -> 240 .. 247
    /\ \A i \in 2 .. Len(s) : s[i] \in 128 .. 191
    /\ value >= CASE Len(s) = 1 -> 0 [] Len(s) = 2 -> 128 [] Len(s) = 3 -> 2048 [] OTHER -> 65536
    /\ value <= 1114111 /\ value \notin 55296 .. 57343
IsUtf8(s) ==
    LET good[i \in 1 .. Len(s) + 1] ==
            i > Len(s) \/ \E j \in i .. Min({i + 3, Len(s)}) : IsScalar(SubSeq(s, i, j)) /\ good[j + 1]
    IN good[1]
Utf8Reference == probe.kind = "utf8" => (is_valid_utf8(probe.data) <=> IsUtf8(probe.data))

(* A message decodes to the fields it was encoded from, whatever bytes they  *)
(* hold.  A length that is read is one Git wrote as exactly the bytes read,  *)
(* and one is refused only if it is cut off or wider than the integer        *)
(* (encode_message, decode_message, read_path_strip_length).                 *)
LengthEnds(bytes) == {i \in DOMAIN bytes : bytes[i] < 128}
TooWide(bytes) ==
    FoldLeft(LAMBDA value, byte : ((value + 1) * 128) + (byte % 128), -1, bytes) > WordMax
RoundTrips ==
    /\ probe.kind = "message" => decode_message(encode_message(probe.data)) = probe.data
    /\ probe.kind = "length" =>
         LET length == read_path_strip_length(probe.data)
             ends == LengthEnds(probe.data)
         IN IF length.value = -1
              THEN ends = {} \/ TooWide(SubSeq(probe.data, 1, Min(ends)))
            ELSE /\ length.value <= WordMax
                 /\ WriteLength(length.value) = SubSeq(probe.data, 1, length.next - 1)

Explains(t, patterns) == ExplainAgreesOn(t, patterns, walk_project(t, patterns))

(* check-ignore and the capture agree on the Project and the policy that     *)
(* configure loads, and on every small policy text                           *)
(* (explain_capture_decision, walk_project).                                 *)
ExplainAgrees ==
    /\ run.pc = "load" => Explains(tree, load_from_project.patterns)
    /\ probe.kind = "policy" => \A t \in Trees : Explains(t, compile(probe.data).patterns)
=============================================================================
