----------------------------- MODULE MCJobHistory -----------------------------
(***************************************************************************)
(* Instances of JobHistory for TLC: three jobs, two with tags that LIKE    *)
(* does not tell apart, the third with a backslash in its tag.  A tag is a *)
(* sequence of characters here, for what becomes of each in the row and in *)
(* the pattern.                                                            *)
(***************************************************************************)
EXTENDS JobHistory, SequencesExt

CONSTANTS j1, j2, j3

Quote == "\""
Backslash == "\\"

MCTags == {<<"w">>, <<"W">>, <<"w", Backslash>>, <<Quote, "w">>}
MCPlainTags == {t \in MCTags : \A i \in DOMAIN t : t[i] # Backslash}
MCTagOf == j1 :> <<"w">> @@ j2 :> <<"W">> @@ j3 :> <<"w", Backslash>>

Escape(t, special) ==
  FlattenSeq([i \in DOMAIN t |->
                IF t[i] \in special THEN <<Backslash, t[i]>> ELSE <<t[i]>>])
Quoted(s) == <<Quote>> \o s \o <<Quote>>

\* serde_json::to_string of a command's tags
TagsJson(t) == <<"[">> \o Quoted(Escape(t, {Quote, Backslash})) \o <<"]">>

\* what stands between the % of the pattern: the tag, quotes escaped
Pattern(t) == Quoted(Escape(t, {Quote}))

\* LIKE does not tell the case of ASCII letters apart.
SameLetter(a, b) == a = b \/ {a, b} = {"w", "W"}
Occurs(p, s) ==
  \E at \in 0..(Len(s) - Len(p)) :
    \A i \in DOMAIN p : SameLetter(p[i], s[at + i])

MCLike == {<<p, t>> \in MCTags \X MCTags : Occurs(Pattern(p), TagsJson(t))}
=============================================================================
