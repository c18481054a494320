--------------------------- MODULE MCAnchorStore ----------------------------
EXTENDS AnchorStore

CONSTANT Letter     \* a byte

\* Lines enough, so that two edits can touch regions apart, and a column.
MCTexts == {<<NL, NL, NL, NL>>, <<Letter, NL>>}

\* Nothing, a byte, and a line: what :m puts back.
MCInserts == {<<>>, <<Letter>>, <<NL>>}

\* What a diagnostic holds, a lowercase mark and another window's cursor.
MCKinds == {[track |-> "byte", side |-> "after", policy |-> "invalidate"],
            [track |-> "line", side |-> "drop", policy |-> "clamp"],
            [track |-> "line", side |-> "cursor", policy |-> "clamp"]}
=============================================================================
