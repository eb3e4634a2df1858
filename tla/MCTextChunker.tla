---------------------------- MODULE MCTextChunker ----------------------------
(* Model checking of TextChunker: every document of one section of up to        *)
(* MaxLength characters, or of two short ones, under every setting of up to     *)
(* MaxSize characters.                                                          *)
EXTENDS TextChunker

CONSTANTS MaxLength, ShortLength, MaxSize

TextsUpTo(n) ==
    UNION {{t \in [1 .. k -> Characters] : t[1] = "letter" /\ t[k] = "letter"} : k \in 1 .. n}

MCTexts == TextsUpTo(MaxLength)
MCDocuments ==
    {<<t>> : t \in MCTexts}
        \cup {<<t, u>> : t \in TextsUpTo(ShortLength), u \in TextsUpTo(ShortLength)}
MCSettings == {<<s, o>> \in (1 .. MaxSize) \X (0 .. MaxSize) : o < s}

=============================================================================
