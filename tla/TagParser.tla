----------------------------- MODULE TagParser ------------------------------
(* A reply's <speak> and <data> segments: found in the whole text, for the   *)
(* history, and as they stream in, for the client and for the voice, in      *)
(* chunks that may end inside a tag.                                         *)
(*                                                                          *)
(* Source: internal/voice/tag_parser.go.                                     *)
(*                                                                          *)
(* A text is a sequence of words and halves of tags; there are no spaces.    *)
EXTENDS Naturals, Sequences, FiniteSets

CONSTANTS Texts   \* the replies looked at

VARIABLES text,   \* the reply
          fed,    \* how much of it has come
          buf,    \* StreamingTagParser.buf
          out     \* the segments given to the callbacks

vars == <<text, fed, buf, out>>

Channel == {"speak", "data"}
Open(c)  == <<IF c = "speak" THEN "<spe" ELSE "<da", ">">>
Close(c) == <<IF c = "speak" THEN "</spe" ELSE "</da", ">">>
Half   == {"<spe", "<da", "</spe", "</da"}
\* What is left of a reply is made of its words.
Rest   == Seq(UNION {{t[i] : i \in DOMAIN t} : t \in Texts})

\* strings.Index: 0 when there is none.
Index(t, tag) ==
    LET at == {i \in 1 .. Len(t) - 1 : t[i] = tag[1] /\ t[i + 1] = tag[2]}
    IN  IF at = {} THEN 0 ELSE CHOOSE i \in at : \A j \in at : i <= j

Before(t, i) == SubSeq(t, 1, i - 1)
After(t, i)  == SubSeq(t, i + 2, Len(t))
Segment(c, t) == IF t = <<>> THEN <<>> ELSE <<[channel |-> c, content |-> t]>>

\* The channel of the first opening tag: none is {}.
FirstOpen(t) ==
    {c \in Channel : Index(t, Open(c)) # 0
                     /\ \A d \in Channel : Index(t, Open(d)) = 0 \/ Index(t, Open(c)) <= Index(t, Open(d))}

\* ParseTaggedText: what is outside tags is spoken, an open tag goes to the end.
Parse(whole) ==
    LET Parsed[t \in Rest] ==
            IF FirstOpen(t) = {} THEN Segment("speak", t)
            ELSE LET c     == CHOOSE x \in FirstOpen(t) : TRUE
                     at    == Index(t, Open(c))
                     inner == After(t, at)
                     end   == Index(inner, Close(c))
                 IN  Segment("speak", Before(t, at))
                     \o IF end = 0 THEN Segment(c, inner)
                        ELSE Segment(c, Before(inner, end)) \o Parsed[After(inner, end)]
    IN  Parsed[whole]

\* SpeakContent; the reply itself when nothing of it is spoken.
SpeakOnly(t) ==
    LET speak == SelectSeq(Parse(t), LAMBDA x : x.channel = "speak")
    IN  IF speak = <<>> THEN <<[channel |-> "speak", content |-> t]>> ELSE speak

HasMark(t) == \E i \in DOMAIN t : t[i] \in Half

\* Mutant: what comes before an opening tag is spoken again with every chunk.
ScanMutant(whole) ==
    LET Scanned[t \in Rest] ==
            IF FirstOpen(t) = {}
            THEN [buf |-> t, out |-> <<>>]
            ELSE LET c     == CHOOSE x \in FirstOpen(t) : TRUE
                     at    == Index(t, Open(c))
                     inner == After(t, at)
                     end   == Index(inner, Close(c))
                     pre   == IF HasMark(Before(t, at)) THEN <<>> ELSE Segment("speak", Before(t, at))
                     rest  == Scanned[After(inner, end)]
                 IN  IF end = 0 THEN [buf |-> t, out |-> pre]
                     ELSE [buf |-> rest.buf, out |-> pre \o Segment(c, Before(inner, end)) \o rest.out]
    IN  Scanned[whole]

\* scan: without an opening tag, a closing one ends what there is; with one,
\* what comes before it is spoken unless it holds a "<".
Scan(whole) ==
    LET Ended(c, before, rest) == [buf |-> rest.buf, out |-> Segment(c, before) \o rest.out]
        Scanned[t \in Rest] ==
            LET Stray(c)  == Index(t, Close(c))
                EndsAt(c) == Ended(c, Before(t, Stray(c)), Scanned[After(t, Stray(c))])
            IN  IF FirstOpen(t) = {}
                THEN IF Stray("speak") # 0 THEN EndsAt("speak")
                     ELSE IF Stray("data") # 0 THEN EndsAt("data")
                     ELSE [buf |-> t, out |-> <<>>]
                ELSE LET c     == CHOOSE x \in FirstOpen(t) : TRUE
                         at    == Index(t, Open(c))
                         inner == After(t, at)
                         end   == Index(inner, Close(c))
                         pre   == IF HasMark(Before(t, at)) THEN <<>> ELSE Segment("speak", Before(t, at))
                         rest  == Ended(c, Before(inner, end), Scanned[After(inner, end)])
                     IN  IF end = 0 THEN [buf |-> SubSeq(t, at, Len(t)), out |-> pre]
                         ELSE [rest EXCEPT !.out = pre \o @]
    IN  Scanned[whole]

\* Flush: what is left is spoken unless it holds a "<".
Flush(t) == IF HasMark(t) THEN <<>> ELSE Segment("speak", t)

-----------------------------------------------------------------------------
Init == text \in Texts /\ fed = 0 /\ buf = <<>> /\ out = <<>>

\* Feed: the next chunk, of any length.
Feed ==
    /\ \E n \in fed + 1 .. Len(text) :
         LET r == Scan(buf \o SubSeq(text, fed + 1, n))
         IN  fed' = n /\ buf' = r.buf /\ out' = out \o r.out
    /\ UNCHANGED text

Next == Feed
Spec == Init /\ [][Next]_vars

\* What the client has been shown of the reply once it is at its end.
Streamed == out \o Flush(buf)

-----------------------------------------------------------------------------

\* A tag that is opened is closed, and nothing else holds a "<".
WellFormed(whole) ==
    LET Formed[t \in Rest] ==
            IF FirstOpen(t) = {} THEN ~HasMark(t)
            ELSE LET c     == CHOOSE x \in FirstOpen(t) : TRUE
                     at    == Index(t, Open(c))
                     inner == After(t, at)
                     end   == Index(inner, Close(c))
                 IN  ~HasMark(Before(t, at)) /\ end # 0 /\ Formed[After(inner, end)]
    IN  Formed[whole]

\* tag_parser.go:68, :94: wherever the chunks of a well formed reply end, the
\* segments streamed to the client are those found in the whole text.
StreamedIsParsed == fed = Len(text) /\ WellFormed(text) => Streamed = Parse(text)

\* copilot_chat.go:683: what is kept of such a reply for the history shows no
\* markup.
HistoryClean ==
    WellFormed(text) /\ (\A i \in DOMAIN Parse(text) : ~HasMark(Parse(text)[i].content))
        => \A i \in DOMAIN SpeakOnly(text) : ~HasMark(SpeakOnly(text)[i].content)
=============================================================================
