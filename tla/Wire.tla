------------------------------- MODULE Wire -------------------------------
(***************************************************************************)
(* The list of channels and labels in a metadata packet (packet.rs).  It   *)
(* is JSON, built by hand and read back by hand, and the reader is not     *)
(* the inverse of the writer: it cuts at braces and quotes wherever they   *)
(* stand and undoes no escape.                                             *)
(*                                                                         *)
(* A label is a sequence of characters.  The text is a sequence of entries *)
(* {"c":n,"l":"..."}; an entry is n and the characters that follow "l":"   *)
(* (no label can fake the two keys, since its quotes are escaped).         *)
(***************************************************************************)
EXTENDS Integers, Sequences, SequencesExt, FiniteSetsExt

CONSTANT MaxChannels        \* MAX_CHANNELS

ASSUME WireAssumption == MaxChannels \in Nat \ {0}

\* build_metadata_packet_with_labels: quotes and backslashes get a backslash.
Escaped(label) ==
  FlattenSeq([i \in DOMAIN label |->
    IF label[i] \in {"\"", "\\"} THEN <<"\\", label[i]>> ELSE <<label[i]>>])

MetadataText(labels) ==
  [ch \in DOMAIN labels |-> [c |-> ch, l |-> Escaped(labels[ch]) \o <<"\"", "}">>]]

\* What is left of the first of cs, all if there is none.
Before(text, cs) ==
  SubSeq(text, 1, Min({i \in DOMAIN text : text[i] \in cs} \cup {Len(text) + 1}) - 1)

\* parse_channel_metadata.  An entry ends at the first brace of either kind, in a
\* label or not; its label at the first quote, escaped or not.  Without a quote
\* there is no label, and the next label moves up.
ParseMetadata(text) ==
  LET entry == [i \in DOMAIN text |-> Before(text[i].l, {"{", "}"})]
      pushed[n \in 0..Len(text)] ==      \* the labels of the first n entries
        IF n = 0 THEN << >>
        ELSE IF Contains(entry[n], "\"")
             THEN Append(pushed[n - 1], Before(entry[n], {"\""}))
             ELSE pushed[n - 1]
  IN  [channels |-> Min({Max({text[i].c : i \in DOMAIN text} \cup {0}), MaxChannels}),
       labels   |-> pushed[Len(text)]]

\* Labels that come through as they are.
Plain(label) == \A i \in DOMAIN label : label[i] \notin {"\"", "\\", "{", "}"}
=============================================================================
