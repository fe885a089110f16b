---- MODULE MCImagingTab ----
EXTENDS ImagingTab

\* Two-byte chunks: one of zeros, one of data, and with length 3 a short last one.
MCDisks == {[p \in 0..3 |-> IF p < 2 THEN 0 ELSE 10 + p]}

Conf == [offset |-> 0, length |-> 0, chunkSize |-> 2, format |-> "spw", sparse |-> TRUE,
         compress |-> TRUE]
MCCreate == {Conf,
             [Conf EXCEPT !.length = 3, !.sparse = FALSE, !.compress = FALSE],
             [Conf EXCEPT !.format = "raw", !.length = 3],
             [Conf EXCEPT !.format = "raw", !.chunkSize = 1]}

Rest == [sector |-> 2, offset |-> 0, bufferSize |-> 2, verify |-> TRUE, letters |-> <<"D">>]
MCRestore == {Rest, [Rest EXCEPT !.sector = 1, !.verify = FALSE, !.offset = 3, !.letters = <<>>]}
====
