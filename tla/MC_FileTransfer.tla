--------------------------- MODULE MC_FileTransfer ---------------------------
(* Model-checking instances of FileTransfer.                               *)
EXTENDS FileTransfer

\* Four-byte segments: a first segment carries one payload byte after a
\* one-byte name, later ones three.
MCSeg == 4

\* A file whose size is a multiple of the chunk (4 = 1 + 3, so no segment
\* carries the end-of-file flag), an empty file, and a two-segment file.
MCFiles == << [nameLen |-> 1, size |-> 4],
              [nameLen |-> 1, size |-> 0],
              [nameLen |-> 1, size |-> 2] >>

\* One file of three segments.
OneFile == << [nameLen |-> 1, size |-> 3] >>

\* Two stats periods: the first writes the header, the second a row.
MCMaxPeriods == 2

\* One file whose upload name fills the segment but for the flag byte and
\* the NUL: hdrSize = Seg, and no payload byte fits.
NameFillsSegment == << [nameLen |-> MCSeg - 2, size |-> 1] >>

NoStats   == {}
RecvStats == {"rcv"}
BothStats == {"snd", "rcv"}
=============================================================================
