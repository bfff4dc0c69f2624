---- MODULE RasterSpool ----
(***************************************************************************)
(* The raster spool file (core/RasterSpool.cpp) and the storage a job is   *)
(* checked against before it starts (rip/BoundedRasterPipeline.cpp).  A    *)
(* writer owns one partial file; finalize() hashes it, writes the checksum *)
(* into its header and renames it, and everything else, the destructor     *)
(* included, removes it.                                                   *)
(* Machine words are scaled: IntMax stands for the largest int, WordMax    *)
(* for the largest quint64, both as small as a run needs.                  *)
(***************************************************************************)
EXTENDS Integers, FiniteSets

CONSTANTS IntMax, WordMax, HeaderBytes

ASSUME WordAssumption ==
    /\ IntMax \in Nat /\ WordMax \in Nat /\ HeaderBytes \in Nat
    /\ IntMax >= 8 /\ HeaderBytes + IntMax * IntMax <= WordMax

MaxChannels == 16
Sizes == 1..IntMax

(* The bytes of a packed 2-bit line, padded to four.  *)
LineBytes(width) == ((((width + 3) \div 4) + 3) \div 4) * 4

(* 0 stands for a size that does not fit in a word.  *)
ExpectedBodyBytes(m) ==
    LET lines == m.channels * m.height
    IN  IF lines > WordMax \div m.bytesPerLine THEN 0 ELSE lines * m.bytesPerLine

(* The fields are ints; those that are not positive are refused first.  *)
MetadataIsValid(m) ==
    /\ m.width \in Sizes /\ m.height \in Sizes /\ m.bytesPerLine \in Sizes
    /\ m.channels \in 1..MaxChannels
    /\ DOMAIN m.order # {} /\ Cardinality(DOMAIN m.order) <= MaxChannels
    /\ m.bytesPerLine = LineBytes(m.width)
    /\ m.channels * m.height <= IntMax
    /\ \A p \in DOMAIN m.order : m.order[p] \in 0..(m.channels - 1)
    /\ ExpectedBodyBytes(m) # 0

(* The writer's and the reader's address of a line.  *)
LineOffset(m, channel, row) ==
    HeaderBytes + (channel * m.height + row) * m.bytesPerLine

(* -------- files: the header's checksum, the body by address, the bits - *)
Absent == [there |-> FALSE, sum |-> FALSE, body |-> <<>>, written |-> {}]
NewFile == [Absent EXCEPT !.there = TRUE]
AllLines(m) == (0..(m.channels - 1)) \X (0..(m.height - 1))

WithLine(m, file, channel, row, dots) ==
    LET at == LineOffset(m, channel, row)
    IN  [file EXCEPT
            !.body = [a \in DOMAIN @ \union {at} |-> IF a = at THEN dots ELSE @[a]],
            !.written = @ \union {<<channel, row>>}]

(* Reader::readLine().  *)
ReadLine(m, file, channel, row) == file.body[LineOffset(m, channel, row)]

(* finalize() refuses a spool with a plane-line that was never written,    *)
(* then hashes it and writes the header again, with the checksum.          *)
Incomplete(m, file) == file.written # AllLines(m)
(* The header is written after the rename, if at all.  *)
HeaderLater(file) == file
WithChecksum(file) == [file EXCEPT !.sum = TRUE]

(* readMetadata() and verify(): the header decodes, the file has its       *)
(* length and the body is the one that was hashed.                         *)
HeaderDecodes(m, file) == file.there /\ MetadataIsValid(m)
Verifies(m, file) ==
    /\ HeaderDecodes(m, file) /\ file.sum
    /\ DOMAIN file.body = {LineOffset(m, l[1], l[2]) : l \in AllLines(m)}

-----------------------------------------------------------------------------
(* -------- storage preflight ------------------------------------------- *)
Quantum == 2   \* bytes of a pixel-cache sample

(* One blue-noise mask's cache, for every mask that is not named twice.  *)
MaskCacheStorage(masks) == 5 * Quantum * masks

(* Canonical file, pixel caches, spool and, for a PRN, the exported file,  *)
(* and a fifth on top.  The code tests every product and sum for overflow; *)
(* here the estimate is exact and an overflow is a value above WordMax.    *)
RequiredStorage(m, job) ==
    LET pixels == m.width * m.height
        source == job.sourceWidth * job.sourceHeight
        resize == job.sourceWidth # m.width \/ job.sourceHeight # m.height
        planes == m.bytesPerLine * m.height
        cache == 5 * Quantum
        base == pixels * 4 + pixels * cache
                + (IF resize THEN source * 29 * Quantum ELSE 0)
                + (IF job.alpha THEN source * (1 + cache)
                       + (IF resize THEN pixels * cache ELSE 0) ELSE 0)
                + pixels * cache * job.plates
                + MaskCacheStorage(job.masks)
                + planes * m.channels
                + (IF job.prn THEN planes * Cardinality(DOMAIN m.order) ELSE 0)
    IN  base + base \div 5

PreflightStorage(m, job) ==
    /\ RequiredStorage(m, job) <= WordMax
    /\ RequiredStorage(m, job) <= job.disk
====
