---------------------------------- MODULE Ustar ----------------------------------
(***************************************************************************)
(* The USTAR file system of fs/src/ustar_fs.c on the initial RAM disk of   *)
(* fs/src/init_rd.c.  A partition is a row of blocks: the header of a      *)
(* file, the blocks of its data, the next header.  Nothing is kept in      *)
(* memory but the nodes of open files; the kernel has one user of the file *)
(* system at a time: a call is one step.  The RAM disk fails no access     *)
(* within its bounds, so the error paths of the device are not taken.      *)
(*                                                                         *)
(* A path is a sequence of names, and a name that is in DirName ends with  *)
(* a slash.                                                                *)
(***************************************************************************)
EXTENDS Integers, SequencesExt

CONSTANTS
    Path,        \* the paths that the callers use
    DirName,     \* the names that end with a slash
    MaxDepth,    \* USTAR_FILENAME_MAX_LENGTH, in names
    Image,       \* the blocks of the partition at first
    BlockSize,   \* USTAR_BLOCK_SIZE
    Buffer,      \* what the callers write
    Position,    \* where they write, and the sizes to which they truncate
    NoFile       \* OS_ERR_FILE_NOT_FOUND, and no open node

UstarAssumption == BlockSize \in Nat \ {0} /\ MaxDepth \in Nat

Removed == <<>>      \* the name of a removed file is cleared

\* Blocks, as ustar_check_block tells them apart by the magic.
Bytes == [1 .. BlockSize -> Nat]
Header(name, type, size) == [head |-> TRUE, name |-> name, type |-> type, size |-> size]
DataBlock(bytes) == [head |-> FALSE, bytes |-> bytes]

VARIABLES
    disk,     \* the blocks of the partition, from 0 on
    vnode,    \* the node opened last, or NoFile
    panic     \* USTAR_ASSERT has failed

ustarVars == <<disk, vnode, panic>>

Init ==
    /\ disk = Image /\ vnode = NoFile
    /\ panic = FALSE

--------------------------------------------------------------------------------
\* The inode behind the file of the header i, rounded up to whole blocks.
NextInode(d, i) == i + 1 + (d[i].size + BlockSize - 1) \div BlockSize

IsHeader(d, i) == i \in DOMAIN d /\ d[i].head

\* What a scan from the header i meets: ustar_get_next_file skips removed files
\* and ends at a block that is no header.
Scan(d, i) ==
    LET From[j \in Nat] ==
            IF ~IsHeader(d, j) THEN <<>>
            ELSE IF d[j].name = Removed THEN From[NextInode(d, j)]
            ELSE <<j>> \o From[NextInode(d, j)]
    IN  IF ~IsHeader(d, i) \/ d[i].name = Removed THEN <<>> ELSE From[i]

Files(d) == Scan(d, 0)

\* A scan that ends in the data of a file takes it for a header with a name; what
\* lists a directory then returns OS_ERR_WRONG_PARTITION_TYPE.
ScanFails(d) ==
    LET End[j \in Nat] == IF IsHeader(d, j) THEN End[NextInode(d, j)] ELSE j
    IN  End[0] \in DOMAIN d /\ d[End[0]].bytes[1] # 0

\* ustar_search_file
Search(d, p) ==
    LET found == SelectSeq(Files(d), LAMBDA i : d[i].name = p)
    IN  IF found = <<>> \/ Len(p) > MaxDepth THEN NoFile ELSE found[1]

Found(d, p, type) == Search(d, p) # NoFile /\ d[Search(d, p)].type = type

\* Both look behind the entry of the directory only.
ustar_get_item_count(d, i) ==
    Len(SelectSeq(Scan(d, i), LAMBDA j : IsStrictPrefix(d[i].name, d[j].name)))

ustar_list_directory(d, i) ==
    LET children == SelectSeq(Scan(d, i), LAMBDA j : /\ d[j].name # <<>>
                                                     /\ Front(d[j].name) = d[i].name)
    IN  [k \in DOMAIN children |-> Last(d[children[k]].name)]

--------------------------------------------------------------------------------
\* The bytes of the file of the header i, with the padding of its last block.
Stored(d, i) ==
    LET data(k) == i + 1 + (k - 1) \div BlockSize
    IN  [k \in 1 .. BlockSize * (NextInode(d, i) - i - 1) |->
            d[data(k)].bytes[((k - 1) % BlockSize) + 1]]

Contents(d, i) == SubSeq(Stored(d, i), 1, d[i].size)

AtMost(a, b) == IF a < b THEN a ELSE b

\* The length of what is read or written at a cursor.
Clipped(d, i, cursor, n) ==
    IF cursor >= d[i].size THEN 0 ELSE AtMost(n, d[i].size - cursor)

\* Mutant: no block is added for the bytes that lie behind the last boundary.
BlocksToRead_NoOverlap(cursor, n) == (n + BlockSize - 1) \div BlockSize

\* ustar_read_file: the blocks that it reads, from the one of the cursor on
BlocksToRead(cursor, n) ==
    (n + BlockSize - 1) \div BlockSize
    + IF (cursor % BlockSize) + (n % BlockSize) > BlockSize THEN 1 ELSE 0

\* What the caller gets.  Behind the blocks that were read it is what the heap
\* holds there, -1.
ustar_read_file(d, i, cursor, size) ==
    LET n     == Clipped(d, i, cursor, size)
        first == (cursor \div BlockSize) * BlockSize
        until == first + BlockSize * BlocksToRead(cursor, n)
    IN  [k \in 1 .. n |-> IF cursor + k <= until THEN Stored(d, i)[cursor + k] ELSE -1]

\* Mutant: the first block is written from its start.
Overwritten_Start(block, offset, bytes) ==
    DataBlock([k \in 1 .. BlockSize |->
                  IF k <= Len(bytes) THEN bytes[k] ELSE block.bytes[k]])

\* The block with the bytes behind the offset.
Overwritten(block, offset, bytes) ==
    DataBlock([k \in 1 .. BlockSize |->
                  IF k > offset /\ k <= offset + Len(bytes) THEN bytes[k - offset]
                  ELSE block.bytes[k]])

\* ustar_write_file: the block of the cursor when it is not at the start of one,
\* then whole blocks, then the start of the last block.
Written(d, i, cursor, buffer) ==
    LET n      == Clipped(d, i, cursor, Len(buffer))
        offset == cursor % BlockSize
        first  == i + 1 + cursor \div BlockSize
        head   == IF offset = 0 THEN 0 ELSE AtMost(BlockSize - offset, n)
        next   == IF offset = 0 THEN first ELSE first + 1
        whole  == IF n - head > BlockSize THEN (n - head) \div BlockSize ELSE 0
        rest   == n - head - whole * BlockSize
        part(from, len) == SubSeq(buffer, from + 1, from + len)
    IN  [j \in DOMAIN d |->
            CASE j = first /\ head > 0 -> Overwritten(d[j], offset, part(0, head))
              [] j >= next /\ j < next + whole ->
                    DataBlock(part(head + (j - next) * BlockSize, BlockSize))
              [] j = next + whole /\ rest > 0 ->
                    Overwritten(d[j], 0, part(n - rest, rest))
              [] OTHER -> d[j]]

--------------------------------------------------------------------------------
\* ustar_rename_file: an error leaves the disk as it is, but for one that meets a
\* file of a directory whose entry is already renamed, which is a panic.  There is
\* no room for the list of an empty directory, as kmalloc refuses a size of 0.
Result(d, err, pan) == [disk |-> d, err |-> err, panic |-> pan]

RECURSIVE Rename(_, _, _)
Rename(d, old, new) ==
    LET i        == Search(d, old)
        moved    == [d EXCEPT ![i].name = new]
        children == ustar_list_directory(d, i)
        TooLong  == Len(new) > Len(old) /\ children # <<>> /\ Len(new) + 1 > MaxDepth
        Child(r, c) ==
            IF r.panic THEN r
            ELSE LET q == Rename(r.disk, Append(old, c), Append(new, c))
                 IN  Result(q.disk, FALSE, q.err \/ q.panic)
    IN  IF \/ Len(new) > MaxDepth
           \/ Len(new) > 1 /\ ~Found(d, Front(new), "dir")
           \/ i = NoFile
        THEN Result(d, TRUE, FALSE)
        ELSE IF d[i].type # "dir" THEN Result(moved, FALSE, FALSE)
        ELSE IF \/ Last(new) \notin DirName
                \/ ScanFails(d) \/ ustar_get_item_count(d, i) = 0 \/ TooLong
        THEN Result(d, TRUE, FALSE)
        ELSE FoldLeft(Child, Result(moved, FALSE, FALSE), children)

--------------------------------------------------------------------------------
\* ustar_open_file; ustar_close_file writes nothing.
OpenFile(p) ==
    /\ Search(disk, p) # NoFile
    /\ vnode' = Search(disk, p)
    /\ UNCHANGED <<disk, panic>>

CloseFile ==
    /\ vnode # NoFile /\ vnode' = NoFile
    /\ UNCHANGED <<disk, panic>>

WriteFile(cursor, buffer) ==
    /\ vnode # NoFile /\ disk[vnode].type = "file"
    /\ Clipped(disk, vnode, cursor, Len(buffer)) > 0
    /\ disk' = Written(disk, vnode, cursor, buffer)
    /\ UNCHANGED <<vnode, panic>>

\* Mutant: a directory is removed with what is in it.
MayRemove_Any(d, i) == d[i].type = "dir" => ~ScanFails(d)

\* ustar_remove_file removes a directory only when it finds nothing in it.
MayRemove(d, i) ==
    d[i].type = "dir" => ~ScanFails(d) /\ ustar_get_item_count(d, i) = 0

RemoveFile(p) ==
    LET i == Search(disk, p)
    IN  /\ i # NoFile /\ MayRemove(disk, i)
        /\ disk' = [disk EXCEPT ![i].name = Removed]
        /\ UNCHANGED <<vnode, panic>>

RenameFile(old, new) ==
    LET r == Rename(disk, old, new)
    IN  /\ old # new /\ ~r.err
        /\ disk' = r.disk /\ panic' = r.panic
        /\ UNCHANGED vnode

TruncateFile(p, size) ==
    LET i == Search(disk, p)
    IN  /\ Found(disk, p, "file") /\ size < disk[i].size
        /\ disk' = [disk EXCEPT ![i].size = size]
        /\ UNCHANGED <<vnode, panic>>

Next ==
    /\ ~panic
    /\ \/ CloseFile
       \/ \E p \in Path :
            \/ OpenFile(p) \/ RemoveFile(p)
            \/ \E q \in Path : RenameFile(p, q)
            \/ \E n \in Position : TruncateFile(p, n)
       \/ \E b \in Buffer, c \in Position : WriteFile(c, b)

Spec == Init /\ [][Next]_ustarVars

--------------------------------------------------------------------------------
\* A read returns the bytes of the file from the cursor on, across blocks and up
\* to its end, but for a whole number of blocks from the middle of one, for which
\* the code reads one block too few (see README).
ReadsExact ==
    vnode # NoFile /\ disk[vnode].type = "file" =>
        \A c \in 0 .. disk[vnode].size, n \in 0 .. disk[vnode].size :
            LET len == Clipped(disk, vnode, c, n)
            IN  len % BlockSize # 0 \/ c % BlockSize = 0 =>
                    ustar_read_file(disk, vnode, c, n) = SubSeq(Contents(disk, vnode), c + 1, c + len)

\* A write changes the bytes from the cursor on and nothing else on the disk.
WriteIsExact ==
    \A b \in Buffer, c \in Position : WriteFile(c, b) =>
        LET n   == Clipped(disk, vnode, c, Len(b))
            old == Contents(disk, vnode)
        IN  /\ Contents(disk', vnode) =
                   SubSeq(old, 1, c) \o SubSeq(b, 1, n) \o SubSeq(old, c + n + 1, Len(old))
            /\ \A j \in DOMAIN disk :
                   j \notin vnode + 1 .. NextInode(disk, vnode) - 1 => disk'[j] = disk[j]

\* The file of the header i is still found, with its name and its contents.
Kept(i) ==
    /\ Contains(Files(disk'), i) /\ disk'[i] = disk[i]
    /\ Contents(disk', i) = Contents(disk, i)

\* No operation loses a file that it does not name: a rename moves what is in the
\* directory and nothing else, a removal takes one file, and no directory that has
\* files behind it.  Excepted are the removal of the first file and a truncation
\* that frees blocks, which cut the scan (see README).
OthersAreKept ==
    \A i \in ToSet(Files(disk)), p \in Path :
        LET f == Search(disk, p)
        IN  /\ \A q \in Path : RenameFile(p, q) => Kept(i) \/ IsPrefix(p, disk[i].name)
            /\ RemoveFile(p) /\ f # 0 => Kept(i) \/ i = f
            /\ RemoveFile(p) /\ disk[f].type = "dir" /\ i > f =>
                    ~IsStrictPrefix(p, disk[i].name)
            /\ \A n \in Position :
                   TruncateFile(p, n) /\ NextInode(disk', f) = NextInode(disk, f)
                        => Kept(i) \/ i = f
================================================================================
