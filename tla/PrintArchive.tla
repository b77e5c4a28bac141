---------------------------- MODULE PrintArchive ----------------------------
(***************************************************************************)
(* print-archive/print-archive.c: walk the members of an ar archive by     *)
(* their offsets.  A member is a header of 60 bytes and its content; if    *)
(* the content is of odd size a newline follows.                           *)
(***************************************************************************)
EXTENDS Integers, Sequences

CONSTANTS MaxMembers,   \* bound: members of an archive
          MemberSizes,  \* bound: their sizes
          MaxInt,       \* the largest int, 2^31 - 1
          TenDigits,    \* the smallest size of ten digits, 10^9
          StackRoom     \* bytes the stack has for fileData

ASSUME ArchiveAssumption == /\ MaxMembers \in Nat /\ MemberSizes \subseteq Nat
                            /\ MaxInt \in Nat /\ TenDigits \in Nat /\ StackRoom \in Nat
                            /\ TenDigits + 61 <= MaxInt

(* A name ends at its "/"; it is empty for the tables of ar and for long   *)
(* names; BSD's ar writes none.                                            *)
Names == {"ended", "empty", "no_slash"}

VARIABLES archive,          \* the members of the file
          currentSize,
          printed_members,  \* <<name, number of the member>>, as printed
          archive_main      \* "open", "print", "exit_0", "exit_1", "exit_2", "fault"

archive_vars == <<archive, currentSize, printed_members, archive_main>>

ArchiveInit ==
  /\ archive \in UNION {[1..n -> [name : Names, size : MemberSizes]] : n \in 0..MaxMembers}
  /\ currentSize = 0 /\ printed_members = <<>> /\ archive_main = "open"

Offset == LET start[k \in 1..(Len(archive) + 1)] ==
                IF k = 1 THEN 8
                ELSE start[k - 1] + 60 + archive[k - 1].size + (archive[k - 1].size % 2)
          IN  start
FileSize == Offset[Len(archive) + 1]

(* main opens the file, reads all of it and looks for the signature.       *)
OpenArchive == /\ archive_main = "open"
               /\ \/ archive_main' = "print" /\ currentSize' = 8
                  \/ archive_main' \in {"exit_1", "exit_2"} /\ UNCHANGED currentSize
               /\ UNCHANGED <<archive, printed_members>>

(* The byte behind the content is skipped if it is a newline.  Behind the  *)
(* last member of even size it lies outside the buffer.                    *)
NewlineKept(k) == {0}
NewlineSkipped(k) == IF archive[k].size % 2 = 1 THEN {1}
                     ELSE IF k = Len(archive) THEN {0, 1} ELSE {0}

(* fileSizeStr has no place for the null byte behind ten digits, and       *)
(* fileData, of one byte more than the content, lies on the stack.         *)
HasRoom(k) == archive[k].size < TenDigits /\ archive[k].size < StackRoom

(* An int that grows past its range comes out negative.                    *)
Wrapped(n) == IF n > MaxInt THEN n - 2 * (MaxInt + 1) ELSE n
InRange(k) == Offset[k] + 61 + archive[k].size <= MaxInt

(* Bytes that are no header are read as one all the same, and an array is  *)
(* written behind its end: what follows is undefined ("fault").  A name    *)
(* without "/" fills its array and has no null byte, and an offset out of  *)
(* range may fault at once.  The test of the loop takes a negative offset  *)
(* for a large one, since the size is unsigned.                            *)
PrintMember ==
  /\ archive_main = "print" /\ currentSize \in 0..(FileSize - 1)
  /\ LET here == {k \in DOMAIN archive : Offset[k] = currentSize} IN
     \/ /\ ~\E k \in here : HasRoom(k)
        /\ archive_main' = "fault" /\ UNCHANGED <<currentSize, printed_members>>
     \/ \E k \in here : \E newline \in NewlineSkipped(k) :
          /\ HasRoom(k)
          /\ currentSize' = Wrapped(currentSize + archive[k].size + newline + 60)
          /\ printed_members' = Append(printed_members, <<archive[k].name, k>>)
          /\ archive_main' \in IF archive[k].name = "no_slash" \/ ~InRange(k)
                              THEN {"print", "fault"} ELSE {"print"}
  /\ UNCHANGED archive

PrintEnds == /\ archive_main = "print" /\ currentSize \notin 0..(FileSize - 1)
             /\ archive_main' = "exit_0"
             /\ UNCHANGED <<archive, currentSize, printed_members>>

ArchiveNext == \/ OpenArchive \/ PrintMember \/ PrintEnds
               \/ archive_main \notin {"open", "print"} /\ UNCHANGED archive_vars
ArchiveSpec == ArchiveInit /\ [][ArchiveNext]_archive_vars
-----------------------------------------------------------------------------
ArchiveTypeOK ==
  /\ archive_main \in {"open", "print", "exit_0", "exit_1", "exit_2", "fault"}
  /\ currentSize \in Int /\ printed_members \in Seq(Names \X (1..MaxMembers))

(* Every member of an archive in the format of GNU is printed, once and in *)
(* order, whatever mixture of odd and even sizes the offsets add up to, as *)
(* long as the arrays hold every name and content and an int every offset. *)
Printable == \A k \in DOMAIN archive : archive[k].name # "no_slash" /\ HasRoom(k) /\ InRange(k)
MembersPrinted ==
  Printable =>
    /\ archive_main # "fault"
    /\ archive_main = "exit_0" =>
         printed_members = [k \in DOMAIN archive |-> <<archive[k].name, k>>]
=============================================================================
