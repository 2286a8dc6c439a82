----------------------------- MODULE ListReplies -----------------------------
(***************************************************************************)
(* The two replies whose length depends on a table: the realm list of the  *)
(* login server (handle_realmlist, RealmListResponse::from_realms) and the *)
(* character list of the world server (CharEnum in Session::send_packet).  *)
(* Both say how long they are in a u16 and how many entries they have; the *)
(* table has no limit of its own. Of an entry only the length of its text  *)
(* matters (a realm's name and address, a character's name), and of the    *)
(* table the number of its rows and of their bytes on the wire.            *)
(***************************************************************************)
EXTENDS Naturals

CONSTANTS Texts,    \* per kind of list: lengths an entry's text may have
          MaxText,  \* per kind: the most bytes its columns let the text have
          MaxRows   \* bound, per kind: rows in the table

Kinds == {"realms", "characters"}

ASSUME ListAssumption ==
    /\ MaxText \in [Kinds -> Nat]
    /\ Texts \in [Kinds -> SUBSET Nat] /\ \A k \in Kinds : Texts[k] \subseteq 0..MaxText[k]
    /\ MaxRows \in [Kinds -> Nat]

U8 == 256
U16 == 65536

\* What wow_bincode writes of an entry besides its text: the fixed fields and
\* the zeros that end its strings.
RealmFixed == 3 + 1 + 1 + 4 + 3                 \* Realm
ItemSize == 4 + 1 + 4                           \* Item
CharFixed == 8 + 1 + 2 + 6 + 1 + 20 + 12 + 1 + 12 + 23 * ItemSize
Fixed(k) == IF k = "realms" THEN RealmFixed ELSE CharFixed

VARIABLES kind,   \* which of the two lists this is
          rows,   \* rows of the table that are listed
          bytes   \* their bytes on the wire

vars == <<kind, rows, bytes>>

TypeOK ==
    /\ kind \in Kinds
    /\ rows \in Nat
    /\ bytes \in (Fixed(kind) * rows)..((Fixed(kind) + MaxText[kind]) * rows)

Init == kind \in Kinds /\ rows = 0 /\ bytes = 0

\* A realm is added to realmlist (external), or create_character inserts a row: it
\* counts nobody's characters. Deleting a row leads back to a smaller table.
\* Mutant: a wider row than the column allows.
InsertM(t) ==
    /\ rows < MaxRows[kind]
    /\ rows' = rows + 1
    /\ bytes' = bytes + Fixed(kind) + t + MaxText[kind]
    /\ UNCHANGED kind

Insert(t) ==
    /\ rows < MaxRows[kind]
    /\ rows' = rows + 1
    /\ bytes' = bytes + Fixed(kind) + t
    /\ UNCHANGED kind

Next == \E t \in Texts[kind] : Insert(t)

Spec == Init /\ [][Next]_vars

-----------------------------------------------------------------------------
(* The replies, as from_realms and write_packet make them.                 *)

\* 4 + 2 + len as u16 + 2, the additions wrapping (a debug build panics).
\* Mutant: the length is kept in a byte.
RealmSizeM == (4 + 2 + (bytes % U8) + 2) % U16
RealmSize == (4 + 2 + (bytes % U16) + 2) % U16
RealmCount == rows % U16
\* What follows the size: data, realm_count, the realms, [0x10, 0x00].
RealmTail == 4 + 2 + bytes + 2
\* Vec::with_capacity(packet_size + 8) of handle_realmlist, in u16: a debug
\* build panics when it does not fit.
CapacityFits == RealmSize + 8 < U16

\* (bytes.len() as u16 + 2), the bytes being the count and the entries.
CharSize == (((1 + bytes) % U16) + 2) % U16
\* characters.len() as u8. Mutant: as i8.
CharCountM == rows % 128
CharCount == rows % U8
\* What follows the size: the opcode, the count, the entries.
CharTail == 2 + 1 + bytes

\* A client finds the end of the reply, and every entry of it.
RealmListDecodes == RealmSize = RealmTail /\ RealmCount = rows /\ CapacityFits
CharEnumDecodes == CharSize = CharTail /\ CharCount = rows

-----------------------------------------------------------------------------
(* Properties: how far the lists may grow.                                 *)

\* Of a column of m bytes, the rows that are sure to fit.
RealmLimit == (U16 - 17) \div (RealmFixed + MaxText["realms"])
CharLimit == (U16 - 4) \div (CharFixed + MaxText["characters"])

\* A client decodes the realm list, in either build, as long as there are no
\* more realms than RealmLimit, whatever they are called (56 with the columns
\* the code is compiled against, whose names and addresses it does not shorten).
RealmListFits == kind = "realms" /\ rows <= RealmLimit => RealmListDecodes

\* A client decodes the list of its characters, and the stream goes on at the
\* next packet, up to CharLimit characters of an account (206, names being up to
\* 48 bytes): the size field gives way before the count does.
CharEnumFits == kind = "characters" /\ rows <= CharLimit => CharEnumDecodes
=============================================================================
