--------------------------- MODULE MCListReplies ---------------------------
EXTENDS ListReplies

\* The widths sqlx-data.json gives the columns, in bytes: realmlist.name 128 and
\* address 1020, to which from_realm adds ":" and the port's digits (6); and
\* characters.name 48, twelve letters of four bytes.
MCMaxText == [k \in Kinds |-> IF k = "realms" THEN 128 + 1020 + 6 ELSE 48]
\* Texts of an ordinary length and the longest; more rows than are sure to fit.
MCTexts == [k \in Kinds |-> {IF k = "realms" THEN 20 ELSE 2, MCMaxText[k]}]
MCMaxRows == [k \in Kinds |-> IF k = "realms" THEN 62 ELSE 212]
============================================================================
