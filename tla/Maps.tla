------------------------------- MODULE Maps --------------------------------
(***************************************************************************)
(* The memory-map parser (zpoline_rewriter/src/maps.rs): parse_maps_file  *)
(* reads /proc/self/maps line by line and parse_maps_line turns each line *)
(* into a MemoryRegion.                                                    *)
(*                                                                         *)
(* The table is the kernel's: each line is what show_map_vma prints for a *)
(* mapping, "%08lx-%08lx %c%c%c%c %08llx %02x:%02x %lu ", then, for a      *)
(* mapping with a name, padding spaces and the name.  The fields the      *)
(* kernel formats are always well formed; the name is the only text a     *)
(* program controls (any bytes but the newline, which the kernel escapes). *)
(* Characters are one-character strings; "<ff>" stands for a byte that is *)
(* not valid UTF-8.  The parse works on the characters: the split at      *)
(* whitespace, the split at '-', the radix conversions and the join of    *)
(* the name are modelled by what they do.                                 *)
(***************************************************************************)
EXTENDS Integers, Sequences, SequencesExt, FiniteSets

CONSTANTS
    Mappings,  \* the mappings the kernel may list, as records of numbers
    Names,     \* the names a mapping may carry, as character sequences
    MaxLines,  \* the most lines of a table
    MaxPad     \* the most padding spaces before a name

HexChars == <<"0", "1", "2", "3", "4", "5", "6", "7",
              "8", "9", "a", "b", "c", "d", "e", "f">>

ASSUME MapsAssumption ==
    /\ Mappings \subseteq [start : 0..(16^7 - 1), end : 0..(16^7 - 1),
                           r : BOOLEAN, w : BOOLEAN, x : BOOLEAN, shared : BOOLEAN,
                           offset : 0..(16^7 - 1), major : 0..255, minor : 0..255,
                           inode : 0..(10^9 - 1)]
    /\ Names \subseteq Seq(STRING) /\ \A n \in Names : "\n" \notin ToSet(n)
    /\ MaxLines \in Nat \ {0} /\ MaxPad \in Nat \ {0}

VARIABLES
    table,    \* the lines of /proc/self/maps: [m, name, pad] (history)
    pos,      \* the next line reader.lines() yields
    regions,  \* the Vec<MemoryRegion> built so far
    status    \* "open", "reading", then "ok" or "err"

vars == <<table, pos, regions, status>>

None == <<>>
Some(v) == <<v>>

-----------------------------------------------------------------------------
(* The kernel's side: seq_put_hex_ll with a minimum width, and            *)
(* seq_put_decimal_ull.                                                   *)

HexText(n, w) == [i \in 1..w |-> HexChars[((n \div 16^(w - i)) % 16) + 1]]

DecText(n) ==
    LET w == CHOOSE k \in 1..9 : n < 10^k /\ (k = 1 \/ 10^(k - 1) <= n)
    IN  [i \in 1..w |-> HexChars[((n \div 10^(w - i)) % 10) + 1]]

DevText(m) == HexText(m.major, 2) \o <<":">> \o HexText(m.minor, 2)

(* One line of the table, without its newline.                            *)
LineText(l) ==
    LET m == l.m
    IN  HexText(m.start, 8) \o <<"-">> \o HexText(m.end, 8) \o <<" ">>
        \o <<IF m.r THEN "r" ELSE "-", IF m.w THEN "w" ELSE "-",
             IF m.x THEN "x" ELSE "-", IF m.shared THEN "s" ELSE "p">>
        \o <<" ">> \o HexText(m.offset, 8) \o <<" ">> \o DevText(m)
        \o <<" ">> \o DecText(m.inode) \o <<" ">>
        \o (IF l.name = <<>> THEN <<>> ELSE [i \in 1..l.pad |-> " "] \o l.name)

-----------------------------------------------------------------------------
(* The parser's side.                                                      *)

(* char::is_whitespace, on the characters a table can hold.              *)
Whitespace == {" ", "\t", "\r", "\f"}

(* str::split_whitespace: the maximal runs of non-whitespace characters, *)
(* in order.                                                               *)
SplitWhitespace(s) ==
    LET n         == Len(s)
        inWord(i) == s[i] \notin Whitespace
        starts    == SetToSortSeq({i \in 1..n : inWord(i) /\ (i = 1 \/ ~inWord(i - 1))}, <)
        stop(i)   == CHOOSE j \in i..n : (\A k \in i..j : inWord(k)) /\ (j = n \/ ~inWord(j + 1))
    IN  [k \in DOMAIN starts |-> SubSeq(s, starts[k], stop(starts[k]))]

(* str::split(d): the pieces between the separators, empty ones included. *)
SplitOn(s, d) ==
    LET seps == SetToSortSeq({i \in 1..Len(s) : s[i] = d}, <)
        cut  == <<0>> \o seps \o <<Len(s) + 1>>
    IN  [k \in 1..(Len(seps) + 1) |-> SubSeq(s, cut[k] + 1, cut[k + 1] - 1)]

(* u64/usize::from_str_radix(s, b), and str::parse::<u64> for b = 10: an  *)
(* optional '+', then one or more digits of the radix.                    *)
DigitVal(c) == CHOOSE i \in 0..15 : HexChars[i + 1] = c

FromStrRadix(s, b) ==
    LET body == IF s # <<>> /\ Head(s) = "+" THEN Tail(s) ELSE s
        ok   == body # <<>> /\ \A i \in DOMAIN body : body[i] \in ToSet(SubSeq(HexChars, 1, b))
    IN  [ok |-> ok,
         v  |-> IF ok THEN FoldLeft(LAMBDA a, c : a * b + DigitVal(c), 0, body) ELSE 0]

(* The words of the name put together with no separator.                 *)
JoinNoSpace(ps) == FlattenSeq(ps)

(* parts[5..].join(" ").                                                  *)
JoinSpace(ps) == FlattenSeq([i \in DOMAIN ps |-> IF i = 1 THEN ps[i] ELSE <<" ">> \o ps[i]])

(* A hex field read with radix 10.                                        *)
HexFieldDecimal(s) == FromStrRadix(s, 10)

(* usize::from_str_radix(_, 16) and u64::from_str_radix(_, 16).           *)
HexField(s) == FromStrRadix(s, 16)

(* parse_maps_line: None for a malformed line, in the order of the code's *)
(* early returns; otherwise the region.                                   *)
ParseMapsLine(line) ==
    LET parts == SplitWhitespace(line)
        addr  == SplitOn(parts[1], "-")
        start == HexField(addr[1])
        end   == HexField(addr[2])
        perms == parts[2]
        off   == HexField(parts[3])
        ino   == FromStrRadix(parts[5], 10)
    IN  IF \/ parts = <<>> \/ Len(addr) # 2 \/ ~start.ok \/ ~end.ok
           \/ Len(parts) < 5 \/ Len(perms) # 4 \/ ~off.ok \/ ~ino.ok
        THEN None
        ELSE Some([start |-> start.v, end |-> end.v,
                   readable |-> perms[1] = "r", writable |-> perms[2] = "w",
                   executable |-> perms[3] = "x", private |-> perms[4] = "p",
                   offset |-> off.v, device |-> parts[4], inode |-> ino.v,
                   pathname |-> IF Len(parts) > 5
                                THEN Some(JoinSpace(SubSeq(parts, 6, Len(parts))))
                                ELSE None])

(* BufRead::lines yields Err(InvalidData) for a line that is not UTF-8.   *)
IsUtf8(t) == "<ff>" \notin ToSet(t)

-----------------------------------------------------------------------------
Listings == [m : Mappings, name : Names, pad : 1..MaxPad]

Init ==
    /\ table \in UNION {[1..k -> Listings] : k \in 1..MaxLines}
    /\ pos = 1
    /\ regions = <<>>
    /\ status = "open"

(* File::open(path)?: /proc may be missing.                               *)
Open ==
    /\ status = "open"
    /\ status' \in {"reading", "err"}
    /\ UNCHANGED <<table, pos, regions>>

(* One turn of the loop: let line = line?; then push the region if        *)
(* parse_maps_line returns one.                                           *)
ReadLine ==
    /\ status = "reading"
    /\ pos <= Len(table)
    /\ LET t == LineText(table[pos])
       IN  IF IsUtf8(t)
           THEN /\ regions' = regions \o ParseMapsLine(t)
                /\ pos' = pos + 1
                /\ UNCHANGED status
           ELSE /\ status' = "err"
                /\ UNCHANGED <<pos, regions>>
    /\ UNCHANGED table

(* The lines are over: Ok(regions).                                       *)
Finish ==
    /\ status = "reading"
    /\ pos > Len(table)
    /\ status' = "ok"
    /\ UNCHANGED <<table, pos, regions>>

Done ==
    /\ status \in {"ok", "err"}
    /\ UNCHANGED vars

Next == Open \/ ReadLine \/ Finish \/ Done

Spec == Init /\ [][Next]_vars

-----------------------------------------------------------------------------
(* Properties.                                                             *)

(* What the kernel listed, in the form the parser should return it.       *)
Listed(l) ==
    [start |-> l.m.start, end |-> l.m.end,
     readable |-> l.m.r, writable |-> l.m.w, executable |-> l.m.x,
     private |-> ~l.m.shared, offset |-> l.m.offset, device |-> DevText(l.m),
     inode |-> l.m.inode, pathname |-> IF l.name = <<>> THEN None ELSE Some(l.name)]

(* Spec 4.2 and scenarios S1/S2: when parse_maps_file returns Ok, it has  *)
(* one region per line, in the table's order, with the addresses, the     *)
(* permissions, the offset, the device and the inode the kernel printed   *)
(* (maps.rs:53-129).                                                      *)
RegionsFaithful ==
    status = "ok" =>
        /\ Len(regions) = Len(table)
        /\ \A i \in DOMAIN table :
              [regions[i] EXCEPT !.pathname = None] = [Listed(table[i]) EXCEPT !.pathname = None]

(* A name as the parser returns it: each run of whitespace between two    *)
(* other characters becomes one space, whitespace at either end is gone. *)
Collapse(s) ==
    LET ws(i)  == s[i] \in Whitespace
        keep   == {i \in 1..Len(s) :
                     ~ws(i) \/ (/\ (\E j \in 1..(i - 1) : ~ws(j))
                               /\ ~ws(i - 1)
                               /\ (\E j \in (i + 1)..Len(s) : ~ws(j)))}
        idx    == SetToSortSeq(keep, <)
    IN  [k \in DOMAIN idx |-> IF ws(idx[k]) THEN " " ELSE s[idx[k]]]

(* Where the parser and spec 4.2 ("trailing whitespace in pathnames is    *)
(* preserved") part: when parse_maps_file returns Ok, a mapping with a    *)
(* name has a pathname, and it is the name with its whitespace collapsed, *)
(* which is the name itself only when it holds no whitespace run at an    *)
(* end or longer than one space (maps.rs:68-75, 111-115).                 *)
PathCollapsed ==
    status = "ok" =>
        \A i \in DOMAIN table :
            regions[i].pathname = IF table[i].name = <<>> THEN None
                                  ELSE Some(Collapse(table[i].name))

=============================================================================
