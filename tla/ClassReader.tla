---------------------------- MODULE ClassReader ----------------------------
(***************************************************************************)
(* load_class (loader.rs) and the from_bytes functions it calls            *)
(* (class.rs): a class file is read from front to back into a Class.       *)
(*                                                                         *)
(* A file is a sequence of items, each of a width in bytes and a value of  *)
(* one of three kinds: a number, a text, or the bytes of a method.  A      *)
(* read of another width or kind than the item at the cursor reads across  *)
(* the items: the reader has lost its place, and nothing is said about     *)
(* what it makes of the file from there on.  Each action is one run of     *)
(* reads with nothing to choose in between.                                *)
(***************************************************************************)
EXTENDS Descriptor

CONSTANTS
    Files,          \* the files to read: records with a field `items`
    Magic,          \* 0xCAFEBABE
    ObjectName,     \* java/lang/Object
    CodeName,       \* the attribute names the reader knows
    ConstantValueName
ASSUME NamesAssumption == CodeName # ConstantValueName
ASSUME FilesAssumption ==
    \A f \in Files :
        /\ Len(f.items) \in Nat /\ f.items = [k \in 1..Len(f.items) |-> f.items[k]]
        /\ \A k \in 1..Len(f.items) :
              LET i == f.items[k]
              IN  /\ i.w \in Nat
                  /\ \/ i.kind = "number" /\ i.v \in Nat
                     \/ i.kind = "text"   /\ i.v \in Seq(ToSet(i.v))
                     \/ i.kind = "bytes"  /\ i.v \in Seq(0..255)

B == INSTANCE Bytecode

VARIABLES
    file,       \* the file
    rest,       \* what the cursor has not passed
    table,      \* the table being read, or what stands before it
    left,       \* its entries left to read
    inner,      \* attributes left to read: of the member (or the class), and
                \* before it, of the Code attribute inside it
    pool,       \* constant_pool, as a sequence (index 0 is pool[1])
    class,      \* the Class, as far as it is read
    member,     \* the field or method being read
    oldOffset, newOffset,
    outcome     \* reading, done, error, panic or garbled (lost its place)
vars == <<file, rest, table, left, inner, pool, class, member, oldOffset, newOffset, outcome>>

NoClass ==
    [this |-> <<>>, super |-> <<>>, interfaces |-> <<>>, fields |-> {}, methods |-> {},
     attributes |-> {}, heapSize |-> 0]
NoMember ==
    [name |-> <<>>, text |-> <<>>, fd |-> Void, attributes |-> {}, code |-> <<>>]

Init ==
    /\ file \in Files
    /\ rest = file.items
    /\ table = "header" /\ left = 1 /\ inner = <<>>
    /\ pool = <<>>
    /\ class = NoClass
    /\ member = NoMember
    /\ oldOffset = 0 /\ newOffset = 0
    /\ outcome = "reading"

-----------------------------------------------------------------------------
(***************************************************************************)
(* The constant pool.                                                      *)
(***************************************************************************)

Constant(tag, args, text) == [tag |-> tag, args |-> args, text |-> text]
NoConstant == Constant(0, <<>>, <<>>)
Utf8 == 1
Get(i) == IF i < Len(pool) THEN pool[i + 1] ELSE NoConstant

\* ConstantPool::resolve_class_info; an option is a sequence of at most one.
ClassInfo(i) ==
    IF Get(i).tag = 7 /\ Get(Get(i).args[1]).tag = Utf8
    THEN <<Get(Get(i).args[1]).text>> ELSE <<>>

\* ConstantPool::resolve_ref_info.  The kind is MethodRef for all three tags.
RefInfo(i) ==
    LET nt == Get(Get(i).args[2])
    IN  IF /\ Get(i).tag \in {9, 10, 11}
           /\ ClassInfo(Get(i).args[1]) # <<>>
           /\ nt.tag = 12 /\ \A k \in 1..2 : Get(nt.args[k]).tag = Utf8
        THEN <<[class |-> ClassInfo(Get(i).args[1])[1], name |-> Get(nt.args[1]).text,
                text |-> Get(nt.args[2]).text, kind |-> 10]>>
        ELSE <<>>

\* Constant::from_bytes: the widths of what follows a tag.
Operands(tag) ==
    CASE tag = Utf8                    -> <<2>>         \* and the text
      [] tag \in {3, 4}                -> <<4>>
      [] tag \in {5, 6}                -> <<8>>
      [] tag \in {7, 8, 16}            -> <<2>>
      [] tag \in {9, 10, 11, 12, 18}   -> <<2, 2>>
      [] tag = 15                      -> <<1, 2>>
      [] OTHER                         -> <<>>          \* invalid pool tag

Item(w, v) == [w |-> w, v |-> v]

\* Constant::to_bytes.  A text is written without its length.
ConstantItems(c) ==
    IF c.tag = Utf8 THEN <<Item(1, Utf8), Item(Len(c.text), c.text)>>
    ELSE <<Item(1, c.tag)>> \o [k \in DOMAIN c.args |-> Item(Operands(c.tag)[k], c.args[k])]

-----------------------------------------------------------------------------
(***************************************************************************)
(* Reads.                                                                  *)
(***************************************************************************)

Reading == outcome = "reading"
InTable(t) == Reading /\ table = t /\ inner = <<>>
More(t) == InTable(t) /\ left > 0
Over(t) == InTable(t) /\ left = 0
MoreMembers    == More("fields") \/ More("methods")
MoreAttributes == Reading /\ inner # <<>> /\ Head(inner) > 0
NoMoreAttributes == Reading /\ inner # <<>> /\ Head(inner) = 0

\* The number at the k-th item (0 where there is none), and the block there.
V(k) == IF k <= Len(rest) /\ rest[k].kind = "number" THEN rest[k].v ELSE 0
Block(k) == rest[k].v
Width(k) == IF k <= Len(rest) THEN rest[k].w ELSE -1
Text(k) == Get(V(k)).text

\* What attribute the cursor is at, when its name can be read.
Attribute(name) ==
    MoreAttributes /\ Len(rest) > 0 /\ Get(V(1)).tag = Utf8 /\ Text(1) = name

\* The widths read next.  Those of a constant and of an attribute depend on
\* what is read first; a body that is skipped is not read.
ConstantReads == <<1>> \o Operands(V(1)) \o (IF V(1) = Utf8 THEN <<V(2)>> ELSE <<>>)
CodeReads == <<2, 4, 2, 2, 4, V(5), 2>> \o [k \in 1..4 * V(7) + 1 |-> 2]
Expected ==
    CASE table = "header" -> <<4, 2, 2, 2>>
      [] More("constants") -> ConstantReads
      [] Over("constants") \/ MoreMembers -> <<2, 2, 2, 2>>
      [] Attribute(CodeName) -> CodeReads
      [] Attribute(ConstantValueName) -> <<2, 4, 2>>
      [] MoreAttributes /\ ~Attribute(CodeName) /\ ~Attribute(ConstantValueName) -> <<2, 4>>
      [] OTHER -> <<2>>

ReadAs(k) == IF More("constants") /\ V(1) = Utf8 /\ k = 3 THEN "text"
             ELSE IF Attribute(CodeName) /\ k = 6 THEN "bytes"
             ELSE "number"
ReadAt(k) == Width(k) = Expected[k] /\ rest[k].kind = ReadAs(k)
Reads == \A k \in DOMAIN Expected : ReadAt(k)

\* The cursor passes n items (or stands behind the end).
Pass(n) == rest' = SubSeq(rest, n + 1, Len(rest)) /\ UNCHANGED <<file, outcome>>

Stop(how) ==
    /\ outcome' = how
    /\ UNCHANGED <<file, rest, table, left, inner, pool, class, member, oldOffset, newOffset>>

\* A missing constant is an error, one of another kind a panic.
Missing(c) == IF c = NoConstant THEN "error" ELSE "panic"

-----------------------------------------------------------------------------
(***************************************************************************)
(* load_class, from the front of the file to its end.                      *)
(***************************************************************************)

\* Faulty variant: one is taken from the count without looking at it.
ReadHeaderUnchecked ==
    /\ InTable("header") /\ Reads
    /\ IF V(1) # Magic \/ V(2) > 51 THEN Stop("error")
       ELSE /\ pool' = <<Constant(Utf8, <<>>, <<>>)>>
            /\ table' = "constants" /\ left' = V(4) - 1
            /\ Pass(4)
            /\ UNCHANGED <<inner, class, member, oldOffset, newOffset>>

\* The version compared with 51 is the first one in the file, the minor one.
ReadHeader ==
    /\ InTable("header") /\ Reads
    /\ IF V(1) # Magic \/ V(2) > 51 THEN Stop("error")
       ELSE /\ pool' = <<Constant(Utf8, <<>>, <<>>)>>
            /\ table' = "constants" /\ left' = IF V(4) = 0 THEN 0 ELSE V(4) - 1
            /\ Pass(4)
            /\ UNCHANGED <<inner, class, member, oldOffset, newOffset>>

ReadConstant ==
    /\ More("constants") /\ Reads
    /\ LET ops == Operands(V(1))
       IN  IF ops = <<>> THEN Stop("panic")
           ELSE /\ pool' = Append(pool,
                        IF V(1) = Utf8 THEN Constant(Utf8, <<>>, Block(3))
                        ELSE Constant(V(1), [k \in DOMAIN ops |-> V(k + 1)], <<>>))
                /\ left' = left - 1
                /\ Pass(Len(Expected))
                /\ UNCHANGED <<table, inner, class, member, oldOffset, newOffset>>

\* Only java/lang/Object may have no superclass.
ReadNames ==
    /\ Over("constants") /\ Reads
    /\ LET this  == ClassInfo(V(2))
           super == ClassInfo(V(3))
       IN  IF this = <<>> THEN Stop("error")
           ELSE IF super = <<>> /\ this[1] # ObjectName
                THEN Stop(IF Get(V(3)) = NoConstant THEN "panic" ELSE "error")
           ELSE /\ class' = [class EXCEPT !.this = this[1], !.super = super]
                /\ table' = "interfaces" /\ left' = V(4)
                /\ Pass(4)
                /\ UNCHANGED <<inner, pool, member, oldOffset, newOffset>>

ReadInterface ==
    /\ More("interfaces") /\ Reads
    /\ class' = [class EXCEPT !.interfaces = Append(@, V(1))]
    /\ left' = left - 1
    /\ Pass(1)
    /\ UNCHANGED <<table, inner, pool, member, oldOffset, newOffset>>

\* field_count, method_count and attribute_count.
ReadCount ==
    /\ Over("interfaces") \/ Over("fields") \/ Over("methods")
    /\ Reads
    /\ table' = [interfaces |-> "fields", fields |-> "methods", methods |-> "attributes"][table]
    /\ left'  = IF table = "methods" THEN 0 ELSE V(1)
    /\ inner' = IF table = "methods" THEN <<V(1)>> ELSE <<>>
    /\ Pass(1)
    /\ UNCHANGED <<pool, class, member, oldOffset, newOffset>>

\* FieldInfo::from_bytes and Method::from_bytes up to the attributes.  A field
\* descriptor is parsed at once, a method's when the method is called.
ReadMember ==
    /\ MoreMembers /\ Reads
    /\ LET name == Get(V(2))
           text == Get(V(3))
           fd   == IF table = "fields" /\ text.tag = Utf8 THEN ParseField(text.text)
                   ELSE Value(Void)
       IN  IF name.tag # Utf8 THEN Stop(Missing(name))
           ELSE IF text.tag # Utf8 THEN Stop(Missing(text))
           ELSE IF fd.is # "value" THEN Stop(fd.is)
           ELSE /\ member' = [name |-> name.text, text |-> text.text, fd |-> fd.val,
                               attributes |-> {}, code |-> <<>>]
                /\ inner' = <<V(4)>>
                /\ Pass(4)
                /\ UNCHANGED <<table, left, pool, class, oldOffset, newOffset>>

\* attribute_map.insert of the class or of the member; the attributes of a
\* Code attribute are kept in a vector nobody reads.
AddAttribute ==
    LET added == {Text(1)}
    IN  /\ class'  = IF Len(inner) = 1 /\ table = "attributes"
                     THEN [class EXCEPT !.attributes = @ \cup added] ELSE class
        /\ member' = IF Len(inner) = 1 /\ table # "attributes"
                     THEN [member EXCEPT !.attributes = @ \cup added] ELSE member

AttributeRead == inner' = <<Head(inner) - 1>> \o Tail(inner)

\* Attribute::from_bytes of an attribute without a reader: the body is
\* skipped, also when the file ends inside it.
SkipAttribute ==
    /\ MoreAttributes /\ Reads
    /\ ~Attribute(CodeName) /\ ~Attribute(ConstantValueName)
    /\ IF Get(V(1)).tag # Utf8
       THEN Stop(IF table = "attributes" THEN "panic" ELSE Missing(Get(V(1))))
       ELSE IF Width(3) \notin {-1, V(2)} THEN Stop("garbled")
       ELSE /\ AddAttribute /\ AttributeRead
            /\ Pass(3)
            /\ UNCHANGED <<table, left, pool, oldOffset, newOffset>>

ReadConstantValue ==
    /\ Attribute(ConstantValueName) /\ Reads
    /\ AddAttribute /\ AttributeRead
    /\ Pass(3)
    /\ UNCHANGED <<table, left, pool, oldOffset, newOffset>>

\* The code is decoded; the exception table is read; the attributes follow.
ReadCode ==
    /\ Attribute(CodeName) /\ Reads
    /\ LET code == B!Decode(Block(6))
           n    == Len(Expected)
       IN  IF code.is # "value" THEN Stop(code.is)
           ELSE /\ class' = class
                /\ member' = [member EXCEPT !.attributes = @ \cup {CodeName}, !.code = code.val]
                /\ inner' = <<V(n)>> \o <<Head(inner) - 1>> \o Tail(inner)
                /\ Pass(n)
                /\ UNCHANGED <<table, left, pool, oldOffset, newOffset>>

EndCode ==
    /\ NoMoreAttributes /\ Len(inner) > 1
    /\ inner' = Tail(inner)
    /\ UNCHANGED <<file, rest, table, left, pool, class, member, oldOffset, newOffset, outcome>>

\* Faulty variant: the old offset is taken before the size is added.
EndFieldStale ==
    /\ NoMoreAttributes /\ Len(inner) = 1 /\ table = "fields"
    /\ LET size  == SizeOf(member.fd)
           field == [name |-> member.name, fd |-> member.fd, offset |-> oldOffset]
       IN  /\ class' = [class EXCEPT
                !.heapSize = @ + size,
                !.fields = {f \in @ : f.name # member.name} \cup {field}]
           /\ newOffset' = newOffset + size
           /\ oldOffset' = newOffset
    /\ left' = left - 1 /\ inner' = <<>>
    /\ UNCHANGED <<file, rest, table, pool, member, outcome>>

\* The layout of load_class: the field lies at the old offset; a field of the
\* same name is replaced.
EndField ==
    /\ NoMoreAttributes /\ Len(inner) = 1 /\ table = "fields"
    /\ LET size  == SizeOf(member.fd)
           field == [name |-> member.name, fd |-> member.fd, offset |-> oldOffset]
       IN  /\ class' = [class EXCEPT
                !.heapSize = @ + size,
                !.fields = {f \in @ : f.name # member.name} \cup {field}]
           /\ newOffset' = newOffset + size
           /\ oldOffset' = newOffset + size
    /\ left' = left - 1 /\ inner' = <<>>
    /\ UNCHANGED <<file, rest, table, pool, member, outcome>>

\* Faulty variant: methods are kept by their name alone.
EndMethodByName ==
    /\ NoMoreAttributes /\ Len(inner) = 1 /\ table = "methods"
    /\ LET method == [name |-> member.name, text |-> member.text, code |-> member.code]
       IN  class' = [class EXCEPT
            !.methods = {m \in @ : m.name # method.name} \cup {method}]
    /\ left' = left - 1 /\ inner' = <<>>
    /\ UNCHANGED <<file, rest, table, pool, member, oldOffset, newOffset, outcome>>

EndMethod ==
    /\ NoMoreAttributes /\ Len(inner) = 1 /\ table = "methods"
    /\ LET method == [name |-> member.name, text |-> member.text, code |-> member.code]
       IN  class' = [class EXCEPT
            !.methods = {m \in @ : m.name # method.name \/ m.text # method.text} \cup {method}]
    /\ left' = left - 1 /\ inner' = <<>>
    /\ UNCHANGED <<file, rest, table, pool, member, oldOffset, newOffset, outcome>>

Finish ==
    /\ NoMoreAttributes /\ Len(inner) = 1 /\ table = "attributes"
    /\ Stop("done")

\* A read that does not find what it expects: the file has ended (an error,
\* or a panic where the code unwraps), or the place is lost.  The code block
\* is read by read_exact with its result ignored: a file that ends inside it
\* is read on from the front of the block.
FailRead ==
    /\ Reading /\ ~NoMoreAttributes /\ ~Reads
    /\ LET first == CHOOSE k \in DOMAIN Expected :
                        ~ReadAt(k) /\ \A j \in 1..k - 1 : ReadAt(j)
           inCode == Attribute(CodeName) /\ first = 6
           unwraps == More("interfaces") \/ table = "attributes"
       IN  Stop(IF Width(first) # -1 \/ inCode THEN "garbled"
                ELSE IF unwraps THEN "panic" ELSE "error")

Next ==
    \/ ReadHeader \/ ReadConstant \/ ReadNames \/ ReadInterface \/ ReadCount
    \/ ReadMember \/ SkipAttribute \/ ReadConstantValue \/ ReadCode
    \/ EndCode \/ EndField \/ EndMethod \/ Finish \/ FailRead

Spec == Init /\ [][Next]_vars

-----------------------------------------------------------------------------
(***************************************************************************)
(* Properties.                                                             *)
(***************************************************************************)

Outcomes == {"reading", "done", "error", "panic", "garbled"}
TableNames ==
    {"header", "constants", "interfaces", "fields", "methods", "attributes"}
Elems == Base \cup {"L"}

\* Types: the counts of what is left never run below zero, a member is being
\* read only while one is left, and a field that is being read has a
\* descriptor of a field.
ReaderTypeOK ==
    /\ table \in TableNames
    /\ left \in Nat /\ inner \in Seq(Nat)
    /\ inner # <<>> => table = "attributes" \/ (table \in {"fields", "methods"} /\ left > 0)
    /\ oldOffset \in Nat /\ newOffset \in Nat
    /\ outcome \in Outcomes
    /\ (inner # <<>> /\ table = "fields") => member.fd.dims \in Nat /\ member.fd.elem \in Elems

\* load_class lays the fields of a class out in one block: no two fields share
\* a byte, and every field ends inside the size that objects are allocated
\* with (heap_size), whatever the file says and wherever it ends.
FieldsDisjoint ==
    /\ \A f \in class.fields : f.offset + SizeOf(f.fd) <= class.heapSize
    /\ \A f, g \in class.fields :
          f # g => \/ f.offset + SizeOf(f.fd) <= g.offset
                   \/ g.offset + SizeOf(g.fd) <= f.offset

=============================================================================
