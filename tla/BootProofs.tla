----------------------------- MODULE BootProofs -----------------------------
(* From the packed binaries to the running kernel, proved for all contents *)
(* of the files, for buffers and windows of all sizes, and for whatever    *)
(* other programs do to the files meanwhile.                               *)
EXTENDS Boot, SequenceTheorems, WellFoundedInduction, TLAPS

Packs == Seq(Seq(Nat))

(* Files p in a sequence of cells b: how many cells the first m of them    *)
(* take, and after how many the bytes of the next begin.                   *)
End(p, m) ==
  IF m = 0 THEN 0
  ELSE IF m = 1 THEN Len(p[1]) + 1
  ELSE IF m = 2 THEN Len(p[1]) + Len(p[2]) + 2
  ELSE Len(p[1]) + Len(p[2]) + Len(p[3]) + 3

First(p, m) == IF m = 1 THEN 0 ELSE End(p, m - 1) + 1

(* The number that is packed with file m of n: how many modules there are, *)
(* behind the kernel, and the size of a module, before it.                 *)
Header(p, m) == IF m = 1 THEN End(p, 1) ELSE First(p, m)
Count(p, m, n) == IF m = 1 THEN n - 1 ELSE Len(p[m])

(* The l files that are done, of n.                                        *)
Laid(b, p, l, n) ==
  /\ End(p, l) <= Len(b)
  /\ \A m \in 1 .. l :
       /\ b[Header(p, m)] = Count(p, m, n)
       /\ \A c \in 1 .. Len(p[m]) : b[First(p, m) + c] = p[m][c]

(* And the next, f, of which a number of cells have been written.          *)
InHand(b, p, l, f, cells) ==
  LET first == First(p, l + 1) IN
  /\ cells <= Len(f) /\ Len(b) = first + cells
  /\ \A c \in 1 .. cells : b[first + c] = f[c]
  /\ l > 0 => b[first] = Len(f)

Three == Len(array) \in 2 .. 3
-----------------------------------------------------------------------------
PackerTypes ==
  /\ array \in CommandLines
  /\ host \in [Paths -> P!HostEntry] /\ \A p \in Paths : host[p] \in Contents[p]
  /\ room \in Nat /\ pos \in Nat /\ file_i \in Nat
  /\ target \in P!HostEntry /\ packed \in Packs /\ steady \in BOOLEAN

PackerAt ==
  /\ packing \in {"parse_opt", "checkFiles", "target", "source", "write_size", "write_file",
                  "usage", "failed", "crashed", "done"}
  /\ packing \in {"parse_opt", "target"} => file_i = 1
  /\ packing \in {"parse_opt", "checkFiles", "target"} => packed = <<>>
  /\ packing \in {"checkFiles", "target", "source", "write_size", "write_file"} =>
       file_i \in 1 .. Len(array)
  /\ packing \in {"source", "write_size", "write_file"} => Len(packed) = file_i - 1
  /\ packing = "write_size" => file_i > 1 /\ pos = 0
  /\ packing = "done" => Len(packed) = Len(array)
  /\ packing = "crashed" => ~ steady
  /\ packed # <<>> => packed[1] = KernelBinary

(* While nothing changes in the packer's hand, the file holds what it has  *)
(* read, in its place.                                                     *)
InPlace ==
  /\ Laid(target.bytes, packed, Len(packed), Len(array))
  /\ packing \in {"source", "write_size", "done"} =>
       Len(target.bytes) = End(packed, Len(packed))
  /\ packing = "write_file" =>
       InHand(target.bytes, packed, Len(packed), host[array[file_i]].bytes, pos)

PackerLays == steady /\ Three => InPlace
-----------------------------------------------------------------------------
(* The first n cells of the packed file are on the image.                  *)
Copied(n) ==
  /\ disk \in Seq(Nat) /\ payload + n <= Len(disk)
  /\ \A c \in 1 .. n : disk[payload + c] = target.bytes[c]

(* The image is made from a packed file that does not change any more.     *)
ImageAt ==
  /\ imaging \in {"start", "size", "open", "fill", "mbr", "boot", "kernel", "end"}
  /\ imaging # "start" => packing = "done" \/ packing = "crashed"
  /\ mbr \in Mbrs /\ k \in Nat /\ diskSize \in Nat /\ position \in Nat /\ broken \in BOOLEAN
  /\ imaging \in {"start", "open", "fill", "mbr"} => ret = 0
  /\ imaging \in {"start", "size", "open"} => disk = Old
  /\ imaging \in {"fill", "mbr", "boot", "kernel"} =>
       disk \in Seq(Nat) /\ mbr.kind = "file"
  /\ imaging = "mbr" => Len(disk) >= D!System
  /\ imaging \in {"boot", "kernel"} /\ ret # 0 => broken

ImageHolds ==
  ~ broken =>
    /\ imaging = "boot" =>
         /\ position = D!System + k /\ position <= Len(disk) /\ k <= Len(boot.bytes)
    /\ imaging = "kernel" => position = payload + k /\ k <= Len(target.bytes) /\ Copied(k)
    /\ imaging = "end" /\ ret = 0 => Copied(Len(target.bytes))
-----------------------------------------------------------------------------
(* The kernel is started from an image that is complete, and what it reads *)
(* in memory is the packed file.                                           *)
StartAt ==
  /\ starting \in {"off", "loader", "modules", "bss", "main", "started", "lost"}
  /\ starting # "off" => imaging = "end" /\ ret = 0
  /\ DOMAIN loaded = 0 .. 1

StartReads ==
  steady /\ ~ broken /\ Supported =>
    /\ starting \in {"loader", "modules"} =>
         \A c \in 1 .. Len(target.bytes) : memory[c - 1] = target.bytes[c]
    /\ starting = "modules" =>
         \/ currentModule = Len(KernelBinary)
         \/ /\ moduleCount = Len(array) - 1 /\ i \in 0 .. moduleCount
            /\ currentModule = End(packed, i + 1)
            /\ \A n \in 0 .. (i - 1) : loaded[n] = packed[n + 2]
    /\ starting \in {"bss", "main", "started"} =>
         \A n \in 2 .. Len(array) : loaded[n - 2] = packed[n]
    /\ starting = "lost" => packed[2] = <<>>

PackerInv == PackerTypes /\ PackerAt /\ PackerLays
ImageInv == ImageAt /\ ImageHolds /\ OldImageKept
StartInv == StartAt /\ StartReads
Inv == PackerInv /\ ImageInv /\ StartInv
-----------------------------------------------------------------------------
(* Sequences. *)

LEMMA MinOfTwo ==
  ASSUME NEW a \in Int, NEW b \in Int
  PROVE  /\ P!Min({a, b}) = IF a <= b THEN a ELSE b
         /\ D!Min({a, b}) = IF a <= b THEN a ELSE b
BY DEF P!Min, D!Min

(* What one read gives.                                                    *)
LEMMA Chunk ==
  ASSUME NEW s \in Seq(Nat), NEW n \in 0 .. Len(s), NEW most \in Nat \ {0},
         NEW m, m = IF n + most <= Len(s) THEN n + most ELSE Len(s),
         NEW chunk, chunk = SubSeq(s, n + 1, m)
  PROVE  /\ chunk \in Seq(Nat) /\ Len(chunk) = m - n
         /\ m \in n .. Len(s) /\ (Len(chunk) < most => m = Len(s))
         /\ \A c \in 1 .. Len(chunk) : chunk[c] = s[n + c]
<1>1. Len(s) \in Nat /\ m \in n .. Len(s) /\ m \in Int /\ n \in Nat
  OBVIOUS
<1>2. \A c \in (n + 1) .. m : s[c] \in Nat
  BY <1>1, ElementOfSeq
<1>3. /\ chunk \in Seq(Nat)
      /\ Len(chunk) = IF n + 1 <= m THEN m - (n + 1) + 1 ELSE 0
      /\ \A c \in 1 .. (m - (n + 1) + 1) : chunk[c] = s[n + 1 + c - 1]
  BY <1>1, <1>2, SubSeqProperties
<1>4. Len(chunk) = m - n
  BY <1>1, <1>3
<1>5. \A c \in 1 .. Len(chunk) : chunk[c] = s[n + c]
  <2> SUFFICES ASSUME NEW c \in 1 .. Len(chunk) PROVE chunk[c] = s[n + c]
    OBVIOUS
  <2>1. c \in 1 .. (m - (n + 1) + 1) /\ n + 1 + c - 1 = n + c
    BY <1>1, <1>4
  <2> QED
    BY <2>1, <1>3
<1> QED
  BY <1>1, <1>3, <1>4, <1>5

LEMMA PackFacts ==
  ASSUME NEW p \in Packs
  PROVE  /\ Len(p) \in Nat
         /\ \A m \in 1 .. Len(p) : p[m] \in Seq(Nat) /\ Len(p[m]) \in Nat
         /\ \A f \in Seq(Nat) :
              /\ Append(p, f) \in Packs /\ Len(Append(p, f)) = Len(p) + 1
              /\ Append(p, f)[Len(p) + 1] = f
              /\ \A m \in 1 .. Len(p) : Append(p, f)[m] = p[m]
BY DEF Packs

(* The places of the files, of which there are three at most, one behind   *)
(* the other.                                                              *)
LEMMA Places ==
  ASSUME NEW p, NEW l \in 0 .. 3, \A m \in 1 .. l : Len(p[m]) \in Nat
  PROVE  /\ End(p, l) \in Nat
         /\ \A m \in 1 .. l :
              /\ End(p, m) \in Nat /\ First(p, m) \in Nat
              /\ First(p, m) + Len(p[m]) <= End(p, l)
              /\ Header(p, m) \in 1 .. End(p, l)
<1>1. l \in {0, 1, 2, 3}
  OBVIOUS
<1>2. CASE l = 0
  BY <1>2 DEF End
<1>3. CASE l = 1
  <2>1. PICK x \in Nat : x = Len(p[1])
    BY <1>3
  <2> QED
    BY <1>3, <2>1 DEF End, First, Header
<1>4. CASE l = 2
  <2>1. PICK x, y \in Nat : x = Len(p[1]) /\ y = Len(p[2])
    BY <1>4
  <2>2. /\ End(p, 1) = x + 1 /\ End(p, 2) = x + y + 2
        /\ First(p, 1) = 0 /\ First(p, 2) = x + 2
        /\ Header(p, 1) = x + 1 /\ Header(p, 2) = x + 2
    BY <2>1 DEF End, First, Header
  <2>3. \A m \in 1 .. l : m = 1 \/ m = 2
    BY <1>4
  <2>4. x + y + 2 \in Nat
    OBVIOUS
  <2>5. End(p, l) = x + y + 2
    BY <1>4, <2>2
  <2>6. ASSUME NEW m \in 1 .. l
        PROVE  /\ End(p, m) \in Nat /\ First(p, m) \in Nat
               /\ First(p, m) + Len(p[m]) <= x + y + 2
               /\ Header(p, m) \in 1 .. (x + y + 2)
    <3>1. CASE m = 1
      <4>1. /\ End(p, m) = x + 1 /\ First(p, m) = 0 /\ Header(p, m) = x + 1
            /\ Len(p[m]) = x
        BY <3>1, <2>1, <2>2
      <4>2. x + 1 \in Nat /\ 0 \in Nat /\ 0 + x <= x + y + 2 /\ x + 1 \in 1 .. (x + y + 2)
        OBVIOUS
      <4> QED
        BY <4>1, <4>2
    <3>2. CASE m = 2
      <4>1. /\ End(p, m) = x + y + 2 /\ First(p, m) = x + 2 /\ Header(p, m) = x + 2
            /\ Len(p[m]) = y
        BY <3>2, <2>1, <2>2
      <4>2. x + y + 2 \in Nat /\ x + 2 \in Nat /\ x + 2 + y <= x + y + 2 /\ x + 2 \in 1 .. (x + y + 2)
        OBVIOUS
      <4> QED
        BY <4>1, <4>2
    <3> QED
      BY <2>3, <3>1, <3>2
  <2> QED
    BY <2>4, <2>5, <2>6
<1>5. CASE l = 3
  <2>1. PICK x, y, z \in Nat : x = Len(p[1]) /\ y = Len(p[2]) /\ z = Len(p[3])
    BY <1>5
  <2>2. /\ End(p, 1) = x + 1 /\ End(p, 2) = x + y + 2 /\ End(p, 3) = x + y + z + 3
        /\ First(p, 1) = 0 /\ First(p, 2) = x + 2 /\ First(p, 3) = x + y + 3
        /\ Header(p, 1) = x + 1 /\ Header(p, 2) = x + 2 /\ Header(p, 3) = x + y + 3
    BY <2>1 DEF End, First, Header
  <2>3. \A m \in 1 .. l : m = 1 \/ m = 2 \/ m = 3
    BY <1>5
  <2>4. x + y + z + 3 \in Nat
    OBVIOUS
  <2>5. End(p, l) = x + y + z + 3
    BY <1>5, <2>2
  <2>6. ASSUME NEW m \in 1 .. l
        PROVE  /\ End(p, m) \in Nat /\ First(p, m) \in Nat
               /\ First(p, m) + Len(p[m]) <= x + y + z + 3
               /\ Header(p, m) \in 1 .. (x + y + z + 3)
    <3>1. CASE m = 1
      <4>1. /\ End(p, m) = x + 1 /\ First(p, m) = 0 /\ Header(p, m) = x + 1
            /\ Len(p[m]) = x
        BY <3>1, <2>1, <2>2
      <4>2. x + 1 \in Nat /\ 0 \in Nat /\ 0 + x <= x + y + z + 3 /\ x + 1 \in 1 .. (x + y + z + 3)
        OBVIOUS
      <4> QED
        BY <4>1, <4>2
    <3>2. CASE m = 2
      <4>1. /\ End(p, m) = x + y + 2 /\ First(p, m) = x + 2 /\ Header(p, m) = x + 2
            /\ Len(p[m]) = y
        BY <3>2, <2>1, <2>2
      <4>2. x + y + 2 \in Nat /\ x + 2 \in Nat /\ x + 2 + y <= x + y + z + 3 /\ x + 2 \in 1 .. (x + y + z + 3)
        OBVIOUS
      <4> QED
        BY <4>1, <4>2
    <3>3. CASE m = 3
      <4>1. /\ End(p, m) = x + y + z + 3 /\ First(p, m) = x + y + 3 /\ Header(p, m) = x + y + 3
            /\ Len(p[m]) = z
        BY <3>3, <2>1, <2>2
      <4>2. x + y + z + 3 \in Nat /\ x + y + 3 \in Nat /\ x + y + 3 + z <= x + y + z + 3 /\ x + y + 3 \in 1 .. (x + y + z + 3)
        OBVIOUS
      <4> QED
        BY <4>1, <4>2
    <3> QED
      BY <2>3, <3>1, <3>2, <3>3
  <2> QED
    BY <2>4, <2>5, <2>6
<1> QED
  BY <1>1, <1>2, <1>3, <1>4, <1>5

(* What is appended moves nothing.                                         *)
LEMMA LaidGrows ==
  ASSUME NEW p, NEW l \in 0 .. 3, \A m \in 1 .. l : Len(p[m]) \in Nat,
         NEW b, NEW d, NEW n, Laid(b, p, l, n),
         NEW x \in Nat, x = Len(b), NEW y \in Nat, y = Len(d), x <= y,
         \A c \in 1 .. x : d[c] = b[c]
  PROVE  Laid(d, p, l, n)
<1>1. PICK e \in Nat : e = End(p, l) /\ e <= x
  BY Places DEF Laid
<1>2. ASSUME NEW m \in 1 .. l
      PROVE  /\ d[Header(p, m)] = Count(p, m, n)
             /\ \A c \in 1 .. Len(p[m]) : d[First(p, m) + c] = p[m][c]
  <2>1. PICK h, f, z \in Nat : /\ h = Header(p, m) /\ f = First(p, m) /\ z = Len(p[m])
                              /\ h \in 1 .. e /\ f + z <= e
    <3>1. /\ Header(p, m) \in 1 .. e /\ First(p, m) \in Nat
          /\ First(p, m) + Len(p[m]) <= e /\ Len(p[m]) \in Nat
      BY <1>1, Places
    <3> QED
      BY <3>1
  <2>2. d[h] = b[h]
    BY <1>1, <2>1
  <2>3. ASSUME NEW c \in 1 .. z PROVE d[f + c] = b[f + c]
    <3>1. f + z <= x
      BY <1>1, <2>1
    <3>2. f + c \in 1 .. x
      BY <3>1
    <3> QED
      BY <3>2
  <2> QED
    BY <2>1, <2>2, <2>3 DEF Laid
<1>3. End(p, l) <= Len(d)
  BY <1>1
<1> QED
  BY <1>2, <1>3 DEF Laid

(* A file that has been written to its end is done, the kernel when the    *)
(* number of the modules is behind it.                                     *)
LEMMA LaidNext ==
  ASSUME NEW p, NEW l \in 1 .. 2, \A m \in 1 .. l : Len(p[m]) \in Nat,
         NEW f, NEW z \in Nat, z = Len(f), NEW b, NEW n,
         Laid(b, p, l, n), InHand(b, p, l, f, z),
         NEW q, q[l + 1] = f, \A m \in 1 .. l : q[m] = p[m]
  PROVE  Laid(b, q, l + 1, n) /\ Len(b) = End(q, l + 1)
<1>1. PICK x, y \in Nat : x = Len(p[1]) /\ (l = 2 => y = Len(p[2]))
  BY 1 \in 1 .. l, l = 2 => 2 \in 1 .. l
<1>2. q[1] = p[1] /\ (l = 2 => q[2] = p[2])
  BY 1 \in 1 .. l, l = 2 => 2 \in 1 .. l
<1>3. ASSUME NEW m \in 1 .. l PROVE End(q, m) = End(p, m)
  <2>1. m = 1 \/ (m = 2 /\ l = 2)
    OBVIOUS
  <2> QED
    BY <1>2, <2>1 DEF End
<1>4. \A m \in 1 .. (l + 1) : First(q, m) = First(p, m)
  <2>1. \A m \in 1 .. (l + 1) : m = 1 \/ m - 1 \in 1 .. l
    OBVIOUS
  <2> QED
    BY <1>3, <2>1 DEF First
<1>5. PICK g \in Nat : g = First(p, l + 1) /\ End(q, l + 1) = g + z
  <2>1. CASE l = 1
    <3>0. l + 1 = 2 /\ q[2] = f
      BY <2>1
    <3>1. First(p, 2) = x + 2 /\ End(q, 2) = x + z + 2
      BY <1>1, <1>2, <3>0 DEF End, First
    <3> QED
      BY <3>0, <3>1
  <2>2. CASE l = 2
    <3>0. l + 1 = 3 /\ q[3] = f
      BY <2>2
    <3>1. First(p, 3) = Len(p[1]) + Len(p[2]) + 2 + 1
      BY DEF End, First
    <3>2. End(q, 3) = Len(q[1]) + Len(q[2]) + Len(q[3]) + 3
      BY DEF End
    <3>3. Len(p[1]) = x /\ Len(p[2]) = y /\ Len(q[1]) = x /\ Len(q[2]) = y /\ Len(q[3]) = z
      BY <1>1, <1>2, <2>2, <3>0
    <3>4. First(p, 3) = x + y + 2 + 1 /\ End(q, 3) = x + y + z + 3
      BY <3>1, <3>2, <3>3
    <3>5. x + y + 2 + 1 \in Nat /\ x + y + z + 3 = (x + y + 2 + 1) + z
      OBVIOUS
    <3> QED
      BY <3>0, <3>4, <3>5
  <2> QED
    BY <2>1, <2>2
<1>6. Len(b) = g + z /\ b[g] = z /\ \A c \in 1 .. z : b[g + c] = f[c]
  BY <1>5 DEF InHand
<1>7. First(q, l + 1) = g /\ Header(q, l + 1) = g /\ Count(q, l + 1, n) = z
  BY <1>4, <1>5, l + 1 \in 1 .. (l + 1), l + 1 # 1 DEF Header, Count
<1>8. ASSUME NEW m \in 1 .. l
      PROVE  /\ b[Header(q, m)] = Count(q, m, n)
             /\ \A c \in 1 .. Len(q[m]) : b[First(q, m) + c] = q[m][c]
  <2>1. /\ Header(q, m) = Header(p, m) /\ Count(q, m, n) = Count(p, m, n)
        /\ q[m] = p[m] /\ First(q, m) = First(p, m)
    BY <1>3, <1>4, 1 \in 1 .. l, m \in 1 .. (l + 1) DEF Header, Count
  <2> QED
    BY <2>1 DEF Laid
<1>9. \A m \in 1 .. (l + 1) : m \in 1 .. l \/ m = l + 1
  OBVIOUS
<1> QED
  BY <1>5, <1>6, <1>7, <1>8, <1>9 DEF Laid

(* What is written of the file in hand goes where it should.               *)
LEMMA InHandGrows ==
  ASSUME NEW p, NEW l \in 0 .. 2, \A m \in 1 .. l : Len(p[m]) \in Nat,
         NEW b \in Seq(Nat), NEW s \in Seq(Nat), NEW n \in Nat, NEW f, Len(f) \in Nat,
         InHand(b, p, l, f, n), n + Len(s) <= Len(f), \A c \in 1 .. Len(s) : s[c] = f[n + c]
  PROVE  InHand(b \o s, p, l, f, n + Len(s))
<1>1. PICK first \in Nat : first = First(p, l + 1)
  <2>1. End(p, l) \in Nat
    BY Places
  <2> QED
    BY <2>1, l + 1 - 1 = l DEF First
<1>2. PICK x, e \in Nat : x = Len(b) /\ e = Len(s)
  OBVIOUS
<1>3. x = first + n /\ (\A c \in 1 .. n : b[first + c] = f[c]) /\ (l > 0 => b[first] = Len(f))
  BY <1>1, <1>2 DEF InHand
<1>4. Len(b \o s) = x + e /\ \A c \in 1 .. (x + e) : (b \o s)[c] = IF c <= x THEN b[c] ELSE s[c - x]
  BY <1>2, ConcatProperties
<1>5. ASSUME NEW c \in 1 .. (n + e) PROVE (b \o s)[first + c] = f[c]
  <2>0. first + c \in 1 .. (x + e)
    BY <1>3
  <2>1. PICK d \in 1 .. (x + e) : d = first + c
    BY <2>0
  <2>2. CASE c <= n
    <3>1. d <= x /\ c \in 1 .. n
      BY <1>3, <2>1, <2>2
    <3>2. (b \o s)[d] = b[d]
      BY <1>4, <3>1
    <3> QED
      BY <1>3, <2>1, <3>1, <3>2
  <2>3. CASE c > n
    <3>1. ~ (d <= x) /\ d - x = c - n
      BY <1>3, <2>1, <2>3
    <3>2. (b \o s)[d] = s[c - n]
      BY <1>4, <3>1
    <3>3. c - n \in 1 .. e /\ n + (c - n) = c
      BY <2>3
    <3>4. s[c - n] = f[c]
      BY <1>2, <3>3
    <3> QED
      BY <2>1, <3>2, <3>4
  <2>4. c <= n \/ c > n
    OBVIOUS
  <2> QED
    BY <2>2, <2>3, <2>4
<1>6. ASSUME l > 0 PROVE (b \o s)[first] = Len(f)
  <2>1. first = End(p, l) + 1 /\ End(p, l) \in Nat
    BY <1>1, <1>6, Places, l + 1 - 1 = l, l + 1 # 1 DEF First
  <2>2. first \in 1 .. (x + e) /\ first <= x
    BY <1>3, <2>1, SMTT(30)
  <2>3. (b \o s)[first] = b[first]
    BY <1>4, <2>2
  <2> QED
    BY <1>3, <1>6, <2>3
<1>7. n + e <= Len(f) /\ Len(b \o s) = first + (n + e)
  BY <1>2, <1>3, <1>4
<1> QED
  BY <1>1, <1>2, <1>5, <1>6, <1>7 DEF InHand
-----------------------------------------------------------------------------
(* The packer. *)

LEMMA ArrayFacts ==
  ASSUME PackerTypes
  PROVE  /\ Len(array) \in Nat /\ \A m \in 1 .. Len(array) : array[m] \in Paths
         /\ array # <<>> => Len(array) > 0 /\ Contents[array[1]] = {P!file(KernelBinary)}
<1>1. array \in CommandLines /\ array \in Seq(Paths)
  BY BootAssumption DEF PackerTypes, P!PackerConstants
<1> QED
  BY <1>1, BootAssumption

LEMMA SourceFacts ==
  ASSUME PackerTypes, file_i \in 1 .. Len(array)
  PROVE  /\ array[file_i] \in Paths /\ host[array[file_i]] \in P!HostEntry
         /\ host[array[file_i]].bytes \in Seq(Nat) /\ Len(host[array[file_i]].bytes) \in Nat
         /\ file_i = 1 => host[array[file_i]] = P!file(KernelBinary)
<1>1. array[file_i] \in Paths /\ host[array[file_i]] \in P!HostEntry
  BY ArrayFacts DEF PackerTypes
<1>2. host[array[file_i]].bytes \in Seq(Nat)
  BY <1>1 DEF P!HostEntry
<1>3. file_i = 1 => host[array[file_i]] = P!file(KernelBinary)
  <2>1. Len(array) # 0 => array # <<>>
    OBVIOUS
  <2>2. host[array[file_i]] \in Contents[array[file_i]]
    BY <1>1 DEF PackerTypes
  <2>3. PICK l \in Nat : l = Len(array) /\ l # 0
    BY ArrayFacts
  <2> QED
    BY <2>1, <2>2, <2>3, ArrayFacts
<1> QED
  BY <1>1, <1>2, <1>3, LenProperties

(* As long as writes have room, they append.                               *)
LEMMA Fwrite ==
  ASSUME PackerTypes, NEW s \in Seq(Nat), P!fwrite(s)
  PROVE  /\ target' \in P!HostEntry /\ target'.kind = "file" /\ steady' \in BOOLEAN
         /\ steady' => steady /\ target'.bytes = target.bytes \o s
<1>1. PICK all : all = target.bytes \o s
  OBVIOUS
<1>2. all \in Seq(Nat)
  BY <1>1, ConcatProperties DEF PackerTypes, P!HostEntry
<1>3. PICK l, r \in Nat : l = Len(all) /\ r = room
  BY <1>2, LenProperties DEF PackerTypes
<1>4. PICK m \in Nat : m = P!Min({room, Len(all)}) /\ m <= l /\ (l <= r => m = l)
  <2>1. P!Min({r, l}) = IF r <= l THEN r ELSE l
    BY MinOfTwo
  <2> QED
    BY <1>3, <2>1
<1>5. target' = P!file(SubSeq(all, 1, m)) /\ steady' = (steady /\ Len(all) <= room)
  BY <1>1, <1>4 DEF P!fwrite
<1>6. SubSeq(all, 1, m) \in Seq(Nat)
  <2>1. \A c \in 1 .. m : c \in 1 .. Len(all)
    BY <1>3, <1>4
  <2>2. \A c \in 1 .. m : all[c] \in Nat
    BY <2>1, <1>2, ElementOfSeq
  <2> QED
    BY <2>2, SubSeqProperties
<1>7. steady' => SubSeq(all, 1, m) = all
  <2>1. l <= r => m = Len(all)
    BY <1>3, <1>4
  <2> QED
    BY <1>2, <1>3, <1>5, <2>1, SubSeqFull
<1> QED
  BY <1>1, <1>5, <1>6, <1>7 DEF P!file, P!HostEntry

(* Before the target is written to.                                        *)
LEMMA ParseOptKeeps ==
  ASSUME PackerInv, P!parse_opt
  PROVE  PackerInv'
<1>1. /\ packing = "parse_opt" /\ packing' = IF array = <<>> THEN "usage" ELSE "checkFiles"
      /\ UNCHANGED <<host, room, changes, array, file_i, pos, target, packed, steady>>
  BY DEF P!parse_opt, P!environment
<1>2. PackerTypes'
  BY <1>1 DEF PackerInv, PackerTypes
<1>3. PackerAt'
  <2>1. array # <<>> => 1 \in 1 .. Len(array)
    <3>1. PICK l \in Nat : l = Len(array)
      BY ArrayFacts DEF PackerInv
    <3>2. array # <<>> => l > 0
      BY <3>1, ArrayFacts DEF PackerInv
    <3> QED
      BY <3>1, <3>2
  <2>2. file_i = 1 /\ packed = <<>> /\ packed' = packed /\ file_i' = file_i /\ array' = array
    BY <1>1 DEF PackerInv, PackerAt
  <2> QED
    BY <1>1, <2>1, <2>2 DEF PackerInv, PackerAt
<1>4. PackerLays'
  BY <1>1 DEF PackerInv, PackerLays, InPlace, Three
<1> QED
  BY <1>2, <1>3, <1>4 DEF PackerInv

LEMMA CheckFilesKeeps ==
  ASSUME PackerInv, P!checkFiles
  PROVE  PackerInv'
<1>1. /\ packing = "checkFiles"
      /\ UNCHANGED <<host, room, changes, array, pos, target, packed, steady>>
      /\ \/ packing' = "failed" /\ file_i' = file_i
         \/ file_i < Len(array) /\ file_i' = file_i + 1 /\ packing' = packing
         \/ file_i = Len(array) /\ file_i' = 1 /\ packing' = "target"
  BY DEF P!checkFiles, P!environment
<1>2. PICK l, x \in Nat : l = Len(array) /\ x = file_i /\ x \in 1 .. l
  BY <1>1, ArrayFacts DEF PackerInv, PackerTypes, PackerAt
<1>3. \/ packing' = "failed" /\ file_i' = x
      \/ x < l /\ file_i' = x + 1 /\ packing' = "checkFiles"
      \/ file_i' = 1 /\ packing' = "target"
  BY <1>1, <1>2
<1>4. 1 \in 1 .. l /\ (x < l => x + 1 \in 1 .. l)
  BY <1>2
<1>5. PackerTypes'
  BY <1>1, <1>2, <1>3 DEF PackerInv, PackerTypes
<1>6. PackerAt'
  <2>1. packed' = <<>> /\ Len(array)' = l
    BY <1>1, <1>2 DEF PackerInv, PackerAt
  <2> QED
    BY <1>3, <1>4, <2>1 DEF PackerAt
<1>7. PackerLays'
  BY <1>1, <1>3 DEF PackerInv, PackerLays, InPlace, Three
<1> QED
  BY <1>5, <1>6, <1>7 DEF PackerInv

LEMMA OpenTargetKeeps ==
  ASSUME PackerInv, P!openTarget
  PROVE  PackerInv'
<1>1. /\ packing = "target"
      /\ UNCHANGED <<host, room, changes, array, file_i, pos, packed, steady>>
      /\ \/ packing' = "failed" /\ target' = target
         \/ packing' = "source" /\ target' = P!file(<<>>)
  BY DEF P!openTarget, P!environment
<1>2. P!file(<<>>) \in P!HostEntry
  BY DEF P!file, P!HostEntry
<1>3. PackerTypes'
  BY <1>1, <1>2 DEF PackerInv, PackerTypes
<1>4. file_i = 1 /\ packed = <<>> /\ file_i \in 1 .. Len(array)
  BY <1>1 DEF PackerInv, PackerAt
<1>5. PackerAt'
  <2>1. packed' = <<>> /\ file_i' = 1 /\ file_i' \in 1 .. Len(array') /\ Len(packed') = file_i' - 1
    BY <1>1, <1>4
  <2> QED
    BY <1>1, <2>1 DEF PackerAt
<1>6. ASSUME target' = target /\ packing' = "failed" PROVE PackerLays'
  <2> SUFFICES ASSUME steady', Three' PROVE InPlace'
    BY DEF PackerLays
  <2>1. Laid(target.bytes, packed, Len(packed), Len(array))
    BY <1>1 DEF PackerInv, PackerLays, InPlace, Three
  <2> QED
    BY <1>1, <1>6, <2>1 DEF InPlace
<1>7. ASSUME target' = P!file(<<>>) /\ packing' = "source" PROVE PackerLays'
  <2>1. Len(packed) = 0 /\ packed' = packed /\ target'.bytes = <<>> /\ Len(target'.bytes) = 0
    BY <1>1, <1>4, <1>7 DEF P!file
  <2>2. Laid(target'.bytes, packed, 0, Len(array)) /\ End(packed, 0) = 0
    BY <2>1 DEF Laid, End
  <2>3. /\ Laid(target'.bytes, packed', Len(packed'), Len(array'))
        /\ Len(target'.bytes) = End(packed', Len(packed'))
    BY <1>1, <2>1, <2>2
  <2> QED
    BY <1>7, <2>3 DEF PackerLays, InPlace
<1> QED
  BY <1>1, <1>3, <1>5, <1>6, <1>7 DEF PackerInv

(* How many files are done, while the packer goes from file to file, and   *)
(* that they have sizes.                                                   *)
LEMMA DoneFacts ==
  ASSUME PackerInv, packing \in {"source", "write_size", "write_file"}
  PROVE  /\ Len(packed) \in Nat /\ file_i \in 1 .. Len(array)
         /\ file_i = Len(packed) + 1 /\ First(packed, Len(packed) + 1) = First(packed, file_i)
         /\ \A m \in 1 .. Len(packed) : Len(packed[m]) \in Nat
         /\ Three => Len(packed) \in 0 .. 2
         /\ target.bytes \in Seq(Nat) /\ Len(target.bytes) \in Nat
<1>1. /\ packed \in Packs /\ file_i \in Nat /\ file_i \in 1 .. Len(array)
      /\ Len(packed) = file_i - 1 /\ Len(array) \in Nat
  BY ArrayFacts DEF PackerInv, PackerTypes, PackerAt
<1>2. PICK l, x, n \in Int : l = Len(packed) /\ x = file_i /\ n = Len(array)
  BY <1>1, PackFacts
<1>3. l \in Nat /\ x \in 1 .. n /\ l = x - 1
  BY <1>1, <1>2, PackFacts
<1>4. x = l + 1 /\ (n \in 2 .. 3 => l \in 0 .. 2)
  BY <1>3
<1>5. target.bytes \in Seq(Nat)
  BY DEF PackerInv, PackerTypes, P!HostEntry
<1> QED
  BY <1>1, <1>2, <1>3, <1>4, <1>5, PackFacts, LenProperties DEF Three

LEMMA OpenSourceKeeps ==
  ASSUME PackerInv, P!openSource
  PROVE  PackerInv'
<1>1. /\ packing = "source" /\ pos' = 0
      /\ packing' = IF P!Source = P!Missing THEN "crashed"
                    ELSE IF file_i = 1 THEN "write_file" ELSE "write_size"
      /\ steady' = (steady /\ P!Source # P!Missing)
      /\ UNCHANGED <<host, room, changes, array, file_i, target, packed>>
  BY DEF P!openSource, P!environment
<1>2. PackerTypes'
  BY <1>1 DEF PackerInv, PackerTypes
<1>3. /\ Len(packed) = file_i - 1 /\ file_i \in 1 .. Len(array)
      /\ packed # <<>> => packed[1] = KernelBinary
  BY <1>1 DEF PackerInv, PackerAt
<1>4. PackerAt'
  <2>1. PICK x \in Nat : x = file_i /\ x > 0
    BY <1>3, DoneFacts, <1>1
  <2>2. x # 1 => x > 1
    BY <2>1
  <2>3. packing' = "crashed" => ~ steady'
    BY <1>1
  <2>4. packing' = "write_size" => x > 1
    BY <1>1, <2>1, <2>2
  <2>5. packing' \in {"crashed", "write_file", "write_size"}
    BY <1>1
  <2> QED
    BY <1>1, <1>3, <2>1, <2>3, <2>4, <2>5 DEF PackerAt
<1>5. PackerLays'
  <2> SUFFICES ASSUME steady', Three' PROVE InPlace'
    BY DEF PackerLays
  <2>1. steady /\ Three /\ packing' = IF file_i = 1 THEN "write_file" ELSE "write_size"
    BY <1>1 DEF Three
  <2>2. /\ Laid(target.bytes, packed, Len(packed), Len(array))
        /\ Len(target.bytes) = End(packed, Len(packed))
    BY <1>1, <2>1 DEF PackerInv, PackerLays, InPlace
  <2>3. ASSUME file_i = 1
        PROVE  InHand(target.bytes, packed, Len(packed), host[array[file_i]].bytes, 0)
    <3>1. Len(packed) = 0 /\ Len(host[array[file_i]].bytes) \in Nat
      BY <1>3, <2>3, SourceFacts DEF PackerInv
    <3>2. Len(target.bytes) = 0 /\ First(packed, 0 + 1) = 0
      BY <2>2, <3>1 DEF End, First
    <3>3. \A c \in 1 .. 0 : FALSE
      OBVIOUS
    <3>4. PICK z \in Nat : z = Len(host[array[file_i]].bytes)
      BY <3>1
    <3>5. 0 <= z /\ 0 + 0 = 0 /\ ~ (0 > 0)
      OBVIOUS
    <3> QED
      BY <3>1, <3>2, <3>3, <3>4, <3>5 DEF InHand
  <2>4. CASE file_i = 1
    <3>1. packing' = "write_file"
      BY <2>1, <2>4
    <3> QED
      BY <1>1, <2>2, <2>3, <2>4, <3>1 DEF InPlace
  <2>5. CASE file_i # 1
    <3>1. packing' = "write_size"
      BY <2>1, <2>5
    <3> QED
      BY <1>1, <2>2, <3>1 DEF InPlace
  <2> QED
    BY <2>4, <2>5
<1> QED
  BY <1>2, <1>4, <1>5 DEF PackerInv

(* The size of a module goes before its bytes.                             *)
LEMMA WriteSizeKeeps ==
  ASSUME PackerInv, P!write_size
  PROVE  PackerInv'
<1>1. /\ packing = "write_size" /\ packing' = "write_file"
      /\ P!fwrite(<<Len(host[array[file_i]].bytes)>>)
      /\ UNCHANGED <<host, room, changes, array, file_i, pos, packed>>
  BY DEF P!write_size, P!environment, P!Source
<1>2. /\ Len(packed) = file_i - 1 /\ file_i \in 1 .. Len(array) /\ pos = 0 /\ file_i > 1
      /\ packed # <<>> => packed[1] = KernelBinary
  BY <1>1 DEF PackerInv, PackerAt
<1>3. PICK v \in Nat : v = Len(host[array[file_i]].bytes)
  BY <1>2, SourceFacts DEF PackerInv
<1>4. PICK s \in Seq(Nat) : s = <<v>> /\ Len(s) = 1 /\ s[1] = v
  <2>1. <<v>> \in Seq(Nat) /\ Len(<<v>>) = 1 /\ <<v>>[1] = v
    OBVIOUS
  <2> QED
    BY <2>1
<1>5. /\ target' \in P!HostEntry /\ steady' \in BOOLEAN
      /\ steady' => steady /\ target'.bytes = target.bytes \o s
  BY <1>1, <1>3, <1>4, Fwrite DEF PackerInv
<1>6. PackerTypes'
  BY <1>1, <1>5 DEF PackerInv, PackerTypes
<1>7. PackerAt'
  BY <1>1, <1>2 DEF PackerAt
<1>8. PackerLays'
  <2> SUFFICES ASSUME steady', Three' PROVE InPlace'
    BY DEF PackerLays
  <2>1. steady /\ Three /\ target'.bytes = target.bytes \o s
    BY <1>1, <1>5 DEF Three
  <2>2. /\ Laid(target.bytes, packed, Len(packed), Len(array))
        /\ Len(target.bytes) = End(packed, Len(packed))
    BY <1>1, <2>1 DEF PackerInv, PackerLays, InPlace
  <2>3. PICK l \in 0 .. 2, x \in Nat : l = Len(packed) /\ x = Len(target.bytes) /\ l # 0
    <3>1. Len(packed) \in 0 .. 2 /\ Len(target.bytes) \in Nat /\ file_i = Len(packed) + 1
      BY <1>1, <2>1, DoneFacts
    <3>2. Len(packed) # 0
      BY <1>2, <3>1
    <3> QED
      BY <3>1, <3>2
  <2>4. \A m \in 1 .. l : Len(packed[m]) \in Nat
    BY <1>1, <2>3, DoneFacts
  <2>5. PICK b \in Seq(Nat) : b = target.bytes
    BY <1>1, DoneFacts
  <2>6. /\ b \o s \in Seq(Nat) /\ Len(b \o s) = x + 1 /\ (b \o s)[x + 1] = v
        /\ \A c \in 1 .. x : (b \o s)[c] = b[c]
    BY <1>4, <2>3, <2>5, ConcatProperties
  <2>7. Laid(b \o s, packed, l, Len(array))
    <3>1. x <= x + 1 /\ x + 1 \in Nat /\ l \in 0 .. 3
      OBVIOUS
    <3> QED
      BY <2>2, <2>3, <2>4, <2>5, <2>6, <3>1, LaidGrows
  <2>8. InHand(b \o s, packed, l, host[array[file_i]].bytes, 0)
    <3>1. First(packed, l + 1) = x + 1
      BY <2>2, <2>3, <2>5, l + 1 - 1 = l, l + 1 # 1 DEF First
    <3>2. x + 1 + 0 = x + 1 /\ 0 <= v /\ \A c \in 1 .. 0 : FALSE
      OBVIOUS
    <3> QED
      BY <1>3, <2>6, <3>1, <3>2 DEF InHand
  <2> QED
    BY <1>1, <1>2, <2>1, <2>3, <2>5, <2>7, <2>8 DEF InPlace
<1> QED
  BY <1>6, <1>7, <1>8 DEF PackerInv

(* Another program's write shows, unless nothing of the file has been read.*)
LEMMA ChangeKeeps ==
  ASSUME PackerInv, NEW p \in Paths, P!change(p)
  PROVE  PackerInv'
<1>1. PICK c \in Contents[p] : host' = [host EXCEPT ![p] = c]
  BY DEF P!change
<1>2. /\ UNCHANGED <<room, array, packing, file_i, pos, target, packed>>
      /\ steady' = (steady /\ ~ (P!Reading /\ p = array[file_i]))
  BY DEF P!change
<1>3. c \in P!HostEntry
  BY <1>1, BootAssumption DEF P!PackerConstants
<1>4. PackerTypes'
  BY <1>1, <1>2, <1>3 DEF PackerInv, PackerTypes
<1>5. PackerAt'
  <2>1. packing' = "crashed" => ~ steady'
    BY <1>2 DEF PackerInv, PackerAt
  <2> QED
    BY <1>2, <2>1 DEF PackerInv, PackerAt
<1>6. PackerLays'
  <2> SUFFICES ASSUME steady', Three' PROVE InPlace'
    BY DEF PackerLays
  <2>1. steady /\ Three /\ ~ (P!Reading /\ p = array[file_i])
    BY <1>2 DEF Three
  <2>2. InPlace
    BY <2>1 DEF PackerInv, PackerLays
  <2>3. ASSUME packing = "write_file"
        PROVE  InHand(target.bytes, packed, Len(packed), host'[array[file_i]].bytes, pos)
    <3>1. file_i \in 1 .. Len(array) /\ array[file_i] \in Paths
      BY <2>3, SourceFacts DEF PackerInv, PackerAt
    <3>2. CASE p # array[file_i]
      <4>1. host'[array[file_i]] = host[array[file_i]]
        BY <1>1, <3>1, <3>2 DEF PackerInv, PackerTypes
      <4> QED
        BY <2>2, <2>3, <4>1 DEF InPlace
    <3>3. CASE p = array[file_i]
      <4>1. ~ (file_i > 1) /\ ~ (pos > 0)
        BY <2>1, <2>3, <3>3 DEF P!Reading
      <4>2. PICK x, y \in Nat : x = file_i /\ y = pos
        BY DEF PackerInv, PackerTypes
      <4>3. pos = 0
        BY <4>1, <4>2
      <4>4. Len(packed) = 0
        <5>1. PICK l \in Nat : l = Len(packed) /\ x = l + 1
          BY <2>3, <4>2, DoneFacts
        <5> QED
          BY <4>1, <4>2, <5>1
      <4>5. host'[array[file_i]].bytes \in Seq(Nat)
        BY <1>1, <1>3, <3>1, <3>3 DEF P!HostEntry, PackerInv, PackerTypes
      <4>6. PICK z \in Nat : z = Len(host'[array[file_i]].bytes) /\ 0 <= z
        BY <4>5, LenProperties
      <4>7. Len(target.bytes) = First(packed, 0 + 1) + 0
        BY <2>2, <2>3, <4>3, <4>4 DEF InPlace, InHand
      <4>8. ~ (0 > 0) /\ \A d \in 1 .. 0 : FALSE
        OBVIOUS
      <4> QED
        BY <4>3, <4>4, <4>6, <4>7, <4>8 DEF InHand
    <3> QED
      BY <3>2, <3>3
  <2> QED
    BY <1>2, <2>2, <2>3 DEF InPlace
<1> QED
  BY <1>4, <1>5, <1>6 DEF PackerInv

LEMMA AppendConcat ==
  ASSUME NEW b \in Seq(Nat), NEW s \in Seq(Nat), NEW v \in Nat
  PROVE  LET z == Len(b \o s)
             d == b \o Append(s, v)
         IN /\ Len(d) = z + 1 /\ d[z + 1] = v
            /\ \A c \in 1 .. z : d[c] = (b \o s)[c]
<1> PICK z, d : z = Len(b \o s) /\ d = b \o Append(s, v)
  OBVIOUS
<1>1. PICK x, y \in Nat : x = Len(b) /\ y = Len(s)
  BY LenProperties
<1>2. PICK t \in Seq(Nat) : /\ t = Append(s, v) /\ Len(t) = y + 1 /\ t[y + 1] = v
                           /\ \A c \in 1 .. y : t[c] = s[c]
  <2>1. Append(s, v) \in Seq(Nat) /\ Len(Append(s, v)) = y + 1
    BY <1>1
  <2>2. Append(s, v)[y + 1] = v /\ \A c \in 1 .. y : Append(s, v)[c] = s[c]
    BY <1>1
  <2> QED
    BY <2>1, <2>2
<1>3. /\ z = x + y
      /\ \A c \in 1 .. (x + y) : (b \o s)[c] = IF c <= x THEN b[c] ELSE s[c - x]
  BY <1>1, ConcatProperties
<1>4. /\ Len(d) = x + (y + 1)
      /\ \A c \in 1 .. (x + (y + 1)) : d[c] = IF c <= x THEN b[c] ELSE t[c - x]
  <2>1. /\ Len(b \o t) = Len(b) + Len(t)
        /\ \A c \in 1 .. Len(b) + Len(t) : (b \o t)[c] = IF c <= Len(b) THEN b[c] ELSE t[c - Len(b)]
    BY ConcatProperties
  <2> QED
    BY <1>1, <1>2, <2>1
<1>5. d[z + 1] = v
  <2>1. z + 1 \in 1 .. (x + (y + 1)) /\ ~ (z + 1 <= x) /\ z + 1 - x = y + 1
    BY <1>3
  <2>2. d[z + 1] = t[z + 1 - x]
    <3>1. PICK r : r = z + 1
      OBVIOUS
    <3>2. r \in 1 .. (x + (y + 1)) /\ ~ (r <= x)
      BY <2>1, <3>1
    <3>3. d[r] = t[r - x]
      BY <1>4, <3>2
    <3> QED
      BY <3>1, <3>3
  <2> QED
    BY <1>2, <2>1, <2>2
<1>6. ASSUME NEW c \in 1 .. z PROVE d[c] = (b \o s)[c]
  <2>1. c \in 1 .. (x + y) /\ c \in 1 .. (x + (y + 1))
    BY <1>3
  <2>2. CASE c <= x
    BY <1>3, <1>4, <2>1, <2>2
  <2>3. CASE ~ (c <= x)
    <3>1. c - x \in 1 .. y
      BY <2>1, <2>3
    <3> QED
      BY <1>2, <1>3, <1>4, <2>1, <2>3, <3>1
  <2> QED
    BY <2>2, <2>3
<1> QED
  BY <1>3, <1>4, <1>5, <1>6

(* One read and write.  A file that comes to its end is done.              *)
LEMMA WriteFileKeeps ==
  ASSUME PackerInv, P!write_file
  PROVE  PackerInv'
<1>1. PICK f : f = host[array[file_i]].bytes
  OBVIOUS
<1>2. PICK m : m = P!Min({pos + BUFFER_SIZE, Len(f)})
  OBVIOUS
<1>3. PICK chunk : chunk = SubSeq(f, pos + 1, m)
  OBVIOUS
<1>4. PICK end \in BOOLEAN : end = (Len(chunk) < BUFFER_SIZE)
  <2>1. (Len(chunk) < BUFFER_SIZE) \in BOOLEAN
    OBVIOUS
  <2> QED
    BY <2>1
<1>5. /\ packing = "write_file"
      /\ P!fwrite(IF end /\ file_i = 1 THEN Append(chunk, Len(array) - 1) ELSE chunk)
      /\ pos' = pos + Len(chunk)
      /\ packed' = IF end THEN Append(packed, f) ELSE packed
      /\ file_i' = IF end THEN file_i + 1 ELSE file_i
      /\ packing' = IF ~ end THEN packing ELSE IF file_i = Len(array) THEN "done" ELSE "source"
      /\ UNCHANGED <<host, room, changes, array>>
  BY <1>1, <1>2, <1>3, <1>4 DEF P!write_file, P!Source, P!environment, P!extraBinaries
<1>6. /\ file_i \in 1 .. Len(array) /\ Len(array) \in Nat /\ Len(packed) = file_i - 1
      /\ packed # <<>> => packed[1] = KernelBinary
  BY <1>5, ArrayFacts DEF PackerInv, PackerAt
<1>7. f \in Seq(Nat) /\ (file_i = 1 => f = KernelBinary)
  BY <1>1, <1>6, SourceFacts DEF PackerInv, P!file
<1>8. PICK N, x, n, z, l \in Nat, most \in Nat \ {0} :
        /\ N = Len(array) /\ x = file_i /\ x \in 1 .. N /\ n = pos /\ z = Len(f) /\ most = BUFFER_SIZE
        /\ l = Len(packed) /\ x = l + 1
  <2>1. BUFFER_SIZE \in Nat \ {0}
    BY BootAssumption DEF P!PackerConstants
  <2>2. pos \in Nat /\ Len(f) \in Nat
    BY <1>7, LenProperties DEF PackerInv, PackerTypes
  <2>3. Len(packed) \in Nat /\ file_i = Len(packed) + 1 /\ file_i \in Nat
    BY <1>5, DoneFacts DEF PackerInv, PackerTypes
  <2>4. file_i \in 1 .. Len(array) /\ Len(array) \in Nat
    BY <1>6
  <2> QED
    BY <2>1, <2>2, <2>3, <2>4
<1>9. m \in Nat /\ m = IF n + most <= z THEN n + most ELSE z
  <2>1. P!Min({n + most, z}) = IF n + most <= z THEN n + most ELSE z
    BY MinOfTwo
  <2> QED
    BY <1>2, <1>8, <2>1
<1>10. chunk \in Seq(Nat)
  <2>1. \A c \in (n + 1) .. m : c \in 1 .. z
    BY <1>9
  <2>2. \A c \in (n + 1) .. m : f[c] \in Nat
    BY <2>1, <1>7, <1>8, ElementOfSeq
  <2> QED
    BY <2>2, <1>3, <1>8, <1>9, SubSeqProperties
<1>11. PICK e \in Nat : e = Len(chunk) /\ pos' = n + e /\ end = (e < most)
  <2>1. Len(chunk) \in Nat
    BY <1>10, LenProperties
  <2> QED
    BY <2>1, <1>4, <1>5, <1>8
<1>12. PICK s \in Seq(Nat) : /\ s = IF end /\ file_i = 1 THEN Append(chunk, N - 1) ELSE chunk
                            /\ P!fwrite(s)
  <2>1. N - 1 \in Nat
    BY <1>8
  <2>2. chunk \in Seq(Nat) /\ Append(chunk, N - 1) \in Seq(Nat)
    BY <1>10, <2>1
  <2> QED
    BY <1>5, <1>8, <2>2
<1>13. /\ target' \in P!HostEntry /\ steady' \in BOOLEAN
       /\ steady' => steady /\ target'.bytes = target.bytes \o s
  BY <1>12, Fwrite DEF PackerInv
<1>14. /\ Append(packed, f) \in Packs /\ Len(Append(packed, f)) = l + 1
       /\ Append(packed, f)[l + 1] = f
       /\ \A c \in 1 .. l : Append(packed, f)[c] = packed[c]
  BY <1>7, <1>8, PackFacts DEF PackerInv, PackerTypes
<1>15. PackerTypes'
  <2>1. packed' \in Packs
    BY <1>5, <1>14 DEF PackerInv, PackerTypes
  <2>2. file_i' \in Nat /\ pos' \in Nat
    <3>1. x + 1 \in Nat /\ x \in Nat /\ n + e \in Nat
      OBVIOUS
    <3> QED
      BY <1>5, <1>8, <1>11, <3>1
  <2> QED
    BY <1>5, <1>13, <2>1, <2>2 DEF PackerInv, PackerTypes
<1>16. PackerAt'
  <2>1. CASE ~ end
    BY <1>5, <1>6, <2>1 DEF PackerAt
  <2>2. CASE end
    <3>1. /\ file_i' = x + 1 /\ packed' = Append(packed, f) /\ Len(packed') = x
          /\ packing' = IF x = N THEN "done" ELSE "source"
      BY <1>5, <1>8, <1>14, <2>2
    <3>2. packed'[1] = KernelBinary
      <4>1. CASE l = 0
        BY <1>7, <1>8, <1>14, <3>1, <4>1
      <4>2. CASE l # 0
        <5>1. 1 \in 1 .. l /\ packed # <<>>
          BY <1>8, <4>2
        <5> QED
          BY <1>6, <1>14, <3>1, <5>1
      <4> QED
        BY <4>1, <4>2
    <3>3. x = (x + 1) - 1 /\ (x # N => x + 1 \in 1 .. N)
      BY <1>8
    <3>4. Len(array') = N
      BY <1>5, <1>8
    <3> QED
      BY <3>1, <3>2, <3>3, <3>4 DEF PackerAt
  <2> QED
    BY <2>1, <2>2
<1>17. PackerLays'
  <2> SUFFICES ASSUME steady', Three' PROVE InPlace'
    BY DEF PackerLays
  <2>1. steady /\ Three /\ target'.bytes = target.bytes \o s
    BY <1>5, <1>13 DEF Three
  <2>2. PICK b \in Seq(Nat), y \in Nat : b = target.bytes /\ y = Len(b)
    BY <1>5, DoneFacts
  <2>3. Laid(b, packed, l, N) /\ InHand(b, packed, l, f, n)
    BY <1>1, <1>5, <1>8, <2>1, <2>2 DEF PackerInv, PackerLays, InPlace
  <2>4. l \in 0 .. 2 /\ \A c \in 1 .. l : Len(packed[c]) \in Nat
    BY <1>5, <1>8, <2>1, DoneFacts
  <2>5. n <= z
    BY <1>8, <2>3 DEF InHand
  <2>6. e = m - n /\ m \in n .. z /\ (end => m = z) /\ \A c \in 1 .. e : chunk[c] = f[n + c]
    <3>1. n \in 0 .. z
      BY <2>5
    <3>2. n \in 0 .. Len(f) /\ m = IF n + most <= Len(f) THEN n + most ELSE Len(f)
      BY <1>8, <1>9, <3>1
    <3>3. chunk = SubSeq(f, n + 1, m)
      BY <1>3, <1>8
    <3>4. /\ Len(chunk) = m - n /\ m \in n .. Len(f) /\ (Len(chunk) < most => m = Len(f))
          /\ \A c \in 1 .. Len(chunk) : chunk[c] = f[n + c]
      BY <1>7, <3>2, <3>3, Chunk
    <3> QED
      BY <1>8, <1>11, <3>4
  <2>7. InHand(b \o chunk, packed, l, f, n + e)
    <3>1. n + e <= z
      BY <2>6
    <3>2. /\ n + Len(chunk) <= Len(f) /\ Len(f) \in Nat
          /\ \A c \in 1 .. Len(chunk) : chunk[c] = f[n + c]
      BY <1>8, <1>11, <2>6, <3>1
    <3>3. InHand(b \o chunk, packed, l, f, n + Len(chunk))
      BY <1>10, <2>3, <2>4, <3>2, InHandGrows
    <3> QED
      BY <1>11, <3>3
  <2>8. PICK w \in Seq(Nat) : /\ w = b \o chunk /\ Len(w) = y + e
                             /\ \A c \in 1 .. y : w[c] = b[c]
    <3>1. b \o chunk \in Seq(Nat) /\ Len(b \o chunk) = y + e
      BY <1>10, <1>11, <2>2, ConcatProperties
    <3>2. ASSUME NEW c \in 1 .. y PROVE (b \o chunk)[c] = b[c]
      <4>1. c \in 1 .. (y + e) /\ c <= y
        OBVIOUS
      <4> QED
        BY <1>10, <1>11, <2>2, <4>1, ConcatProperties
    <3> QED
      BY <3>1, <3>2
  <2>9. Laid(w, packed, l, N)
    <3>1. y + e \in Nat /\ y <= y + e /\ l \in 0 .. 3
      BY <2>4
    <3> QED
      BY <2>2, <2>3, <2>4, <2>8, <3>1, LaidGrows
  <2>10. CASE ~ end
    BY <1>1, <1>5, <1>8, <1>11, <1>12, <2>1, <2>2, <2>7, <2>8, <2>9, <2>10 DEF InPlace
  <2>11. CASE end
    <3>1. /\ packed' = Append(packed, f) /\ packing' \in {"done", "source"}
          /\ Len(packed') = l + 1 /\ n + e = z
      <4>1. packed' = Append(packed, f) /\ packing' \in {"done", "source"}
        BY <1>5, <2>11
      <4>2. Len(packed') = l + 1
        BY <1>14, <4>1
      <4>3. e = z - n
        BY <2>6, <2>11
      <4>4. n + (z - n) = z
        OBVIOUS
      <4> QED
        BY <4>1, <4>2, <4>3, <4>4
    <3>2. InHand(w, packed, l, f, z)
      BY <2>7, <2>8, <3>1
    <3>3. CASE l = 0
      <4>1. s = Append(chunk, N - 1)
        <5>1. file_i = 1
          BY <1>8, <3>3
        <5> QED
          BY <1>12, <2>11, <5>1
      <4>2. PICK v \in Nat : v = N - 1
        <5>1. N - 1 \in Nat
          BY <1>8
        <5> QED
          BY <5>1
      <4>3. Len(w) = z /\ \A c \in 1 .. z : w[c] = f[c]
        <5>1. First(packed, 0 + 1) = 0
          BY DEF First
        <5>2. Len(w) = 0 + z /\ \A c \in 1 .. z : w[0 + c] = f[c]
          BY <3>2, <3>3, <5>1 DEF InHand
        <5> QED
          BY <5>2
      <4>4. /\ Len(b \o Append(chunk, v)) = Len(b \o chunk) + 1
            /\ (b \o Append(chunk, v))[Len(b \o chunk) + 1] = v
            /\ \A c \in 1 .. Len(b \o chunk) : (b \o Append(chunk, v))[c] = (b \o chunk)[c]
        BY <1>10, AppendConcat
      <4>5. PICK d : /\ d = b \o Append(chunk, v) /\ Len(d) = z + 1 /\ d[z + 1] = v
                     /\ \A c \in 1 .. z : d[c] = f[c]
        <5>1. PICK d : d = b \o Append(chunk, v)
          OBVIOUS
        <5>2. b \o chunk = w /\ Len(b \o chunk) = z
          BY <2>8, <4>3
        <5>3. Len(d) = z + 1 /\ d[z + 1] = v /\ \A c \in 1 .. z : d[c] = w[c]
          BY <4>4, <5>1, <5>2
        <5> QED
          BY <4>3, <5>1, <5>3
      <4>6. /\ packed'[1] = f /\ Len(packed'[1]) = z
            /\ End(packed', 1) = z + 1 /\ First(packed', 1) = 0
            /\ Header(packed', 1) = z + 1 /\ Count(packed', 1, N) = v
        <5>1. packed'[1] = f /\ Len(packed'[1]) = z
          BY <1>8, <1>14, <3>1, <3>3
        <5> QED
          BY <4>2, <5>1 DEF End, First, Header, Count
      <4>7. Laid(d, packed', 1, N) /\ Len(d) = End(packed', 1)
        <5>1. \A c \in 1 .. z : d[0 + c] = f[c]
          BY <4>5
        <5>2. \A c \in 1 .. 1 : c = 1
          OBVIOUS
        <5>3. End(packed', 1) <= Len(d) /\ Len(d) = End(packed', 1)
          BY <4>5, <4>6
        <5>4. /\ d[Header(packed', 1)] = Count(packed', 1, N)
              /\ \A c \in 1 .. Len(packed'[1]) : d[First(packed', 1) + c] = packed'[1][c]
          BY <4>5, <4>6, <5>1
        <5> QED
          BY <5>2, <5>3, <5>4 DEF Laid
      <4>8. target'.bytes = d /\ Len(packed') = 1 /\ Len(array') = N
        BY <1>5, <1>8, <2>1, <2>2, <3>1, <3>3, <4>1, <4>2, <4>5
      <4> QED
        BY <3>1, <4>7, <4>8 DEF InPlace
    <3>4. CASE l # 0
      <4>1. s = chunk /\ l \in 1 .. 2
        <5>1. l \in 1 .. 2 /\ l + 1 # 1
          BY <2>4, <3>4
        <5>2. file_i # 1
          BY <1>8, <5>1
        <5> QED
          BY <1>12, <5>1, <5>2
      <4>2. packed'[l + 1] = f /\ \A c \in 1 .. l : packed'[c] = packed[c]
        BY <1>14, <3>1
      <4>3. Laid(w, packed', l + 1, N) /\ Len(w) = End(packed', l + 1)
        <5>1. z = Len(f) /\ l \in 1 .. 2
          BY <1>8, <4>1
        <5> QED
          BY <2>4, <2>9, <3>2, <4>2, <5>1, LaidNext
      <4> QED
        BY <1>5, <1>8, <2>1, <2>2, <2>8, <3>1, <4>1, <4>3 DEF InPlace
    <3> QED
      BY <3>3, <3>4
  <2> QED
    BY <2>10, <2>11
<1> QED
  BY <1>15, <1>16, <1>17 DEF PackerInv

LEMMA PackerStarts ==
  ASSUME P!Init
  PROVE  PackerInv
<1>1. /\ array \in CommandLines /\ packing = "parse_opt" /\ file_i = 1 /\ pos = 0
      /\ target = P!Missing /\ packed = <<>> /\ steady = TRUE
  BY DEF P!Init
<1>2. host \in [Paths -> P!HostEntry] /\ \A p \in Paths : host[p] \in Contents[p]
  <2>1. /\ host \in [Paths -> UNION {Contents[p] : p \in Paths}]
        /\ \A p \in Paths : host[p] \in Contents[p]
    BY DEF P!Init
  <2>2. \A p \in Paths : host[p] \in P!HostEntry
    BY <2>1, BootAssumption DEF P!PackerConstants
  <2> QED
    BY <2>1, <2>2
<1>3. room \in Nat
  BY BootAssumption DEF P!Init, P!PackerConstants
<1>4. packed \in Packs /\ Len(packed) = 0
  BY <1>1 DEF Packs
<1>5. PackerTypes
  BY <1>1, <1>2, <1>3, <1>4 DEF PackerTypes, P!Missing, P!HostEntry
<1>6. PackerAt
  BY <1>1 DEF PackerAt
<1>7. InPlace
  <2>1. target.bytes = <<>> /\ Len(target.bytes) = 0
    BY <1>1 DEF P!Missing
  <2>2. \A m \in 1 .. 0 : FALSE
    OBVIOUS
  <2> QED
    BY <1>1, <1>4, <2>1, <2>2 DEF InPlace, Laid, End
<1> QED
  BY <1>5, <1>6, <1>7 DEF PackerInv, PackerLays

LEMMA PackerGoesOn ==
  ASSUME PackerInv, Next \/ UNCHANGED vars
  PROVE  PackerInv'
<1>1. CASE pack
  BY <1>1, ParseOptKeeps, CheckFilesKeeps, OpenTargetKeeps, OpenSourceKeeps, WriteSizeKeeps,
     WriteFileKeeps DEF pack, P!Step
<1>2. ASSUME NEW p \in Paths, write(p) PROVE PackerInv'
  BY <1>2, ChangeKeeps DEF write
<1>3. CASE UNCHANGED packer
  <2> USE <1>3 DEF packer
  <2>1. PackerTypes' /\ PackerAt'
    BY DEF PackerInv, PackerTypes, PackerAt
  <2>2. PackerLays'
    BY DEF PackerInv, PackerLays, InPlace, Three
  <2> QED
    BY <2>1, <2>2 DEF PackerInv
<1> QED
  BY <1>1, <1>2, <1>3 DEF Next, Code, image, start, vars
-----------------------------------------------------------------------------
(* The image. *)

LEMMA MaxOfTwo ==
  ASSUME NEW a \in Int, NEW b \in Int
  PROVE  D!Max({a, b}) = IF a >= b THEN a ELSE b
BY DEF D!Max

(* What is written goes where it should, and moves nothing.                *)
Written(img, offset, s, d) ==
  /\ d \in Seq(Nat) /\ Len(d) >= Len(img) /\ Len(d) >= offset + Len(s)
  /\ \A c \in 1 .. Len(s) : d[offset + c] = s[c]
  /\ \A c \in 1 .. Len(img) : c <= offset => d[c] = img[c]

LEMMA WriteAt ==
  ASSUME NEW img \in Seq(Nat), NEW offset \in Nat, NEW s \in Seq(Nat)
  PROVE  Written(img, offset, s, D!writeAt(img, offset, s))
<1>0. PICK d : d = D!writeAt(img, offset, s)
  OBVIOUS
<1>1. PICK l, e \in Nat : l = Len(img) /\ e = Len(s)
  BY LenProperties
<1>2. PICK n \in Nat : n = IF l >= offset + e THEN l ELSE offset + e
  OBVIOUS
<1>3. d = [c \in 1 .. n |-> IF c \in (offset + 1) .. (offset + e) THEN s[c - offset]
                            ELSE IF c <= l THEN img[c] ELSE 0]
  <2>1. D!Max({l, offset + e}) = n
    BY <1>2, MaxOfTwo
  <2> QED
    BY <1>0, <1>1, <2>1 DEF D!writeAt
<1>4. ASSUME NEW c \in 1 .. n
      PROVE  /\ d[c] \in Nat
             /\ c \in (offset + 1) .. (offset + e) => d[c] = s[c - offset]
             /\ c <= offset /\ c <= l => d[c] = img[c]
  <2>1. CASE c \in (offset + 1) .. (offset + e)
    <3>1. c - offset \in 1 .. e
      BY <2>1
    <3>2. s[c - offset] \in Nat
      BY <1>1, <3>1, ElementOfSeq
    <3> QED
      BY <1>3, <2>1, <3>2
  <2>2. CASE ~ (c \in (offset + 1) .. (offset + e)) /\ c <= l
    <3>1. img[c] \in Nat
      BY <1>1, <2>2, ElementOfSeq
    <3> QED
      BY <1>3, <2>2, <3>1
  <2>3. CASE ~ (c \in (offset + 1) .. (offset + e)) /\ ~ (c <= l)
    BY <1>3, <2>3
  <2> QED
    BY <2>1, <2>2, <2>3
<1>5. d \in Seq(Nat) /\ Len(d) = n
  <2>1. d \in [1 .. n -> Nat]
    BY <1>3, <1>4
  <2> QED
    BY <2>1
<1>6. \A c \in 1 .. e : d[offset + c] = s[c]
  <2> SUFFICES ASSUME NEW c \in 1 .. e PROVE d[offset + c] = s[c]
    OBVIOUS
  <2>1. /\ offset + c \in 1 .. n /\ offset + c \in (offset + 1) .. (offset + e)
        /\ offset + c - offset = c
    BY <1>2
  <2>2. d[offset + c] = s[offset + c - offset]
    BY <1>4, <2>1
  <2> QED
    BY <2>1, <2>2
<1>7. ASSUME NEW c \in 1 .. l, c <= offset PROVE d[c] = img[c]
  <2>1. c \in 1 .. n /\ c <= l
    BY <1>2
  <2> QED
    BY <1>4, <1>7, <2>1
<1>8. n >= l /\ n >= offset + e
  BY <1>2
<1>9. Written(img, offset, s, d)
  BY <1>1, <1>5, <1>6, <1>7, <1>8 DEF Written
<1> QED
  BY <1>0, <1>9
-----------------------------------------------------------------------------
LEMMA BootFacts ==
  /\ boot.bytes \in Seq(Nat) /\ Len(boot.bytes) \in Nat /\ TAG \in Nat
  /\ bufferSize \in Nat \ {0} /\ WORD \in Nat \ {0} /\ KILO \in Nat \ {0}
  /\ \A m \in Mbrs : m.bytes \in Seq(Nat)
  /\ payload \in Nat /\ payload = 3 + Len(boot.bytes)
<1>1. /\ boot.bytes \in Seq(Nat) /\ TAG \in Nat /\ bufferSize \in Nat \ {0}
      /\ WORD \in Nat \ {0} /\ KILO \in Nat \ {0} /\ \A m \in Mbrs : m.bytes \in Seq(Nat)
  BY BootAssumption DEF D!InitializeConstants
<1>2. Len(boot.bytes) \in Nat
  BY <1>1, LenProperties
<1> QED
  BY <1>1, <1>2 DEF payload, D!System

LEMMA ImageStarts ==
  ASSUME D!Init
  PROVE  ImageInv
BY DEF D!Init, ImageInv, ImageAt, ImageHolds, OldImageKept

(* The packer has come to its end when the image is begun.                 *)
LEMMA ImageWaits ==
  ASSUME ImageInv, UNCHANGED tool,
         UNCHANGED <<packing, target>> \/ imaging = "start"
  PROVE  ImageInv'
<1>1. UNCHANGED <<size, mbr, imaging, k, diskSize, diskSizeFactor, ret, disk, position, broken>>
  BY DEF tool
<1>2. ImageAt' /\ OldImageKept'
  BY <1>1 DEF ImageInv, ImageAt, OldImageKept
<1>3. ImageHolds'
  BY <1>1 DEF ImageInv, ImageHolds, Copied
<1> QED
  BY <1>2, <1>3 DEF ImageInv

(* What a step of the tool starts from.                                    *)
LEMMA Making ==
  ASSUME PackerTypes, ImageInv, Made, UNCHANGED packer
  PROVE  /\ packing' = packing /\ packing \in {"done", "crashed"} /\ target' = target
         /\ target.bytes \in Seq(Nat) /\ Len(target.bytes) \in Nat
         /\ mbr.bytes \in Seq(Nat)
<1>1. target.bytes \in Seq(Nat)
  BY DEF PackerTypes, P!HostEntry
<1>2. mbr.bytes \in Seq(Nat)
  BY BootFacts DEF ImageInv, ImageAt
<1> QED
  BY <1>1, <1>2, LenProperties DEF Made, packer

LEMMA Remainder ==
  ASSUME NEW n \in Int, NEW w \in Nat \ {0}
  PROVE  n % w \in Nat
OBVIOUS

(* The size is read; nothing is opened.                                    *)
LEMMA ReadSizeKeeps ==
  ASSUME PackerTypes, ImageInv, Made, UNCHANGED packer, D!readSize
  PROVE  ImageInv'
<1>1. /\ imaging = "size" /\ UNCHANGED <<size, mbr, disk, position, broken>>
      /\ \/ imaging' = imaging /\ ret' = ret /\ k' = k + 1
         \/ imaging' = "end" /\ ret' = 1 /\ k' = 0
  BY DEF D!readSize, D!arguments, D!Fail, D!Goto
<1>2. k' \in Nat
  BY <1>1 DEF ImageInv, ImageAt
<1>3. diskSize' \in Nat
  <2>1. CASE UNCHANGED diskSize
    BY <2>1 DEF ImageInv, ImageAt
  <2>2. ASSUME NEW ch, D!isdigit(ch), diskSize' = (diskSize * 10 + D!Number(ch)) % WORD
        PROVE  diskSize' \in Nat
    <3>1. PICK n \in 1 .. 10 : D!Digits[n] = ch
      BY <2>2 DEF D!isdigit, D!Contains, D!Digits
    <3>2. n - 1 \in 0 .. 9 /\ D!Digits[(n - 1) + 1] = ch
      BY <3>1
    <3>3. D!Number(ch) \in 0 .. 9
      BY <3>2 DEF D!Number
    <3>4. PICK d, e \in Nat : d = diskSize /\ e = D!Number(ch)
      BY <3>3 DEF ImageInv, ImageAt
    <3>5. d * 10 + e \in Int
      OBVIOUS
    <3> QED
      BY <2>2, <3>4, <3>5, BootFacts, Remainder
  <2> QED
    BY <2>1, <2>2 DEF D!readSize
<1>4. ImageAt'
  BY <1>1, <1>2, <1>3, Making DEF ImageInv, ImageAt
<1>5. ImageHolds' /\ OldImageKept'
  BY <1>1 DEF ImageInv, ImageAt, ImageHolds, OldImageKept
<1> QED
  BY <1>4, <1>5 DEF ImageInv

LEMMA ScaleKeeps ==
  ASSUME PackerTypes, ImageInv, Made, UNCHANGED packer, D!scale
  PROVE  ImageInv'
<1>1. /\ imaging = "size" /\ UNCHANGED <<size, mbr, imaging, k, disk, position, broken>>
      /\ \/ diskSize' = (diskSize * KILO) % WORD
         \/ diskSize' = diskSize
  BY DEF D!scale, D!arguments
<1>2. diskSize' \in Nat
  <2>1. PICK d, e \in Nat : d = diskSize /\ e = KILO
    BY BootFacts DEF ImageInv, ImageAt
  <2>2. d * e \in Int
    OBVIOUS
  <2> QED
    BY <1>1, <2>1, <2>2, BootFacts, Remainder
<1>3. ImageAt'
  BY <1>1, <1>2, Making DEF ImageInv, ImageAt
<1>4. ImageHolds' /\ OldImageKept'
  BY <1>1 DEF ImageInv, ImageAt, ImageHolds, OldImageKept
<1> QED
  BY <1>3, <1>4 DEF ImageInv

LEMMA ChecksKeep ==
  ASSUME PackerTypes, ImageInv, Made, UNCHANGED packer,
         D!initialize \/ D!checkSize \/ D!openFails \/ D!writeFails
  PROVE  ImageInv'
<1>1. /\ UNCHANGED <<size, mbr, diskSize, disk, position>> /\ k' = 0
      /\ \/ imaging = "start" /\ imaging' = "size" /\ ret' = ret /\ broken' = broken
         \/ imaging = "size" /\ imaging' = "open" /\ ret = 0 /\ ret' = ret /\ broken' = broken
         \/ imaging \in {"size", "open"} /\ imaging' = "end" /\ ret' = 1 /\ broken' = broken
         \/ imaging \in {"fill", "mbr"} /\ imaging' = "end" /\ ret' = 1 /\ broken' = TRUE
  BY DEF D!initialize, D!checkSize, D!openFails, D!writeFails, D!arguments, D!Fail, D!Goto
<1>2. ImageAt'
  BY <1>1, Making DEF ImageInv, ImageAt
<1>3. ImageHolds' /\ OldImageKept'
  BY <1>1 DEF ImageInv, ImageAt, ImageHolds, OldImageKept
<1> QED
  BY <1>2, <1>3 DEF ImageInv

LEMMA OpenDiskKeeps ==
  ASSUME PackerTypes, ImageInv, Made, UNCHANGED packer, D!openDisk
  PROVE  ImageInv'
<1>1. /\ UNCHANGED <<size, mbr, diskSize, broken, ret>> /\ k' = 0
      /\ disk' = <<>> /\ position' = 0 /\ mbr.kind = "file"
      /\ imaging = "open" /\ imaging' = "fill"
  BY DEF D!openDisk, D!OpensDisk, D!arguments, D!Goto
<1>2. ImageAt'
  <2>1. disk' \in Seq(Nat)
    BY <1>1
  <2> QED
    BY <1>1, <2>1, Making DEF ImageInv, ImageAt
<1>3. ImageHolds' /\ OldImageKept'
  BY <1>1 DEF ImageInv, ImageAt, ImageHolds, OldImageKept
<1> QED
  BY <1>2, <1>3 DEF ImageInv

LEMMA FillKeeps ==
  ASSUME PackerTypes, ImageInv, Made, UNCHANGED packer, D!fill
  PROVE  ImageInv'
<1>1. /\ UNCHANGED <<size, mbr, imaging, k, diskSize, ret, position, broken>>
      /\ imaging = "fill" /\ disk' = disk \o D!Zeros(D!Min({bufferSize, diskSize - Len(disk)}))
  BY DEF D!fill, D!arguments
<1>2. disk \in Seq(Nat)
  BY <1>1 DEF ImageInv, ImageAt
<1>3. D!Zeros(D!Min({bufferSize, diskSize - Len(disk)})) \in Seq(Nat)
  <2>1. PICK b, n \in Int : b = bufferSize /\ n = diskSize - Len(disk)
    <3>1. PICK x, y \in Nat : x = diskSize /\ y = Len(disk)
      BY <1>2, LenProperties DEF ImageInv, ImageAt
    <3>2. x - y \in Int /\ bufferSize \in Int
      BY BootFacts
    <3> QED
      BY <3>1, <3>2
  <2>2. b \in Nat /\ 0 < n
    <3>1. PICK x, y \in Nat : x = diskSize /\ y = Len(disk)
      BY <1>2, LenProperties DEF ImageInv, ImageAt
    <3>2. x > y
      BY <3>1 DEF D!fill
    <3> QED
      BY <2>1, <3>1, <3>2, BootFacts
  <2>3. PICK m \in Nat : m = D!Min({b, n})
    BY <2>2, MinOfTwo
  <2>4. [c \in 1 .. m |-> 0] \in [1 .. m -> Nat]
    OBVIOUS
  <2>5. [c \in 1 .. m |-> 0] \in Seq(Nat)
    BY <2>4
  <2> QED
    BY <2>1, <2>3, <2>5 DEF D!Zeros
<1>4. disk' \in Seq(Nat)
  BY <1>1, <1>2, <1>3, ConcatProperties
<1>5. ImageAt'
  BY <1>1, <1>4, Making DEF ImageInv, ImageAt
<1>6. ImageHolds' /\ OldImageKept'
  BY <1>1 DEF ImageInv, ImageAt, ImageHolds, OldImageKept
<1> QED
  BY <1>5, <1>6 DEF ImageInv

LEMMA FormatKeeps ==
  ASSUME PackerTypes, ImageInv, Made, UNCHANGED packer, D!format
  PROVE  ImageInv'
<1>1. /\ UNCHANGED <<size, mbr, diskSize, ret, position, broken>> /\ k' = 0
      /\ imaging = "fill" /\ imaging' = "mbr" /\ disk' = D!writeAt(disk, 1, <<TAG, 0>>)
  BY DEF D!format, D!arguments, D!Goto
<1>2. PICK s \in Seq(Nat) : s = <<TAG, 0>> /\ Len(s) = 2
  <2>1. PICK t \in Nat : t = TAG
    BY BootFacts
  <2>2. <<t, 0>> \in Seq(Nat) /\ Len(<<t, 0>>) = 2
    OBVIOUS
  <2> QED
    BY <2>1, <2>2
<1>3. disk \in Seq(Nat)
  BY <1>1 DEF ImageInv, ImageAt
<1>4. disk' \in Seq(Nat) /\ Len(disk') >= 1 + Len(s)
  <2>1. Written(disk, 1, s, D!writeAt(disk, 1, s))
    BY <1>3, WriteAt
  <2> QED
    BY <1>1, <1>2, <2>1 DEF Written
<1>5. Len(disk') >= D!System
  <2>1. PICK l \in Nat : l = Len(disk')
    BY <1>4, LenProperties
  <2> QED
    BY <1>2, <1>4, <2>1 DEF D!System
<1>6. ImageAt'
  BY <1>1, <1>4, <1>5, Making DEF ImageInv, ImageAt, D!System
<1>7. ImageHolds' /\ OldImageKept'
  BY <1>1 DEF ImageInv, ImageAt, ImageHolds, OldImageKept
<1> QED
  BY <1>6, <1>7 DEF ImageInv

LEMMA WriteMBRKeeps ==
  ASSUME PackerTypes, ImageInv, Made, UNCHANGED packer, D!writeMBR
  PROVE  ImageInv'
<1>1. /\ UNCHANGED <<size, mbr, diskSize, broken>> /\ k' = 0 /\ imaging = "mbr"
      /\ \/ mbr.bytes = <<>> /\ imaging' = "end" /\ ret' = 1 /\ UNCHANGED <<disk, position>>
         \/ /\ mbr.bytes # <<>> /\ disk' = D!writeAt(disk, 0, <<mbr.bytes[1]>>)
            /\ position' = D!System /\ imaging' = "boot" /\ ret' = ret
  BY DEF D!writeMBR, D!arguments, D!Fail, D!Goto
<1>2. disk \in Seq(Nat) /\ Len(disk) >= 3 /\ mbr.kind = "file" /\ ret = 0
  BY <1>1 DEF ImageInv, ImageAt, D!System
<1>3. CASE mbr.bytes = <<>>
  <2>1. ImageAt'
    BY <1>1, <1>3, Making DEF ImageInv, ImageAt
  <2>2. ImageHolds' /\ OldImageKept'
    BY <1>1, <1>2, <1>3 DEF ImageInv, ImageAt, ImageHolds, OldImageKept
  <2> QED
    BY <2>1, <2>2 DEF ImageInv
<1>4. CASE mbr.bytes # <<>>
  <2>1. PICK s \in Seq(Nat) : s = <<mbr.bytes[1]>>
    <3>1. PICK b \in Seq(Nat) : b = mbr.bytes
      BY Making
    <3>2. PICK v \in Nat : v = b[1]
      BY <1>4, <3>1
    <3>3. <<v>> \in Seq(Nat)
      OBVIOUS
    <3> QED
      BY <3>1, <3>2, <3>3
  <2>2. disk' \in Seq(Nat) /\ Len(disk') >= Len(disk)
    <3>1. Written(disk, 0, s, D!writeAt(disk, 0, s))
      BY <1>2, WriteAt
    <3> QED
      BY <1>1, <1>4, <2>1, <3>1 DEF Written
  <2>3. PICK l, n \in Nat : l = Len(disk') /\ n = Len(disk)
    BY <1>2, <2>2, LenProperties
  <2>4. l >= 3 /\ 3 = 3 + 0
    BY <1>2, <2>2, <2>3
  <2>5. position' = 3 + k' /\ position' <= Len(disk')
    BY <1>1, <1>4, <2>3, <2>4 DEF D!System
  <2>6. k' <= Len(boot.bytes)
    BY <1>1, BootFacts
  <2>7. ImageAt'
    <3>1. position' \in Nat /\ k' \in Nat
      BY <1>1, <1>4 DEF D!System
    <3>2. imaging' = "boot" /\ ret' = 0 /\ mbr'.kind = "file" /\ UNCHANGED <<mbr, diskSize, broken>>
      BY <1>1, <1>2, <1>4
    <3> QED
      BY <1>1, <2>2, <3>1, <3>2, Making DEF ImageInv, ImageAt
  <2>8. ImageHolds' /\ OldImageKept'
    BY <1>1, <1>4, <2>5, <2>6 DEF ImageHolds, OldImageKept, D!System
  <2> QED
    BY <2>7, <2>8 DEF ImageInv
<1> QED
  BY <1>3, <1>4

(* One read and write of the boot loader or the kernel.                    *)
LEMMA CopyKeeps ==
  ASSUME PackerTypes, ImageInv, Made, UNCHANGED packer, D!copy
  PROVE  ImageInv'
<1>1. PICK f \in Seq(Nat) : f = D!source.bytes
  BY BootFacts, Making DEF D!source
<1>2. PICK n, z, p \in Nat, most \in Nat \ {0} :
        n = k /\ z = Len(f) /\ p = position /\ most = bufferSize /\ n < z
  <2>1. k \in Nat /\ position \in Nat /\ Len(f) \in Nat /\ bufferSize \in Nat \ {0}
    BY <1>1, BootFacts, LenProperties DEF ImageInv, ImageAt
  <2> QED
    BY <1>1, <2>1 DEF D!copy
<1>3. PICK m \in Nat : m = D!Min({n + most, z}) /\ m = IF n + most <= z THEN n + most ELSE z
  <2>1. PICK q \in Int : q = n + most
    OBVIOUS
  <2>2. D!Min({q, z}) = IF q <= z THEN q ELSE z
    <3>1. q \in Int /\ z \in Int
      BY <1>2, <2>1
    <3> QED
      BY <3>1, MinOfTwo, Zenon
  <2>3. (IF q <= z THEN q ELSE z) \in Nat
    BY <2>1
  <2> QED
    BY <2>1, <2>2, <2>3
<1>4. PICK s \in Seq(Nat), e \in Nat :
        /\ s = SubSeq(f, n + 1, m) /\ e = Len(s) /\ n + e <= z
        /\ \A c \in 1 .. e : s[c] = f[n + c]
  <2>1. n \in 0 .. z
    BY <1>2
  <2>2. n \in 0 .. Len(f) /\ m = IF n + most <= Len(f) THEN n + most ELSE Len(f)
    BY <1>2, <1>3, <2>1
  <2>3. PICK s : s = SubSeq(f, n + 1, m)
    OBVIOUS
  <2>4. /\ s \in Seq(Nat) /\ Len(s) = m - n /\ m \in n .. Len(f)
        /\ \A c \in 1 .. Len(s) : s[c] = f[n + c]
    BY <2>2, <2>3, Chunk, SMTT(30)
  <2>5. PICK e \in Nat : e = Len(s) /\ n + e <= z
    BY <1>2, <2>4
  <2> QED
    BY <2>3, <2>4, <2>5
<1>5. /\ UNCHANGED <<size, mbr, imaging, diskSize>> /\ imaging \in {"boot", "kernel"}
      /\ \/ disk' = D!writeAt(disk, p, s) /\ ret' = ret /\ broken' = broken
         \/ ret' = 1 /\ broken' = TRUE /\ disk' = disk
      /\ position' = p + e /\ k' = n + e
  BY <1>1, <1>2, <1>3, <1>4 DEF D!copy, D!arguments
<1>6. disk \in Seq(Nat)
  BY <1>5 DEF ImageInv, ImageAt
<1>7. PICK d \in Seq(Nat) :
        /\ d = D!writeAt(disk, p, s) /\ Len(d) >= Len(disk) /\ Len(d) >= p + e
        /\ \A c \in 1 .. e : d[p + c] = s[c]
        /\ \A c \in 1 .. Len(disk) : c <= p => d[c] = disk[c]
  <2>1. disk \in Seq(Nat) /\ p \in Nat /\ s \in Seq(Nat)
    BY <1>2, <1>4, <1>6
  <2>2. Written(disk, p, s, D!writeAt(disk, p, s))
    BY <2>1, WriteAt
  <2>3. PICK d : d = D!writeAt(disk, p, s) /\ Written(disk, p, s, d)
    BY <2>2
  <2> QED
    BY <1>4, <2>3 DEF Written
<1>8. ImageAt'
  <2>1. k' \in Nat /\ position' \in Nat
    BY <1>5
  <2>2. disk' \in Seq(Nat)
    BY <1>5, <1>6, <1>7
  <2> QED
    <3>1. /\ packing' \in {"done", "crashed"} /\ mbr' = mbr /\ diskSize' = diskSize
          /\ mbr \in Mbrs /\ diskSize \in Nat /\ broken' \in BOOLEAN /\ mbr.kind = "file"
      BY <1>5, Making DEF ImageInv, ImageAt
    <3>2. ret' # 0 => broken'
      BY <1>5 DEF ImageInv, ImageAt
    <3> QED
      BY <1>5, <2>1, <2>2, <3>1, <3>2 DEF ImageAt
<1>9. ImageHolds'
  <2> SUFFICES ASSUME ~ broken' PROVE ImageHolds'
    BY DEF ImageHolds
  <2>1. disk' = d /\ ~ broken
    BY <1>5, <1>7
  <2>2. CASE imaging = "boot"
    <3>1. p = 3 + n /\ f = boot.bytes
      BY <1>1, <1>2, <2>1, <2>2 DEF ImageInv, ImageHolds, D!source, D!System
    <3>2. position' = 3 + k' /\ k' <= Len(boot.bytes)
      BY <1>2, <1>4, <1>5, <3>1
    <3>3. position' <= Len(disk')
      BY <1>5, <1>7, <2>1, LenProperties
    <3> QED
      BY <1>5, <2>2, <3>2, <3>3 DEF ImageHolds, D!System
  <2>3. CASE imaging = "kernel"
    <3>1. PICK y, x \in Nat : y = payload /\ x = Len(disk)
      BY <1>6, BootFacts, LenProperties
    <3>2. /\ p = y + n /\ f = target.bytes /\ y + n <= x
          /\ \A c \in 1 .. n : disk[y + c] = f[c]
      BY <1>1, <1>2, <2>1, <2>3, <3>1 DEF ImageInv, ImageHolds, Copied, D!source
    <3>3. position' = y + k' /\ k' <= Len(f)
      BY <1>2, <1>4, <1>5, <3>2
    <3>4. y + (n + e) <= Len(d)
      BY <1>7, <3>2, LenProperties
    <3>5. ASSUME NEW c \in 1 .. (n + e) PROVE d[y + c] = f[c]
      <4>1. CASE c <= n
        <5>1. c \in 1 .. n /\ y + c \in 1 .. x /\ y + c <= p
          BY <3>2, <4>1
        <5>2. d[y + c] = disk[y + c]
          BY <1>7, <3>1, <5>1
        <5> QED
          BY <3>2, <5>1, <5>2
      <4>2. CASE c > n
        <5>1. c - n \in 1 .. e /\ p + (c - n) = y + c /\ n + (c - n) = c
          BY <3>2, <4>2
        <5>2. d[p + (c - n)] = s[c - n] /\ s[c - n] = f[n + (c - n)]
          BY <1>4, <1>7, <5>1
        <5> QED
          BY <5>1, <5>2
      <4> QED
        BY <4>1, <4>2
    <3>6. target' = target
      BY Making
    <3>7. Copied(n + e)'
      BY <1>5, <2>1, <3>1, <3>2, <3>4, <3>5, <3>6 DEF Copied
    <3>8. /\ imaging' = "kernel" /\ k' = n + e /\ position' = payload + k'
          /\ k' <= Len(target'.bytes)
      BY <1>5, <2>3, <3>1, <3>2, <3>3, <3>6
    <3> QED
      BY <3>7, <3>8 DEF ImageHolds
  <2> QED
    BY <1>5, <2>2, <2>3
<1>10. OldImageKept'
  BY <1>5 DEF OldImageKept
<1> QED
  BY <1>8, <1>9, <1>10 DEF ImageInv

(* The kernel begins where the boot loader has ended.                      *)
LEMMA CopiedKeeps ==
  ASSUME PackerTypes, ImageInv, Made, UNCHANGED packer, D!copied
  PROVE  ImageInv'
<1>1. /\ UNCHANGED <<size, mbr, diskSize, ret, disk, position>> /\ k' = 0
      /\ imaging \in {"boot", "kernel"} /\ broken' = (broken \/ k < Len(D!source.bytes))
      /\ imaging' = IF imaging = "boot" /\ ret = 0 THEN "kernel" ELSE "end"
  BY DEF D!copied, D!arguments, D!Goto
<1>2. disk \in Seq(Nat) /\ k \in Nat /\ broken' \in BOOLEAN /\ (ret # 0 => broken)
  BY <1>1 DEF ImageInv, ImageAt
<1>3. ImageAt'
  BY <1>1, <1>2, Making DEF ImageInv, ImageAt
<1>4. ImageHolds'
  <2> SUFFICES ASSUME ~ broken' PROVE ImageHolds'
    BY DEF ImageHolds
  <2>1. ~ broken /\ ~ (k < Len(D!source.bytes)) /\ ret = 0
    BY <1>1, <1>2
  <2>2. CASE imaging = "boot"
    <3>1. PICK y, z, p, x \in Nat : /\ y = payload /\ z = Len(boot.bytes) /\ p = position
                                   /\ x = Len(disk)
      BY <1>2, BootFacts, LenProperties DEF ImageInv, ImageAt
    <3>2. p = 3 + k /\ p <= x /\ k <= z /\ ~ (k < z)
      BY <2>1, <2>2, <3>1 DEF ImageInv, ImageHolds, D!source, D!System
    <3>3. y = 3 + z
      BY <3>1, BootFacts
    <3>4. p = y + 0 /\ y + 0 <= x
      BY <1>2, <3>2, <3>3
    <3>5. Copied(0)'
      BY <1>1, <1>2, <3>1, <3>4 DEF Copied
    <3>6. 0 <= Len(target'.bytes)
      BY Making
    <3> QED
      BY <1>1, <2>1, <2>2, <3>1, <3>4, <3>5, <3>6 DEF ImageHolds
  <2>3. CASE imaging = "kernel"
    <3>1. PICK z \in Nat : z = Len(target.bytes)
      BY Making
    <3>2. Copied(k) /\ k <= z /\ ~ (k < z)
      BY <2>1, <2>3, <3>1 DEF ImageInv, ImageHolds, D!source
    <3>3. k = z /\ target' = target
      BY <1>2, <3>2, Making
    <3>4. Copied(Len(target.bytes))'
      BY <1>1, <3>1, <3>2, <3>3 DEF Copied
    <3> QED
      BY <1>1, <2>3, <3>4 DEF ImageHolds
  <2> QED
    BY <1>1, <2>2, <2>3
<1>5. OldImageKept'
  BY <1>1, <1>2 DEF OldImageKept
<1> QED
  BY <1>3, <1>4, <1>5 DEF ImageInv

LEMMA ImageGoesOn ==
  ASSUME PackerInv, ImageInv, Next \/ UNCHANGED vars
  PROVE  ImageInv'
<1>1. CASE pack
  <2>1. ~ (packing = "done" \/ packing = "crashed")
    BY <1>1 DEF pack, P!Step, P!parse_opt, P!checkFiles, P!openTarget, P!openSource,
       P!write_size, P!write_file
  <2>2. imaging = "start"
    BY <2>1 DEF ImageInv, ImageAt
  <2> QED
    BY <1>1, <2>2, ImageWaits DEF pack
<1>2. ASSUME NEW p \in Paths, write(p) PROVE ImageInv'
  BY <1>2, ImageWaits DEF write, P!change
<1>3. CASE image
  BY <1>3, ReadSizeKeeps, ScaleKeeps, ChecksKeep, OpenDiskKeeps, FillKeeps, FormatKeeps,
     WriteMBRKeeps, CopyKeeps, CopiedKeeps DEF image, D!Step, PackerInv
<1>4. CASE UNCHANGED <<packer, tool>>
  BY <1>4, ImageWaits DEF packer
<1> QED
  BY <1>1, <1>2, <1>3, <1>4 DEF Next, Code, start, vars
-----------------------------------------------------------------------------
(* The machine. *)

LEMMA EndNext ==
  ASSUME NEW p \in Packs, NEW m \in 1 .. 2, m + 1 <= Len(p)
  PROVE  /\ First(p, m + 1) = End(p, m) + 1 /\ Header(p, m + 1) = End(p, m) + 1
         /\ End(p, m + 1) = End(p, m) + 1 + Len(p[m + 1])
<1>1. m + 1 # 1 /\ (m + 1) - 1 = m
  OBVIOUS
<1>2. First(p, m + 1) = End(p, m) + 1 /\ Header(p, m + 1) = End(p, m) + 1
  BY <1>1 DEF First, Header
<1>3. CASE m = 1
  <2>1. PICK x, y \in Nat : x = Len(p[1]) /\ y = Len(p[2])
    <3>1. Len(p) \in Nat /\ 2 <= Len(p)
      BY <1>3, PackFacts
    <3>2. 1 \in 1 .. Len(p) /\ 2 \in 1 .. Len(p)
      BY <3>1
    <3> QED
      BY <3>2, PackFacts
  <2>2. End(p, 1) = x + 1 /\ End(p, 2) = x + y + 2
    BY <2>1 DEF End
  <2>3. x + y + 2 = x + 1 + 1 + y
    OBVIOUS
  <2>4. m + 1 = 2
    BY <1>3
  <2> QED
    BY <1>2, <1>3, <2>1, <2>2, <2>3, <2>4
<1>4. CASE m = 2
  <2>1. PICK x, y, z \in Nat : x = Len(p[1]) /\ y = Len(p[2]) /\ z = Len(p[3])
    <3>1. Len(p) \in Nat /\ 3 <= Len(p)
      BY <1>4, PackFacts
    <3>2. 1 \in 1 .. Len(p) /\ 2 \in 1 .. Len(p) /\ 3 \in 1 .. Len(p)
      BY <3>1
    <3> QED
      BY <3>2, PackFacts
  <2>2. End(p, 2) = x + y + 2 /\ End(p, 3) = x + y + z + 3
    BY <2>1 DEF End
  <2>3. x + y + z + 3 = x + y + 2 + 1 + z
    OBVIOUS
  <2>4. m + 1 = 3
    BY <1>4
  <2> QED
    BY <1>2, <1>4, <2>1, <2>2, <2>3, <2>4
<1> QED
  BY <1>3, <1>4

LEMMA PhasesInTurn == K!After("modules") = "bss" /\ K!After("bss") = "main"
<1>1. K!Phases[1] = "modules" /\ K!Phases[2] = "bss" /\ K!Phases[3] = "main"
  BY DEF K!Phases
<1>2. \A n \in 2 .. 3 : (n - 1 = 1 /\ n = 2) \/ (n - 1 = 2 /\ n = 3)
  OBVIOUS
<1>3. (CHOOSE n \in 2 .. 3 : K!Phases[n - 1] = "modules") = 2
  <2>1. \A n \in 2 .. 3 : K!Phases[n - 1] = "modules" <=> n = 2
    BY <1>1, <1>2
  <2> QED
    BY <2>1
<1>4. (CHOOSE n \in 2 .. 3 : K!Phases[n - 1] = "bss") = 3
  <2>1. \A n \in 2 .. 3 : K!Phases[n - 1] = "bss" <=> n = 3
    BY <1>1, <1>2
  <2> QED
    BY <2>1
<1> QED
  BY <1>1, <1>3, <1>4 DEF K!After

LEMMA StartStarts ==
  ASSUME K!Init
  PROVE  StartInv
BY DEF K!Init, K!moduleAddresses, StartInv, StartAt, StartReads

(* The machine is off as long as the image is made.                        *)
LEMMA StartWaits ==
  ASSUME PackerInv, ImageInv, StartInv, UNCHANGED machine,
         \/ UNCHANGED <<packer, tool>>
         \/ imaging # "end"
         \/ \E p \in Paths : write(p)
  PROVE  StartInv'
<1>1. UNCHANGED <<starting, memory, currentModule, moduleCount, i, loaded>>
  BY DEF machine
<1>2. CASE UNCHANGED <<packer, tool>>
  <2>1. UNCHANGED <<array, target, packed, steady, imaging, ret, broken>>
    BY <1>2 DEF packer, tool
  <2> QED
    BY <1>1, <2>1 DEF StartInv, StartAt, StartReads, Supported
<1>3. CASE imaging # "end"
  <2>1. starting' = "off"
    BY <1>1, <1>3 DEF StartInv, StartAt
  <2> QED
    BY <1>1, <2>1 DEF StartInv, StartAt, StartReads
<1>4. ASSUME NEW p \in Paths, write(p), imaging = "end" PROVE StartInv'
  <2>1. ~ steady
    BY <1>4 DEF ImageInv, ImageAt, PackerInv, PackerAt, write
  <2>2. ~ steady' /\ UNCHANGED <<imaging, ret>>
    BY <1>4, <2>1 DEF write, P!change, tool
  <2> QED
    BY <1>1, <2>2 DEF StartInv, StartAt, StartReads
<1> QED
  BY <1>2, <1>3, <1>4

(* What there is to read, unless something has gone wrong.                 *)
LEMMA Arrived ==
  ASSUME PackerInv, ImageInv, imaging = "end", ret = 0, steady, ~ broken, Supported
  PROVE  \E b \in Seq(Nat), n \in 2 .. 3 :
           /\ b = target.bytes /\ n = Len(array) /\ Len(packed) = n /\ packed \in Packs
           /\ packed[1] = KernelBinary /\ Laid(b, packed, n, n)
           /\ Len(b) \in Nat /\ Len(b) = End(packed, n) /\ Len(b) <= WINDOW /\ Copied(Len(b))
<1>1. packing = "done"
  BY DEF ImageInv, ImageAt, PackerInv, PackerAt
<1>2. Len(array) \in 2 .. 3 /\ Len(target.bytes) <= WINDOW /\ Len(packed) = Len(array) /\ InPlace
  BY <1>1 DEF Supported, PackerInv, PackerAt, PackerLays, Three
<1>3. packed \in Packs /\ target.bytes \in Seq(Nat)
  BY DEF PackerInv, PackerTypes, P!HostEntry
<1>4. packed[1] = KernelBinary
  <2>1. PICK n \in 2 .. 3 : n = Len(packed)
    BY <1>2
  <2>2. packed # <<>>
    <3>1. Len(<<>>) = 0 /\ n # 0
      OBVIOUS
    <3> QED
      BY <2>1, <3>1
  <2> QED
    BY <2>2 DEF PackerInv, PackerAt
<1>5. Copied(Len(target.bytes))
  BY DEF ImageInv, ImageHolds
<1> QED
  BY <1>1, <1>2, <1>3, <1>4, <1>5, LenProperties DEF InPlace

LEMMA Pure64Keeps ==
  ASSUME PackerInv, ImageInv, StartInv, imaging = "end", ret = 0,
         UNCHANGED <<packer, tool>>, K!Pure64
  PROVE  StartInv'
<1>1. /\ starting' = "loader"
      /\ memory' = [c \in K!Cells |-> IF c < WINDOW /\ payload + c < Len(disk)
                                      THEN disk[payload + c + 1] ELSE JUNK]
      /\ UNCHANGED <<loaded, array, target, packed, steady, imaging, ret, disk, broken>>
  BY DEF K!Pure64, packer, tool
<1>2. StartAt'
  BY <1>1 DEF StartInv, StartAt
<1>3. StartReads'
  <2> SUFFICES ASSUME steady', ~ broken', Supported'
               PROVE  \A c \in 1 .. Len(target'.bytes) : memory'[c - 1] = target'.bytes[c]
    BY <1>1 DEF StartReads
  <2>1. steady /\ ~ broken /\ Supported
    BY <1>1 DEF Supported
  <2>2. PICK b \in Seq(Nat) : /\ b = target.bytes /\ Len(b) \in Nat /\ Len(b) <= WINDOW
                              /\ Copied(Len(b))
    BY <2>1, Arrived
  <2>3. PICK l, y, w, x \in Nat : l = Len(b) /\ y = payload /\ w = WINDOW /\ x = Len(disk)
    BY <2>2, BootFacts, BootAssumption, LenProperties DEF Copied, K!KernelStartConstants
  <2>4. l <= w /\ y + l <= x /\ \A c \in 1 .. l : disk[y + c] = b[c]
    BY <2>2, <2>3 DEF Copied
  <2>5. ASSUME NEW c \in 1 .. l PROVE memory'[c - 1] = b[c]
    <3>1. PICK d \in Nat : d = c - 1 /\ d \in 0 .. (2 * w) /\ d < w /\ y + d < x /\ y + d + 1 = y + c
      BY <2>4
    <3>2. memory'[d] = disk[y + d + 1]
      BY <1>1, <2>3, <3>1 DEF K!Cells
    <3> QED
      BY <2>4, <3>1, <3>2
  <2> QED
    BY <1>1, <2>2, <2>3, <2>5
<1> QED
  BY <1>2, <1>3 DEF StartInv

(* What has been packed first is the kernel.                               *)
LEMMA LoaderKeeps ==
  ASSUME PackerInv, ImageInv, StartInv, imaging = "end", ret = 0,
         UNCHANGED <<packer, tool>>, K!loader
  PROVE  StartInv'
<1>1. /\ starting = "loader" /\ currentModule' = Len(KernelBinary)
      /\ starting' = IF \A c \in 1 .. Len(KernelBinary) : memory[c - 1] = KernelBinary[c]
                     THEN "modules" ELSE "lost"
      /\ UNCHANGED <<memory, loaded, array, target, packed, steady, imaging, ret, broken>>
  BY DEF K!loader, K!Phases, K!endOfKernelBinary, packer, tool
<1>2. StartAt'
  BY <1>1 DEF StartInv, StartAt
<1>3. StartReads'
  <2> SUFFICES ASSUME steady', ~ broken', Supported' PROVE StartReads'
    BY DEF StartReads
  <2>1. steady /\ ~ broken /\ Supported
    BY <1>1 DEF Supported
  <2>2. \A c \in 1 .. Len(target.bytes) : memory[c - 1] = target.bytes[c]
    BY <1>1, <2>1 DEF StartInv, StartReads
  <2>3. PICK b \in Seq(Nat), n \in 2 .. 3 :
          /\ b = target.bytes /\ Len(packed) = n /\ packed \in Packs
          /\ packed[1] = KernelBinary /\ Laid(b, packed, n, n)
          /\ Len(b) \in Nat /\ Len(b) = End(packed, n)
    BY <2>1, Arrived
  <2>4. PICK l, z \in Nat : l = Len(b) /\ z = Len(KernelBinary) /\ z <= l
    <3>1. n \in 0 .. 3 /\ 1 \in 1 .. n /\ \A m \in 1 .. n : Len(packed[m]) \in Nat
      BY <2>3, PackFacts
    <3>2. First(packed, 1) + Len(packed[1]) <= End(packed, n)
      BY <3>1, Places
    <3>3. Len(KernelBinary) \in Nat /\ 0 + Len(KernelBinary) <= Len(b)
      BY <2>3, <3>1, <3>2 DEF First
    <3> QED
      BY <2>3, <3>3
  <2>5. \A c \in 1 .. z : b[0 + c] = KernelBinary[c]
    <3>1. \A c \in 1 .. Len(packed[1]) : b[First(packed, 1) + c] = packed[1][c]
      BY <2>3 DEF Laid
    <3> QED
      BY <2>3, <2>4, <3>1 DEF First
  <2>6. \A c \in 1 .. z : memory[c - 1] = KernelBinary[c]
    <3>1. \A c \in 1 .. z : c \in 1 .. l /\ 0 + c = c
      BY <2>4
    <3> QED
      BY <2>2, <2>3, <2>4, <2>5, <3>1
  <2>7. starting' = "modules"
    BY <1>1, <2>4, <2>6
  <2> QED
    BY <1>1, <2>2, <2>7 DEF StartReads
<1> QED
  BY <1>2, <1>3 DEF StartInv

(* The number of the modules lies behind the kernel.                       *)
LEMMA LoadModulesKeeps ==
  ASSUME PackerInv, ImageInv, StartInv, imaging = "end", ret = 0,
         UNCHANGED <<packer, tool>>, K!loadModules
  PROVE  StartInv'
<1>1. /\ starting = "modules" /\ currentModule = Len(KernelBinary)
      /\ moduleCount' = memory[currentModule] /\ i' = 0 /\ currentModule' = currentModule + 1
      /\ UNCHANGED <<starting, memory, loaded, array, target, packed, steady, imaging, ret, broken>>
  BY DEF K!loadModules, K!readUint32, K!endOfKernelBinary, packer, tool
<1>2. StartAt'
  BY <1>1 DEF StartInv, StartAt
<1>3. StartReads'
  <2> SUFFICES ASSUME steady', ~ broken', Supported' PROVE StartReads'
    BY DEF StartReads
  <2>1. steady /\ ~ broken /\ Supported
    BY <1>1 DEF Supported
  <2>2. \A c \in 1 .. Len(target.bytes) : memory[c - 1] = target.bytes[c]
    BY <1>1, <2>1 DEF StartInv, StartReads
  <2>3. PICK b \in Seq(Nat), n \in 2 .. 3 :
          /\ b = target.bytes /\ n = Len(array) /\ Len(packed) = n /\ packed \in Packs
          /\ packed[1] = KernelBinary /\ Laid(b, packed, n, n)
          /\ Len(b) \in Nat /\ Len(b) = End(packed, n)
    BY <2>1, Arrived
  <2>4. PICK l, z \in Nat : l = Len(b) /\ z = Len(KernelBinary) /\ z + 1 \in 1 .. l
    <3>0. n \in 0 .. 3 /\ 1 \in 1 .. n
      OBVIOUS
    <3>1. \A m \in 1 .. n : Len(packed[m]) \in Nat
      BY <2>3, PackFacts
    <3>2. Header(packed, 1) \in 1 .. End(packed, n)
      BY <3>0, <3>1, Places
    <3>3. Header(packed, 1) = Len(KernelBinary) + 1
      BY <2>3 DEF Header, End
    <3>4. Len(KernelBinary) \in Nat
      BY <2>3, <3>0, <3>1
    <3> QED
      BY <2>3, <3>2, <3>3, <3>4
  <2>5. End(packed, 1) = z + 1 /\ b[z + 1] = n - 1
    <3>1. End(packed, 1) = z + 1 /\ Header(packed, 1) = z + 1
      BY <2>3, <2>4 DEF Header, End
    <3>2. b[Header(packed, 1)] = Count(packed, 1, n)
      BY <2>3 DEF Laid
    <3> QED
      BY <3>1, <3>2 DEF Count
  <2>6. memory[z] = b[z + 1]
    <3>1. (z + 1) - 1 = z
      OBVIOUS
    <3> QED
      BY <2>2, <2>3, <2>4, <3>1
  <2>7. /\ moduleCount' = Len(array') - 1 /\ i' \in 0 .. moduleCount'
        /\ currentModule' = End(packed', i' + 1)
    <3>1. moduleCount' = n - 1 /\ currentModule' = z + 1
      BY <1>1, <2>4, <2>5, <2>6
    <3>2. 0 \in 0 .. (n - 1) /\ 0 + 1 = 1
      OBVIOUS
    <3> QED
      BY <1>1, <2>3, <2>5, <3>1, <3>2
  <2>8. \A m \in 0 .. (i' - 1) : FALSE
    BY <1>1
  <2>9. starting' = "modules" /\ \A c \in 1 .. Len(target'.bytes) : memory'[c - 1] = target'.bytes[c]
    BY <1>1, <2>2
  <2> QED
    BY <2>7, <2>8, <2>9 DEF StartReads
<1> QED
  BY <1>2, <1>3 DEF StartInv

(* A module's bytes lie behind its size, and the next begins where they    *)
(* end.                                                                    *)
LEMMA LoadModuleKeeps ==
  ASSUME PackerInv, ImageInv, StartInv, imaging = "end", ret = 0,
         UNCHANGED <<packer, tool>>, K!loadModule
  PROVE  StartInv'
<1>1. PICK x : x = memory[currentModule]
  OBVIOUS
<1>2. PICK first : first = currentModule + 1
  OBVIOUS
<1>3. /\ starting = "modules" /\ currentModule > Len(KernelBinary) /\ i < moduleCount
      /\ IF i \in 0 .. 1 /\ first + x \in 0 .. (2 * WINDOW)
         THEN /\ loaded' = [loaded EXCEPT ![i] = [c \in 1 .. x |-> memory[first + c - 1]]]
              /\ currentModule' = first + x /\ i' = i + 1 /\ starting' = starting
         ELSE starting' = "lost" /\ loaded' = loaded
      /\ UNCHANGED <<memory, moduleCount, array, target, packed, steady, imaging, ret, broken>>
  BY <1>1, <1>2 DEF K!loadModule, K!readUint32, K!endOfKernelBinary, K!moduleAddresses, K!Cells,
     packer, tool
<1>4. StartAt'
  BY <1>3 DEF StartInv, StartAt
<1>5. StartReads'
  <2> SUFFICES ASSUME steady', ~ broken', Supported' PROVE StartReads'
    BY DEF StartReads
  <2>1. steady /\ ~ broken /\ Supported
    BY <1>3 DEF Supported
  <2>2. PICK b \in Seq(Nat), n \in 2 .. 3 :
          /\ b = target.bytes /\ n = Len(array) /\ Len(packed) = n /\ packed \in Packs
          /\ packed[1] = KernelBinary /\ Laid(b, packed, n, n)
          /\ Len(b) \in Nat /\ Len(b) = End(packed, n) /\ Len(b) <= WINDOW
    BY <2>1, Arrived
  <2>3. PICK l, w \in Nat : l = Len(b) /\ w = WINDOW /\ l <= w
    BY <2>2, BootAssumption DEF K!KernelStartConstants
  <2>4. \A c \in 1 .. l : memory[c - 1] = b[c]
    BY <1>3, <2>1, <2>2, <2>3 DEF StartInv, StartReads
  <2>5. currentModule # Len(KernelBinary)
    <3>1. 1 \in 1 .. n
      OBVIOUS
    <3>2. Len(KernelBinary) \in Nat
      BY <2>2, <3>1, PackFacts
    <3>3. PICK z \in Nat : z = Len(KernelBinary)
      BY <3>2
    <3>4. ~ (z > z)
      OBVIOUS
    <3> QED
      BY <1>3, <3>3, <3>4
  <2>6. /\ moduleCount = n - 1 /\ i \in 0 .. moduleCount /\ currentModule = End(packed, i + 1)
        /\ \A m \in 0 .. (i - 1) : loaded[m] = packed[m + 2]
    BY <1>3, <2>1, <2>2, <2>5 DEF StartInv, StartReads
  <2>7. PICK j \in 0 .. 1 : j = i /\ j + 2 <= n /\ j < n - 1
    <3>1. i \in 0 .. (n - 1) /\ i < n - 1
      BY <1>3, <2>6
    <3>2. i \in 0 .. 1 /\ i + 2 <= n
      BY <3>1
    <3> QED
      BY <3>1, <3>2
  <2>8. /\ \A m \in 1 .. n : Len(packed[m]) \in Nat /\ packed[m] \in Seq(Nat)
        /\ n \in 0 .. 3
    BY <2>2, PackFacts
  <2>9. PICK m \in 1 .. 2 : m = j + 1 /\ m + 1 = j + 2 /\ m + 1 \in 1 .. n /\ m \in 1 .. n
    BY <2>7
  <2>10. PICK f \in Seq(Nat), e, g, z \in Nat :
           /\ f = packed[m + 1] /\ e = End(packed, m) /\ g = First(packed, m + 1) /\ z = Len(f)
           /\ g = e + 1 /\ Header(packed, m + 1) = e + 1 /\ End(packed, m + 1) = e + 1 + z
           /\ g + z <= l
    <3>1. /\ End(packed, m) \in Nat /\ First(packed, m + 1) \in Nat
          /\ First(packed, m + 1) + Len(packed[m + 1]) <= End(packed, n)
      BY <2>8, <2>9, Places
    <3>2. /\ First(packed, m + 1) = End(packed, m) + 1 /\ Header(packed, m + 1) = End(packed, m) + 1
          /\ End(packed, m + 1) = End(packed, m) + 1 + Len(packed[m + 1])
      <4>1. m + 1 <= Len(packed)
        BY <2>2, <2>9
      <4> QED
        BY <2>2, <4>1, EndNext
    <3>3. packed[m + 1] \in Seq(Nat) /\ Len(packed[m + 1]) \in Nat
      BY <2>8, <2>9
    <3> QED
      BY <2>2, <2>3, <3>1, <3>2, <3>3
  <2>11. b[e + 1] = z /\ \A c \in 1 .. z : b[g + c] = f[c]
    <3>1. /\ b[Header(packed, m + 1)] = Count(packed, m + 1, n)
          /\ \A c \in 1 .. Len(packed[m + 1]) : b[First(packed, m + 1) + c] = packed[m + 1][c]
      BY <2>2, <2>9 DEF Laid
    <3>2. m + 1 # 1
      OBVIOUS
    <3> QED
      BY <2>10, <3>1, <3>2 DEF Count
  <2>12. currentModule = e /\ first = g /\ x = z
    <3>1. currentModule = e
      BY <2>6, <2>7, <2>9, <2>10
    <3>2. e + 1 \in 1 .. l /\ (e + 1) - 1 = e
      BY <2>10
    <3>3. memory[e] = b[e + 1]
      BY <2>4, <3>2
    <3> QED
      BY <1>1, <1>2, <2>10, <2>11, <3>1, <3>3
  <2>13. first + x \in 0 .. (2 * WINDOW) /\ first + x = End(packed, j + 2) /\ i \in 0 .. 1
    <3>1. g + z \in 0 .. (2 * w) /\ g + z = e + 1 + z
      BY <2>3, <2>10, SMTT(30)
    <3> QED
      BY <2>3, <2>7, <2>9, <2>10, <2>12, <3>1
  <2>14. [c \in 1 .. x |-> memory[first + c - 1]] = f
    <3>1. PICK h : h = [c \in 1 .. z |-> memory[g + c - 1]]
      OBVIOUS
    <3>2. ASSUME NEW c \in 1 .. z PROVE h[c] = f[c] /\ h[c] \in Nat
      <4>1. g + c \in 1 .. l /\ (g + c) - 1 = g + c - 1
        <5>1. g + z <= l
          BY <2>10
        <5> QED
          BY <5>1
      <4>2. memory[g + c - 1] = b[g + c]
        BY <2>4, <4>1
      <4>3. f[c] \in Nat
        BY <2>10, ElementOfSeq
      <4> QED
        BY <2>11, <3>1, <4>2, <4>3
    <3>3. h \in [1 .. z -> Nat]
      BY <3>1, <3>2
    <3>4. h \in Seq(Nat) /\ Len(h) = z
      BY <3>3
    <3>5. h = f
      BY <2>10, <3>2, <3>4, SeqEqual
    <3> QED
      BY <2>12, <3>1, <3>5
  <2>15. /\ loaded' = [loaded EXCEPT ![j] = f] /\ currentModule' = End(packed, j + 2) /\ i' = j + 1
         /\ starting' = "modules"
    BY <1>3, <2>7, <2>13, <2>14
  <2>16. ASSUME NEW a \in 0 .. j PROVE loaded'[a] = packed[a + 2]
    <3>1. DOMAIN loaded = 0 .. 1 /\ a \in 0 .. 1
      BY DEF StartInv, StartAt
    <3>2. CASE a = j
      BY <2>9, <2>10, <2>15, <3>1, <3>2
    <3>3. CASE a # j
      <4>1. a \in 0 .. (j - 1)
        BY <3>3
      <4> QED
        BY <2>6, <2>7, <2>15, <3>1, <3>3, <4>1
    <3> QED
      BY <3>2, <3>3
  <2>17. /\ moduleCount' = Len(array') - 1 /\ i' \in 0 .. moduleCount'
         /\ currentModule' = End(packed', i' + 1)
         /\ \A a \in 0 .. (i' - 1) : loaded'[a] = packed'[a + 2]
    <3>1. j + 1 \in 0 .. (n - 1) /\ (j + 1) + 1 = j + 2 /\ (j + 1) - 1 = j
      BY <2>7
    <3>2. moduleCount' = n - 1 /\ Len(array') = n /\ packed' = packed
      BY <1>3, <2>2, <2>6
    <3> QED
      BY <2>15, <2>16, <3>1, <3>2
  <2>18. \A c \in 1 .. Len(target'.bytes) : memory'[c - 1] = target'.bytes[c]
    BY <1>3, <2>2, <2>3, <2>4
  <2> QED
    BY <2>15, <2>17, <2>18 DEF StartReads
<1> QED
  BY <1>4, <1>5 DEF StartInv

LEMMA ModulesLoadedKeeps ==
  ASSUME PackerInv, ImageInv, StartInv, imaging = "end", ret = 0,
         UNCHANGED <<packer, tool>>, K!modulesLoaded
  PROVE  StartInv'
<1>1. /\ starting = "modules" /\ currentModule > Len(KernelBinary) /\ i >= moduleCount
      /\ starting' = "bss"
      /\ UNCHANGED <<loaded, array, target, packed, steady, imaging, ret, broken>>
  BY PhasesInTurn DEF K!modulesLoaded, K!endOfKernelBinary, packer, tool
<1>2. StartAt'
  BY <1>1 DEF StartInv, StartAt
<1>3. StartReads'
  <2> SUFFICES ASSUME steady', ~ broken', Supported'
               PROVE  \A m \in 2 .. Len(array') : loaded'[m - 2] = packed'[m]
    BY <1>1 DEF StartReads
  <2>1. steady /\ ~ broken /\ Supported
    BY <1>1 DEF Supported
  <2>2. PICK n \in 2 .. 3 : /\ n = Len(array) /\ Len(packed) = n /\ packed \in Packs
                            /\ packed[1] = KernelBinary
    BY <2>1, Arrived
  <2>3. currentModule # Len(KernelBinary)
    <3>1. 1 \in 1 .. n
      OBVIOUS
    <3>2. Len(KernelBinary) \in Nat
      BY <2>2, <3>1, PackFacts
    <3>3. PICK z \in Nat : z = Len(KernelBinary)
      BY <3>2
    <3>4. ~ (z > z)
      OBVIOUS
    <3> QED
      BY <1>1, <3>3, <3>4
  <2>4. /\ moduleCount = n - 1 /\ i \in 0 .. moduleCount
        /\ \A m \in 0 .. (i - 1) : loaded[m] = packed[m + 2]
    BY <1>1, <2>1, <2>2, <2>3 DEF StartInv, StartReads
  <2>5. i = n - 1
    <3>1. i \in 0 .. (n - 1) /\ i >= n - 1
      BY <1>1, <2>4
    <3> QED
      BY <3>1
  <2>6. ASSUME NEW m \in 2 .. n PROVE loaded[m - 2] = packed[m]
    <3>1. PICK a \in 0 .. ((n - 1) - 1) : a = m - 2 /\ a + 2 = m
      <4>1. m - 2 \in 0 .. ((n - 1) - 1) /\ (m - 2) + 2 = m
        OBVIOUS
      <4> QED
        BY <4>1
    <3>2. loaded[a] = packed[a + 2]
      BY <2>4, <2>5
    <3> QED
      BY <3>1, <3>2
  <2> QED
    BY <1>1, <2>2, <2>6
<1> QED
  BY <1>2, <1>3 DEF StartInv

LEMMA MainKeeps ==
  ASSUME PackerInv, ImageInv, StartInv, imaging = "end", ret = 0,
         UNCHANGED <<packer, tool>>, K!clearBSS \/ K!main
  PROVE  StartInv'
<1>1. /\ \/ starting = "bss" /\ starting' = "main"
         \/ starting = "main" /\ loaded[0] = <<>> /\ starting' = "lost"
         \/ starting = "main" /\ starting' = "started"
      /\ UNCHANGED <<loaded, array, target, packed, steady, imaging, ret, broken>>
  BY PhasesInTurn DEF K!clearBSS, K!main, packer, tool
<1>2. StartAt'
  BY <1>1 DEF StartInv, StartAt
<1>3. StartReads'
  <2> SUFFICES ASSUME steady', ~ broken', Supported' PROVE StartReads'
    BY DEF StartReads
  <2>1. steady /\ ~ broken /\ Supported
    BY <1>1 DEF Supported
  <2>2. \A m \in 2 .. Len(array) : loaded[m - 2] = packed[m]
    BY <1>1, <2>1 DEF StartInv, StartReads
  <2>3. loaded[0] = <<>> => packed[2] = <<>>
    <3>1. PICK n \in 2 .. 3 : n = Len(array)
      BY <2>1 DEF Supported
    <3>2. 2 \in 2 .. n /\ 2 - 2 = 0
      OBVIOUS
    <3> QED
      BY <2>2, <3>1, <3>2
  <2> QED
    BY <1>1, <2>2, <2>3 DEF StartReads
<1> QED
  BY <1>2, <1>3 DEF StartInv

LEMMA StartGoesOn ==
  ASSUME PackerInv, ImageInv, StartInv, Next \/ UNCHANGED vars
  PROVE  StartInv'
<1>1. CASE pack
  <2>1. ~ (packing = "done" \/ packing = "crashed")
    BY <1>1 DEF pack, P!Step, P!parse_opt, P!checkFiles, P!openTarget, P!openSource,
       P!write_size, P!write_file
  <2>2. imaging = "start"
    BY <2>1 DEF ImageInv, ImageAt
  <2> QED
    BY <1>1, <2>2, StartWaits DEF pack
<1>2. ASSUME NEW p \in Paths, write(p) PROVE StartInv'
  BY <1>2, StartWaits DEF write
<1>3. CASE image
  <2>1. imaging # "end"
    BY <1>3 DEF image, D!Step, D!initialize, D!readSize, D!scale, D!checkSize, D!openFails,
       D!openDisk, D!OpensDisk, D!writeFails, D!fill, D!format, D!writeMBR, D!copy, D!copied
  <2> QED
    BY <1>3, <2>1, StartWaits DEF image
<1>4. CASE start
  BY <1>4, Pure64Keeps, LoaderKeeps, LoadModulesKeeps, LoadModuleKeeps, ModulesLoadedKeeps,
     MainKeeps DEF start, K!Step
<1>5. CASE UNCHANGED vars
  BY <1>5, StartWaits DEF vars
<1> QED
  BY <1>1, <1>2, <1>3, <1>4, <1>5 DEF Next, Code
-----------------------------------------------------------------------------
(* What has been packed, what of it is on the image and what the machine   *)
(* has read.                                                               *)
THEOREM Invariant == Spec => []Inv
<1>1. Init => Inv
  BY PackerStarts, ImageStarts, StartStarts DEF Init, Inv
<1>2. Inv /\ [Next]_vars => Inv'
  BY PackerGoesOn, ImageGoesOn, StartGoesOn DEF Inv
<1> QED
  BY <1>1, <1>2, PTL DEF Spec

(* The kernel reads what the packer wrote: whatever the sizes of the files *)
(* are, and how many cells one read or write takes, the modules arrive at  *)
(* their addresses as they were packed, and the program is called unless   *)
(* it has no bytes.                                                        *)
THEOREM PackedModulesArrive == Spec => []ModulesArrive
<1>1. Inv => ModulesArrive
  <2> SUFFICES ASSUME Inv, steady, ~ broken, Supported
               PROVE  /\ starting = "lost" => packed[2] = <<>>
                      /\ starting = "started" => \A n \in 2 .. Len(array) : loaded[n - 2] = packed[n]
    BY DEF ModulesArrive
  <2> QED
    BY DEF Inv, StartInv, StartReads
<1> QED
  BY <1>1, Invariant, PTL

(* A refused `initialize' leaves the image there was.                      *)
THEOREM RefusalKeepsImage == Spec => []OldImageKept
<1>1. Inv => OldImageKept
  BY DEF Inv, ImageInv
<1> QED
  BY <1>1, Invariant, PTL
-----------------------------------------------------------------------------
(* The size, as the tool reads it from left to right.                      *)

(* A set of numbers has a least one.                                       *)
LEMMA Least ==
  ASSUME NEW T, T \subseteq Nat, T # {}
  PROVE  \E m \in T : \A n \in T : m <= n
<1> DEFINE R == OpToRel(<, Nat)
<1>1. PICK m \in T : \A n \in T : <<n, m>> \notin R
  BY NatLessThanWellFounded, WFMin
<1>2. \A n \in T : ~ (n < m)
  BY <1>1 DEF OpToRel
<1> QED
  BY <1>2

(* The digits of s, added up one by one.                                   *)
IsRead(d, s, m) ==
  d = [n \in 0 .. m |-> IF n = 0 THEN 0 ELSE 10 * d[n - 1] + D!Number(s[n])]

LEMMA ReadExists ==
  ASSUME NEW s, NEW l \in Nat
  PROVE  \E d : IsRead(d, s, l)
<1> DEFINE Missing == {m \in 0 .. l : ~ \E d : IsRead(d, s, m)}
<1> SUFFICES ASSUME l \in Missing PROVE FALSE
  OBVIOUS
<1>1. PICK m \in Missing : \A n \in Missing : m <= n
  <2>1. Missing \subseteq Nat /\ Missing # {}
    OBVIOUS
  <2> QED
    BY <2>1, Least
<1>2. CASE m = 0
  <2>1. PICK d : d = [n \in 0 .. 0 |-> 0]
    OBVIOUS
  <2>2. IsRead(d, s, 0)
    BY <2>1 DEF IsRead
  <2> QED
    BY <1>1, <1>2, <2>2
<1>3. CASE m # 0
  <2>1. m - 1 \in 0 .. l /\ m \in 0 .. l /\ ~ (m <= m - 1)
    BY <1>1, <1>3
  <2>2. PICK d : IsRead(d, s, m - 1)
    BY <1>1, <2>1
  <2>3. PICK e : e = [n \in 0 .. m |-> IF n = m THEN 10 * d[m - 1] + D!Number(s[m]) ELSE d[n]]
    OBVIOUS
  <2>4. ASSUME NEW n \in 0 .. m
        PROVE  e[n] = IF n = 0 THEN 0 ELSE 10 * e[n - 1] + D!Number(s[n])
    <3>1. CASE n = m
      BY <1>3, <2>1, <2>3, <3>1
    <3>2. CASE n # m
      <4>1. /\ n \in 0 .. (m - 1)
            /\ n # 0 => n - 1 \in 0 .. (m - 1) /\ n - 1 \in 0 .. m /\ n - 1 # m
        BY <2>1, <3>2
      <4>2. d[n] = IF n = 0 THEN 0 ELSE 10 * d[n - 1] + D!Number(s[n])
        BY <2>2, <4>1 DEF IsRead
      <4>3. e[n] = d[n] /\ (n # 0 => e[n - 1] = d[n - 1])
        BY <2>3, <3>2, <4>1
      <4> QED
        BY <4>2, <4>3
    <3> QED
      BY <3>1, <3>2
  <2>5. IsRead(e, s, m)
    <3>1. e = [n \in 0 .. m |-> e[n]]
      BY <2>3
    <3> QED
      BY <2>4, <3>1 DEF IsRead
  <2> QED
    BY <1>1, <2>5
<1> QED
  BY <1>2, <1>3

(* A size, multiplied again and again.                                     *)
IsScaled(d, b, m) ==
  d = [n \in 0 .. m |-> IF n = 0 THEN b ELSE KILO * d[n - 1]]

LEMMA ScaledExists ==
  ASSUME NEW b, NEW l \in Nat
  PROVE  \E d : IsScaled(d, b, l)
<1> DEFINE Missing == {m \in 0 .. l : ~ \E d : IsScaled(d, b, m)}
<1> SUFFICES ASSUME l \in Missing PROVE FALSE
  OBVIOUS
<1>1. PICK m \in Missing : \A n \in Missing : m <= n
  <2>1. Missing \subseteq Nat /\ Missing # {}
    OBVIOUS
  <2> QED
    BY <2>1, Least
<1>2. CASE m = 0
  <2>1. PICK d : d = [n \in 0 .. 0 |-> b]
    OBVIOUS
  <2>2. IsScaled(d, b, 0)
    BY <2>1 DEF IsScaled
  <2> QED
    BY <1>1, <1>2, <2>2
<1>3. CASE m # 0
  <2>1. m - 1 \in 0 .. l /\ m \in 0 .. l /\ ~ (m <= m - 1)
    BY <1>1, <1>3
  <2>2. PICK d : IsScaled(d, b, m - 1)
    BY <1>1, <2>1
  <2>3. PICK e : e = [n \in 0 .. m |-> IF n = m THEN KILO * d[m - 1] ELSE d[n]]
    OBVIOUS
  <2>4. ASSUME NEW n \in 0 .. m
        PROVE  e[n] = IF n = 0 THEN b ELSE KILO * e[n - 1]
    <3>1. CASE n = m
      BY <1>3, <2>1, <2>3, <3>1
    <3>2. CASE n # m
      <4>1. /\ n \in 0 .. (m - 1)
            /\ n # 0 => n - 1 \in 0 .. (m - 1) /\ n - 1 \in 0 .. m /\ n - 1 # m
        BY <2>1, <3>2
      <4>2. d[n] = IF n = 0 THEN b ELSE KILO * d[n - 1]
        BY <2>2, <4>1 DEF IsScaled
      <4>3. e[n] = d[n] /\ (n # 0 => e[n - 1] = d[n - 1])
        BY <2>3, <3>2, <4>1
      <4> QED
        BY <4>2, <4>3
    <3> QED
      BY <3>1, <3>2
  <2>5. IsScaled(e, b, m)
    <3>1. e = [n \in 0 .. m |-> e[n]]
      BY <2>3
    <3> QED
      BY <2>4, <3>1 DEF IsScaled
  <2> QED
    BY <1>1, <2>5
<1> QED
  BY <1>2, <1>3

(* What has been read of s after so many digits, and made of it since.     *)
Read(s) == CHOOSE d : IsRead(d, s, DigitCount(s))
Scaled(s) == CHOOSE e : IsScaled(e, Read(s)[DigitCount(s)], Power(s))

LEMMA Characters ==
  ASSUME NEW ch
  PROVE  /\ D!isdigit(ch) => D!Number(ch) \in 0 .. 9 /\ ~ D!isunit(ch)
         /\ D!isunit(ch) => D!Factor(ch) \in 1 .. 5
<1>1. ASSUME D!isdigit(ch) PROVE D!Number(ch) \in 0 .. 9 /\ ~ D!isunit(ch)
  <2>1. PICK n \in 1 .. 10 : D!Digits[n] = ch
    BY <1>1 DEF D!isdigit, D!Contains, D!Digits
  <2>2. n - 1 \in 0 .. 9 /\ D!Digits[(n - 1) + 1] = ch
    BY <2>1
  <2>3. ASSUME NEW u \in 1 .. 5 PROVE D!Units[u] # D!Digits[n]
    BY DEF D!Units, D!Digits
  <2>4. ~ D!isunit(ch)
    BY <2>1, <2>3 DEF D!isunit, D!Contains, D!Units
  <2> QED
    BY <2>2, <2>4 DEF D!Number
<1>2. ASSUME D!isunit(ch) PROVE D!Factor(ch) \in 1 .. 5
  BY <1>2 DEF D!isunit, D!Contains, D!Units, D!Factor
<1> QED
  BY <1>1, <1>2

(* A sequence of numbers that never falls ends with the largest.           *)
LEMMA Rising ==
  ASSUME NEW f, NEW m \in Nat, f[0] \in Nat,
         \A n \in 1 .. m : f[n - 1] \in Nat => f[n] \in Nat /\ f[n - 1] <= f[n]
  PROVE  \A n \in 0 .. m : f[n] \in Nat /\ f[n] <= f[m]
<1>1. \A n \in 0 .. m : f[n] \in Nat
  <2> DEFINE Bad == {n \in 0 .. m : f[n] \notin Nat}
  <2> SUFFICES ASSUME Bad # {} PROVE FALSE
    OBVIOUS
  <2>1. PICK n \in Bad : \A o \in Bad : n <= o
    <3>1. Bad \subseteq Nat
      OBVIOUS
    <3> QED
      BY <3>1, Least
  <2>2. n # 0
    BY <2>1
  <2>3. n - 1 \in 0 .. m /\ n \in 1 .. m /\ ~ (n <= n - 1)
    BY <2>1, <2>2
  <2>4. f[n - 1] \in Nat
    BY <2>1, <2>3
  <2> QED
    BY <2>1, <2>3, <2>4
<1>2. \A n \in 0 .. m : f[n] <= f[m]
  <2> DEFINE Bad == {n \in 0 .. m : ~ (f[m - n] <= f[m])}
  <2>1. Bad = {}
    <3> SUFFICES ASSUME Bad # {} PROVE FALSE
      OBVIOUS
    <3>1. PICK n \in Bad : \A o \in Bad : n <= o
      <4>1. Bad \subseteq Nat
        OBVIOUS
      <4> QED
        BY <4>1, Least
    <3>2. n # 0
      <4>1. m - 0 = m /\ f[m] \in Nat
        BY <1>1
      <4> QED
        BY <3>1, <4>1
    <3>3. n - 1 \in 0 .. m /\ ~ (n <= n - 1) /\ m - n \in 0 .. m /\ m - (n - 1) \in 1 .. m
          /\ (m - (n - 1)) - 1 = m - n
      BY <3>1, <3>2
    <3>4. f[m - (n - 1)] <= f[m]
      BY <3>1, <3>3
    <3>5. PICK o \in 1 .. m : o = m - (n - 1) /\ o - 1 = m - n /\ o \in 0 .. m
      BY <3>3
    <3>6. f[o - 1] <= f[o] /\ f[o] \in Nat /\ f[o - 1] \in Nat /\ f[m] \in Nat
      BY <1>1, <3>3, <3>5
    <3>7. f[m - n] <= f[m]
      BY <3>4, <3>5, <3>6
    <3> QED
      BY <3>1, <3>7
  <2>2. ASSUME NEW n \in 0 .. m PROVE f[n] <= f[m]
    <3>1. m - n \in 0 .. m /\ m - (m - n) = n
      OBVIOUS
    <3>2. m - n \notin Bad
      BY <2>1
    <3> QED
      BY <3>1, <3>2
  <2> QED
    BY <2>2
<1> QED
  BY <1>1, <1>2

(* And one that stays at zero once it is there ends with zero.             *)
LEMMA Staying ==
  ASSUME NEW f, NEW m \in Nat, \A n \in 1 .. m : f[n - 1] = 0 => f[n] = 0,
         NEW n \in 0 .. m, f[n] = 0
  PROVE  f[m] = 0
<1> DEFINE Bad == {o \in 0 .. m : n <= o /\ f[o] # 0}
<1> SUFFICES ASSUME Bad # {} PROVE FALSE
  <2>1. m \in 0 .. m /\ n <= m
    OBVIOUS
  <2> QED
    BY <2>1
<1>1. PICK o \in Bad : \A p \in Bad : o <= p
  <2>1. Bad \subseteq Nat
    OBVIOUS
  <2> QED
    BY <2>1, Least
<1>2. o \in 1 .. m /\ o - 1 \in 0 .. m /\ n <= o - 1 /\ ~ (o <= o - 1)
  BY <1>1
<1>3. f[o - 1] = 0
  BY <1>1, <1>2
<1> QED
  BY <1>1, <1>2, <1>3

(* What is known of a size that is one: d are its digits read so far, e    *)
(* what has been made of their number by so many multiplications.          *)
Sizes(s, L, U, d, e) ==
  /\ L \in Nat \ {0} /\ L = DigitCount(s) /\ U \in Nat /\ U = Power(s)
  /\ Len(s) = IF HasUnit(s) THEN L + 1 ELSE L
  /\ HasUnit(s) => U = D!Factor(s[L + 1])
  /\ ~ HasUnit(s) => U = 0
  /\ \A n \in 1 .. L : D!isdigit(s[n]) /\ D!Number(s[n]) \in 0 .. 9
  /\ d[0] = 0 /\ \A n \in 1 .. L : d[n] = 10 * d[n - 1] + D!Number(s[n])
  /\ e[0] = d[L] /\ \A n \in 1 .. U : e[n] = KILO * e[n - 1]
  /\ \A n \in 0 .. L : d[n] \in Nat /\ d[n] <= e[U]
  /\ \A n \in 0 .. U : e[n] \in Nat /\ e[n] <= e[U] /\ (e[n] = 0 => e[U] = 0)
  /\ Bytes(s) = e[U]

LEMMA KiloTyped == KILO \in Nat /\ KILO >= 2 /\ WORD \in Nat /\ WORD > 0 /\ minimumDiskSize > 0
BY BootAssumption DEF D!InitializeConstants

LEMMA SizeParts ==
  ASSUME NEW s \in Seq(STRING), Valid(s)
  PROVE  /\ DigitCount(s) \in Nat \ {0} /\ Power(s) \in Nat
         /\ Len(s) = IF HasUnit(s) THEN DigitCount(s) + 1 ELSE DigitCount(s)
         /\ HasUnit(s) => Power(s) = D!Factor(s[DigitCount(s) + 1])
         /\ ~ HasUnit(s) => Power(s) = 0
         /\ \A n \in 1 .. DigitCount(s) : D!isdigit(s[n]) /\ D!Number(s[n]) \in 0 .. 9
<1>1. Len(s) \in Nat
  BY LenProperties
<1>2. DigitCount(s) > 0 /\ \A n \in 1 .. DigitCount(s) : D!isdigit(s[n])
  BY DEF Valid
<1>3. CASE HasUnit(s)
  <2>1. DigitCount(s) = Len(s) - 1 /\ Power(s) = D!Factor(s[Len(s)]) /\ D!isunit(s[Len(s)])
    BY <1>3 DEF DigitCount, Power, HasUnit
  <2>2. D!Factor(s[Len(s)]) \in 1 .. 5
    BY <2>1, Characters
  <2>3. DigitCount(s) \in Nat \ {0} /\ Len(s) = DigitCount(s) + 1
    BY <1>1, <1>2, <2>1
  <2>4. Power(s) \in Nat
    BY <2>1, <2>2
  <2>5. \A n \in 1 .. DigitCount(s) : D!isdigit(s[n]) /\ D!Number(s[n]) \in 0 .. 9
    BY <1>2, Characters
  <2> QED
    BY <1>3, <2>1, <2>3, <2>4, <2>5
<1>4. CASE ~ HasUnit(s)
  <2>1. DigitCount(s) = Len(s) /\ Power(s) = 0
    BY <1>4 DEF DigitCount, Power
  <2>2. \A n \in 1 .. DigitCount(s) : D!isdigit(s[n]) /\ D!Number(s[n]) \in 0 .. 9
    BY <1>2, Characters
  <2> QED
    BY <1>1, <1>2, <1>4, <2>1, <2>2
<1> QED
  BY <1>3, <1>4

LEMMA BytesScaled ==
  ASSUME NEW s
  PROVE  Bytes(s) = Scaled(s)[Power(s)]
BY Zenon DEF Bytes, Scaled, Read, IsRead, IsScaled

LEMMA SizeFacts ==
  ASSUME NEW s \in Seq(STRING), Valid(s)
  PROVE  \E L, U : Sizes(s, L, U, Read(s), Scaled(s))
<1>1. PICK L \in Nat \ {0}, U \in Nat : L = DigitCount(s) /\ U = Power(s)
  <2>1. DigitCount(s) \in Nat \ {0} /\ Power(s) \in Nat
    BY SizeParts
  <2> QED
    BY <2>1
<1>2. PICK d : d = Read(s) /\ IsRead(d, s, L)
  <2>1. \E f : IsRead(f, s, L)
    BY <1>1, ReadExists
  <2> QED
    BY <1>1, <2>1 DEF Read
<1>3. PICK e : e = Scaled(s) /\ IsScaled(e, d[L], U)
  <2>1. \E f : IsScaled(f, d[L], U)
    BY <1>1, ScaledExists
  <2> QED
    BY <1>1, <1>2, <2>1 DEF Scaled
<1>4. \A n \in 1 .. L : D!isdigit(s[n]) /\ D!Number(s[n]) \in 0 .. 9
  BY <1>1, SizeParts
<1>5. d[0] = 0 /\ \A n \in 1 .. L : d[n] = 10 * d[n - 1] + D!Number(s[n])
  BY <1>1, <1>2 DEF IsRead
<1>6. e[0] = d[L] /\ \A n \in 1 .. U : e[n] = KILO * e[n - 1]
  BY <1>1, <1>3 DEF IsScaled
<1>7. \A n \in 0 .. L : d[n] \in Nat /\ d[n] <= d[L]
  <2>1. ASSUME NEW n \in 1 .. L, d[n - 1] \in Nat
        PROVE  d[n] \in Nat /\ d[n - 1] <= d[n]
    <3>1. PICK a, b \in Nat : a = d[n - 1] /\ b = D!Number(s[n])
      BY <1>4, <2>1
    <3>2. d[n] = 10 * a + b
      BY <1>5, <3>1
    <3> QED
      BY <3>1, <3>2
  <2>2. d[0] \in Nat
    BY <1>5
  <2> QED
    BY <2>1, <2>2, Rising
<1>8. \A n \in 1 .. U : e[n - 1] \in Nat => e[n] \in Nat /\ e[n - 1] <= e[n]
  <2> SUFFICES ASSUME NEW n \in 1 .. U, e[n - 1] \in Nat
               PROVE  e[n] \in Nat /\ e[n - 1] <= e[n]
    OBVIOUS
  <2>1. PICK a, b \in Nat : a = e[n - 1] /\ b = KILO /\ b >= 1
    BY KiloTyped
  <2>2. b * a \in Nat /\ a <= b * a
    BY <2>1
  <2> QED
    BY <1>6, <2>1, <2>2
<1>9. \A n \in 0 .. U : e[n] \in Nat /\ e[n] <= e[U]
  <2>1. L \in 0 .. L
    BY <1>1
  <2>2. e[0] \in Nat
    BY <1>6, <1>7, <2>1
  <2> QED
    BY <1>1, <1>8, <2>2, Rising
<1>10. \A n \in 0 .. U : e[n] = 0 => e[U] = 0
  <2>1. \A n \in 1 .. U : e[n - 1] = 0 => e[n] = 0
    BY <1>6, KiloTyped
  <2> QED
    BY <1>1, <2>1, Staying
<1>11. \A n \in 0 .. L : d[n] <= e[U]
  <2>1. 0 \in 0 .. U /\ L \in 0 .. L /\ U \in 0 .. U
    BY <1>1
  <2>2. d[L] <= e[U] /\ d[L] \in Nat /\ e[U] \in Nat
    BY <1>6, <1>7, <1>9, <2>1
  <2> QED
    BY <1>7, <2>2
<1>12. Bytes(s) = e[U]
  BY <1>1, <1>3, BytesScaled
<1>13. /\ Len(s) = IF HasUnit(s) THEN L + 1 ELSE L
       /\ HasUnit(s) => U = D!Factor(s[L + 1])
       /\ ~ HasUnit(s) => U = 0
  BY <1>1, SizeParts
<1>14. Sizes(s, L, U, d, e)
  BY <1>1, <1>4, <1>5, <1>6, <1>7, <1>9, <1>10, <1>11, <1>12, <1>13 DEF Sizes
<1> QED
  BY <1>2, <1>3, <1>14

(* How far the size has been read.  What has been read is digits, and at   *)
(* the end perhaps a unit; of a size that is one, and that a word can      *)
(* hold, the number is the one that the digits and the powers of 1024 so   *)
(* far make, and no error has been found.                                  *)
ReadSoFar ==
  /\ k \in 0 .. Len(size) /\ diskSize \in Nat
  /\ \A n \in 1 .. k : D!isdigit(size[n]) \/ (D!isunit(size[n]) /\ n = Len(size) /\ n > 1)
  /\ k = 0 => diskSize = 0

RightSoFar ==
  /\ ret = 0
  /\ k <= DigitCount(size) => diskSize = Read(size)[k] /\ diskSizeFactor = 0
  /\ k > DigitCount(size) =>
       /\ diskSizeFactor \in 0 .. Power(size)
       /\ diskSize = Scaled(size)[Power(size) - diskSizeFactor]

SizeInv ==
  /\ size \in Seq(STRING)
  /\ imaging = "start" => k = 0 /\ diskSize = 0 /\ diskSizeFactor = 0 /\ ret = 0
  /\ imaging = "size" => ReadSoFar /\ (Valid(size) /\ Bytes(size) < WORD => RightSoFar)

LEMMA SizeStarts ==
  ASSUME D!Init
  PROVE  SizeInv
BY BootAssumption DEF D!Init, D!InitializeConstants, SizeInv

LEMMA InitializeStarts ==
  ASSUME SizeInv, D!initialize
  PROVE  SizeInv'
<1>1. /\ imaging = "start" /\ imaging' = "size" /\ k' = 0 /\ size' = size
      /\ diskSize' = 0 /\ diskSizeFactor' = 0 /\ ret' = 0 /\ size \in Seq(STRING)
  BY DEF D!initialize, D!Goto, D!arguments, SizeInv
<1>2. Len(size) \in Nat
  BY <1>1, LenProperties
<1>3. ReadSoFar'
  BY <1>1, <1>2 DEF ReadSoFar
<1>4. ASSUME Valid(size), Bytes(size) < WORD PROVE RightSoFar'
  <2>1. PICK L, U : Sizes(size, L, U, Read(size), Scaled(size))
    BY <1>1, <1>4, SizeFacts
  <2>2. L \in Nat \ {0} /\ L = DigitCount(size) /\ Read(size)[0] = 0
    BY <2>1 DEF Sizes
  <2>3. 0 <= L /\ ~ (0 > L)
    BY <2>2
  <2> QED
    BY <1>1, <2>2, <2>3 DEF RightSoFar
<1> QED
  BY <1>1, <1>3, <1>4 DEF SizeInv

(* A digit more does not reach the end of the word.                        *)
LEMMA DigitFits ==
  ASSUME NEW d \in Nat, NEW c \in 0 .. 9, NEW e \in Nat, 10 * d + c <= e, e < WORD
  PROVE  D!TakesDigit(d) /\ (d * 10 + c) % WORD = 10 * d + c
<1>1. PICK w \in Nat : w = WORD /\ w > 0
  BY KiloTyped
<1>2. d * 10 + c = 10 * d + c /\ 0 <= 10 * d + c /\ 10 * d + c < w /\ d * 10 < w
  BY <1>1
<1>3. (10 * d + c) % w = 10 * d + c /\ (d * 10) % w = d * 10
  BY <1>1, <1>2
<1>4. d # 0 => d * 10 > d
  OBVIOUS
<1> QED
  BY <1>1, <1>2, <1>3, <1>4 DEF D!TakesDigit

(* One character of the size.                                              *)
LEMMA ReadSizeReads ==
  ASSUME SizeInv, D!readSize
  PROVE  SizeInv'
<1>1. /\ imaging = "size" /\ k < Len(size) /\ size' = size /\ size \in Seq(STRING)
      /\ ReadSoFar /\ k \in Nat /\ Len(size) \in Nat
  <2>1. imaging = "size" /\ k < Len(size) /\ size' = size /\ size \in Seq(STRING) /\ ReadSoFar
    BY DEF D!readSize, D!arguments, SizeInv
  <2> QED
    BY <2>1, LenProperties DEF ReadSoFar
<1>2. PICK ch : ch = size[k + 1]
  OBVIOUS
<1>3. CASE /\ D!isdigit(ch) /\ D!TakesDigit(diskSize)
           /\ diskSize' = (diskSize * 10 + D!Number(ch)) % WORD
           /\ k' = k + 1 /\ UNCHANGED <<imaging, diskSizeFactor, ret>>
  <2>1. D!Number(ch) \in 0 .. 9 /\ ~ D!isunit(ch)
    BY <1>3, Characters
  <2>2. diskSize' \in Nat
    <3>1. PICK a, b \in Nat : a = diskSize /\ b = D!Number(ch)
      BY <1>1, <2>1 DEF ReadSoFar
    <3>2. a * 10 + b \in Int
      OBVIOUS
    <3>3. WORD \in Nat \ {0}
      BY KiloTyped
    <3> QED
      BY <1>3, <3>1, <3>2, <3>3, Remainder
  <2>3. ReadSoFar'
    <3>1. k + 1 \in 0 .. Len(size) /\ k + 1 # 0 /\ \A n \in 1 .. (k + 1) : n \in 1 .. k \/ n = k + 1
      BY <1>1
    <3>2. \A n \in 1 .. (k + 1) :
            D!isdigit(size[n]) \/ (D!isunit(size[n]) /\ n = Len(size) /\ n > 1)
      BY <1>1, <1>2, <1>3, <3>1 DEF ReadSoFar
    <3>3. k' = k + 1 /\ size' = size
      BY <1>1, <1>3
    <3> QED
      BY <2>2, <3>1, <3>2, <3>3 DEF ReadSoFar
  <2>4. ASSUME Valid(size), Bytes(size) < WORD PROVE RightSoFar'
    <3>1. PICK L, U : Sizes(size, L, U, Read(size), Scaled(size))
      BY <1>1, <2>4, SizeFacts
    <3>2. PICK d, e : d = Read(size) /\ e = Scaled(size)
      OBVIOUS
    <3>3. /\ L \in Nat /\ L = DigitCount(size) /\ Bytes(size) = e[U]
          /\ Len(size) = IF HasUnit(size) THEN L + 1 ELSE L
          /\ U \in Nat /\ \A n \in 0 .. U : e[n] \in Nat
          /\ \A n \in 0 .. L : d[n] \in Nat /\ d[n] <= e[U]
          /\ \A n \in 1 .. L : d[n] = 10 * d[n - 1] + D!Number(size[n])
      BY <3>1, <3>2 DEF Sizes
    <3>4. k < L
      <4>1. CASE HasUnit(size)
        <5>1. D!isunit(size[Len(size)])
          BY <4>1 DEF HasUnit
        <5>2. k + 1 # L + 1
          BY <1>2, <2>1, <3>3, <4>1, <5>1
        <5> QED
          BY <1>1, <3>3, <4>1, <5>2
      <4>2. CASE ~ HasUnit(size)
        BY <1>1, <3>3, <4>2
      <4> QED
        BY <4>1, <4>2
    <3>5. PICK n \in Nat : n = k + 1 /\ n - 1 = k /\ n \in 1 .. L /\ n \in 0 .. L /\ k \in 0 .. L
                           /\ ~ (n > L) /\ n <= L /\ k <= L
      BY <1>1, <3>3, <3>4
    <3>6. RightSoFar
      BY <1>1, <2>4 DEF SizeInv
    <3>7. diskSize = d[k] /\ diskSizeFactor = 0 /\ ret = 0
      BY <3>2, <3>3, <3>5, <3>6 DEF RightSoFar
    <3>8. PICK a \in Nat, c \in 0 .. 9, b \in Nat : a = d[k] /\ c = D!Number(ch) /\ b = e[U]
      <4>1. U \in 0 .. U
        BY <3>3
      <4> QED
        BY <2>1, <3>3, <3>5, <4>1
    <3>9. d[n] = 10 * a + c /\ d[n] <= b /\ b < WORD
      BY <1>2, <2>4, <3>3, <3>5, <3>8
    <3>10. (a * 10 + c) % WORD = 10 * a + c
      BY <3>9, DigitFits
    <3>11. diskSize' = d[n]
      BY <1>3, <3>7, <3>8, <3>9, <3>10
    <3>12. k' = n /\ diskSizeFactor' = 0 /\ ret' = 0
      BY <1>3, <3>5, <3>7
    <3> QED
      BY <1>1, <3>2, <3>3, <3>5, <3>11, <3>12 DEF RightSoFar
  <2> QED
    BY <1>1, <1>3, <2>3, <2>4 DEF SizeInv
<1>4. CASE /\ D!isunit(ch) /\ k > 0 /\ k + 1 = Len(size)
           /\ diskSizeFactor' = D!Factor(ch)
           /\ k' = k + 1 /\ UNCHANGED <<imaging, diskSize, ret>>
  <2>1. ReadSoFar'
    <3>1. /\ k + 1 \in 0 .. Len(size) /\ k + 1 # 0 /\ k + 1 > 1
          /\ \A n \in 1 .. (k + 1) : n \in 1 .. k \/ n = k + 1
      BY <1>1, <1>4
    <3> QED
      BY <1>1, <1>2, <1>4, <3>1 DEF ReadSoFar
  <2>2. ASSUME Valid(size), Bytes(size) < WORD PROVE RightSoFar'
    <3>1. PICK L, U : Sizes(size, L, U, Read(size), Scaled(size))
      BY <1>1, <2>2, SizeFacts
    <3>2. HasUnit(size)
      <4>1. size # <<>>
        BY <1>1
      <4> QED
        BY <1>2, <1>4, <4>1 DEF HasUnit
    <3>3. /\ L \in Nat /\ L = DigitCount(size) /\ Len(size) = L + 1
          /\ U \in Nat /\ U = Power(size) /\ U = D!Factor(size[L + 1])
          /\ Scaled(size)[0] = Read(size)[L]
      BY <3>1, <3>2 DEF Sizes
    <3>4. k = L /\ k <= L /\ U = D!Factor(ch) /\ k' > L /\ ~ (k' <= L)
      BY <1>1, <1>2, <1>4, <3>3
    <3>5. RightSoFar
      BY <1>1, <2>2 DEF SizeInv
    <3>6. diskSize = Read(size)[L] /\ ret = 0
      BY <3>3, <3>4, <3>5 DEF RightSoFar
    <3>7. diskSize' = Scaled(size)[U - U] /\ diskSizeFactor' = U /\ U \in 0 .. U
      BY <1>4, <3>3, <3>4, <3>6
    <3> QED
      BY <1>1, <1>4, <3>3, <3>4, <3>6, <3>7 DEF RightSoFar
  <2> QED
    BY <1>1, <1>4, <2>1, <2>2 DEF SizeInv
<1>5. CASE imaging' = "end"
  BY <1>1, <1>5 DEF SizeInv
<1> QED
  BY <1>2, <1>3, <1>4, <1>5 DEF D!readSize, D!Fail, D!Goto

(* One power of 1024 more does not reach it either.                        *)
LEMMA PowerFits ==
  ASSUME NEW d \in Nat \ {0}, NEW e \in Nat, KILO * d <= e, e < WORD
  PROVE  (d * KILO) % WORD = KILO * d /\ KILO * d > d
<1>1. PICK q, w \in Nat : q = KILO /\ q >= 2 /\ w = WORD /\ w > 0
  BY KiloTyped
<1>2. PICK m \in Nat : m = q * d /\ m = d * q /\ m > d
  <2>1. q * d = d * q /\ q * d = (q - 2) * d + 2 * d /\ (q - 2) * d >= 0 /\ q * d \in Nat
    BY <1>1
  <2>2. q * d > d
    BY <2>1
  <2> QED
    BY <2>1, <2>2
<1>3. m < w /\ m % w = m
  BY <1>1, <1>2
<1> QED
  BY <1>1, <1>2, <1>3

LEMMA ScaleScales ==
  ASSUME SizeInv, D!scale
  PROVE  SizeInv'
<1>1. /\ imaging = "size" /\ imaging' = "size" /\ size' = size /\ k' = k /\ k = Len(size)
      /\ size \in Seq(STRING) /\ ReadSoFar /\ Len(size) \in Nat
      /\ diskSize > 0 /\ diskSizeFactor > 0 /\ diskSizeFactor' = diskSizeFactor - 1
      /\ \/ (diskSize * KILO) % WORD > diskSize /\ diskSize' = (diskSize * KILO) % WORD /\ ret' = ret
         \/ (diskSize * KILO) % WORD <= diskSize /\ ret' = 1 /\ diskSize' = diskSize
  <2>1. /\ imaging = "size" /\ imaging' = "size" /\ size' = size /\ k' = k /\ k = Len(size)
        /\ size \in Seq(STRING) /\ ReadSoFar
    BY DEF D!scale, D!arguments, SizeInv
  <2> QED
    BY <2>1, LenProperties DEF D!scale, D!LessOne
<1>2. diskSize' \in Nat
  <2>1. PICK a, b \in Nat : a = diskSize /\ b = KILO
    BY <1>1, KiloTyped DEF ReadSoFar
  <2>2. a * b \in Int
    OBVIOUS
  <2>3. WORD \in Nat \ {0}
    BY KiloTyped
  <2> QED
    BY <1>1, <2>1, <2>2, <2>3, Remainder
<1>3. ReadSoFar'
  BY <1>1, <1>2 DEF ReadSoFar
<1>4. ASSUME Valid(size), Bytes(size) < WORD PROVE RightSoFar'
  <2>1. PICK L, U : Sizes(size, L, U, Read(size), Scaled(size))
    BY <1>1, <1>4, SizeFacts
  <2>2. PICK e : e = Scaled(size)
    OBVIOUS
  <2>3. /\ L \in Nat /\ L = DigitCount(size) /\ U \in Nat /\ U = Power(size)
        /\ Len(size) = IF HasUnit(size) THEN L + 1 ELSE L
        /\ Bytes(size) = e[U]
        /\ \A n \in 0 .. U : e[n] \in Nat /\ e[n] <= e[U]
        /\ \A n \in 1 .. U : e[n] = KILO * e[n - 1]
    BY <2>1, <2>2 DEF Sizes
  <2>4. RightSoFar
    BY <1>1, <1>4 DEF SizeInv
  <2>5. k > L /\ ~ (k <= L)
    <3>1. k <= L => diskSizeFactor = 0
      BY <2>3, <2>4 DEF RightSoFar
    <3>2. ~ (k <= L)
      BY <1>1, <3>1
    <3> QED
      BY <1>1, <2>3, <3>2
  <2>6. diskSizeFactor \in 0 .. U /\ diskSize = e[U - diskSizeFactor] /\ ret = 0
    BY <2>2, <2>3, <2>4, <2>5 DEF RightSoFar
  <2>7. PICK f \in 1 .. U : f = diskSizeFactor
    BY <1>1, <2>6
  <2>8. PICK n \in 1 .. U : n = U - (f - 1) /\ n - 1 = U - f /\ n \in 0 .. U /\ n - 1 \in 0 .. U
                            /\ f - 1 \in 0 .. U /\ U \in 0 .. U
    <3>1. PICK u, g \in Int : u = U /\ g = f /\ g >= 1 /\ g <= u /\ u >= 0
      BY <2>3, <2>7
    <3>2. /\ u - (g - 1) \in 1 .. u /\ (u - (g - 1)) - 1 = u - g
          /\ u - (g - 1) \in 0 .. u /\ u - g \in 0 .. u /\ g - 1 \in 0 .. u /\ u \in 0 .. u
      BY <3>1
    <3> QED
      BY <3>1, <3>2
  <2>9. PICK a \in Nat \ {0}, b \in Nat : a = e[n - 1] /\ b = e[U] /\ a = diskSize
    <3>1. e[n - 1] \in Nat /\ e[U] \in Nat
      BY <2>3, <2>8
    <3>2. e[n - 1] = diskSize
      BY <2>6, <2>7, <2>8
    <3>3. e[n - 1] # 0
      BY <1>1, <3>2
    <3> QED
      BY <3>1, <3>2, <3>3
  <2>10. e[n] = KILO * a /\ e[n] <= b /\ b < WORD
    BY <1>4, <2>3, <2>8, <2>9
  <2>11. (a * KILO) % WORD = KILO * a /\ KILO * a > a /\ KILO * a \in Nat
    <3>1. KILO * a <= b
      BY <2>10
    <3>2. (a * KILO) % WORD = KILO * a /\ KILO * a > a
      BY <2>10, <3>1, PowerFits
    <3> QED
      BY <2>3, <2>8, <2>10, <3>2
  <2>12. diskSize' = e[n] /\ ret' = 0
    <3>1. ~ (KILO * a <= a)
      BY <2>11
    <3> QED
      BY <1>1, <2>6, <2>9, <2>10, <2>11, <3>1
  <2>13. diskSizeFactor' = f - 1
    BY <1>1, <2>7
  <2> QED
    BY <1>1, <2>2, <2>3, <2>5, <2>8, <2>12, <2>13 DEF RightSoFar
<1> QED
  BY <1>1, <1>3, <1>4 DEF SizeInv

(* No other step of the tool leads back to the size.                       *)
LEMMA SizeIsPast ==
  ASSUME SizeInv,
         \/ D!checkSize \/ D!openFails \/ D!openDisk \/ D!writeFails \/ D!fill \/ D!format
         \/ D!writeMBR \/ D!copy \/ D!copied
  PROVE  SizeInv'
<1>1. size' = size /\ imaging' \notin {"start", "size"}
  BY DEF D!checkSize, D!openFails, D!openDisk, D!OpensDisk, D!writeFails, D!fill, D!format,
     D!writeMBR, D!copy, D!copied, D!Goto, D!Fail, D!arguments
<1> QED
  BY <1>1 DEF SizeInv

LEMMA SizeWaits ==
  ASSUME SizeInv, UNCHANGED tool
  PROVE  SizeInv'
<1>1. UNCHANGED <<size, imaging, k, diskSize, diskSizeFactor, ret>>
  BY DEF tool
<1> QED
  BY <1>1 DEF SizeInv, ReadSoFar, RightSoFar

(* The number read so far is the one the string spells so far.             *)
THEOREM SizeInvariant == Spec => []SizeInv
<1>1. Init => SizeInv
  BY SizeStarts DEF Init
<1>2. SizeInv /\ [Next]_vars => SizeInv'
  <2> SUFFICES ASSUME SizeInv, [Next]_vars PROVE SizeInv'
    OBVIOUS
  <2>1. CASE image
    BY <2>1, InitializeStarts, ReadSizeReads, ScaleScales, SizeIsPast DEF image, D!Step
  <2>2. CASE UNCHANGED tool
    BY <2>2, SizeWaits
  <2> QED
    BY <2>1, <2>2 DEF Next, Code, pack, start, write, vars
<1> QED
  BY <1>1, <1>2, PTL DEF Spec

(* When all has been read, nothing in the string is out of place.          *)
LEMMA AllRead ==
  ASSUME size \in Seq(STRING), ReadSoFar, k = Len(size), diskSize > 0
  PROVE  Valid(size)
<1>1. Len(size) \in Nat /\ Len(size) > 0
  <2>1. Len(size) \in Nat
    BY LenProperties
  <2>2. k # 0
    BY DEF ReadSoFar
  <2> QED
    BY <2>1, <2>2
<1>2. \A n \in 1 .. Len(size) :
        D!isdigit(size[n]) \/ (D!isunit(size[n]) /\ n = Len(size) /\ n > 1)
  BY DEF ReadSoFar
<1>3. CASE HasUnit(size)
  <2>1. D!isunit(size[Len(size)]) /\ DigitCount(size) = Len(size) - 1
    BY <1>3 DEF HasUnit, DigitCount
  <2>2. ~ D!isdigit(size[Len(size)])
    BY <2>1, Characters
  <2>3. Len(size) > 1
    BY <1>1, <1>2, <2>2
  <2>4. \A n \in 1 .. (Len(size) - 1) : n \in 1 .. Len(size) /\ n # Len(size)
    BY <1>1
  <2>5. \A n \in 1 .. DigitCount(size) : D!isdigit(size[n])
    BY <1>2, <2>1, <2>4
  <2>6. DigitCount(size) > 0
    BY <1>1, <2>1, <2>3
  <2> QED
    BY <2>5, <2>6 DEF Valid
<1>4. CASE ~ HasUnit(size)
  <2>1. DigitCount(size) = Len(size)
    BY <1>4 DEF DigitCount
  <2>2. ~ D!isunit(size[Len(size)])
    <3>1. size # <<>>
      BY <1>1
    <3> QED
      BY <1>4, <3>1 DEF HasUnit
  <2>3. \A n \in 1 .. Len(size) : D!isdigit(size[n])
    BY <1>2, <2>2
  <2> QED
    BY <1>1, <2>1, <2>3 DEF Valid
<1> QED
  BY <1>3, <1>4

(* What the tool goes on with is the size.                                 *)
LEMMA CheckedIsRead ==
  ASSUME SizeInv, D!checkSize, Valid(size), Bytes(size) < WORD
  PROVE  diskSize = Bytes(size) /\ ret = 0 /\ Bytes(size) \in Nat
<1>1. /\ size \in Seq(STRING) /\ ReadSoFar /\ RightSoFar /\ k = Len(size) /\ Len(size) \in Nat
      /\ diskSize = 0 \/ diskSizeFactor = 0
  <2>1. /\ size \in Seq(STRING) /\ ReadSoFar /\ RightSoFar /\ k = Len(size)
        /\ diskSize = 0 \/ diskSizeFactor = 0
    BY DEF D!checkSize, SizeInv
  <2> QED
    BY <2>1, LenProperties
<1>2. PICK L, U : Sizes(size, L, U, Read(size), Scaled(size))
  BY <1>1, SizeFacts
<1>3. PICK e : e = Scaled(size)
  OBVIOUS
<1>4. /\ L \in Nat /\ L = DigitCount(size) /\ U \in Nat /\ U = Power(size)
      /\ Len(size) = IF HasUnit(size) THEN L + 1 ELSE L
      /\ ~ HasUnit(size) => U = 0
      /\ e[0] = Read(size)[L] /\ Bytes(size) = e[U]
      /\ \A n \in 0 .. U : e[n] \in Nat /\ (e[n] = 0 => e[U] = 0)
  BY <1>2, <1>3 DEF Sizes
<1>5. U \in 0 .. U /\ 0 \in 0 .. U
  BY <1>4
<1>6. CASE HasUnit(size)
  <2>1. k > L
    BY <1>1, <1>4, <1>6
  <2>2. diskSizeFactor \in 0 .. U /\ diskSize = e[U - diskSizeFactor] /\ ret = 0
    BY <1>1, <1>3, <1>4, <2>1 DEF RightSoFar
  <2>3. U - diskSizeFactor \in 0 .. U /\ (diskSizeFactor = 0 => U - diskSizeFactor = U)
    BY <1>4, <2>2
  <2>4. diskSize = e[U]
    BY <1>1, <1>4, <2>2, <2>3
  <2> QED
    BY <1>4, <1>5, <2>2, <2>4
<1>7. CASE ~ HasUnit(size)
  <2>1. k = L /\ k <= L /\ U = 0
    BY <1>1, <1>4, <1>7
  <2>2. diskSize = e[U] /\ ret = 0
    BY <1>1, <1>4, <2>1 DEF RightSoFar
  <2> QED
    BY <1>4, <1>5, <2>2
<1> QED
  BY <1>6, <1>7

(* A size that is one, and that a word can hold, is read without error.    *)
LEMMA ReadSizeFinds ==
  ASSUME SizeInv, D!readSize, Valid(size), Bytes(size) < WORD
  PROVE  imaging' # "end"
<1>1. /\ imaging = "size" /\ k < Len(size) /\ size \in Seq(STRING)
      /\ ReadSoFar /\ RightSoFar /\ k \in Nat /\ Len(size) \in Nat
  <2>1. imaging = "size" /\ k < Len(size) /\ size \in Seq(STRING) /\ ReadSoFar /\ RightSoFar
    BY DEF D!readSize, SizeInv
  <2> QED
    BY <2>1, LenProperties DEF ReadSoFar
<1>2. PICK L, U : Sizes(size, L, U, Read(size), Scaled(size))
  BY <1>1, SizeFacts
<1>3. PICK d, e : d = Read(size) /\ e = Scaled(size)
  OBVIOUS
<1>4. /\ L \in Nat \ {0} /\ L = DigitCount(size) /\ Bytes(size) = e[U]
      /\ Len(size) = IF HasUnit(size) THEN L + 1 ELSE L
      /\ U \in Nat /\ \A n \in 0 .. U : e[n] \in Nat
      /\ \A n \in 0 .. L : d[n] \in Nat /\ d[n] <= e[U]
      /\ \A n \in 1 .. L : d[n] = 10 * d[n - 1] + D!Number(size[n])
      /\ \A n \in 1 .. L : D!isdigit(size[n]) /\ D!Number(size[n]) \in 0 .. 9
  BY <1>2, <1>3 DEF Sizes
<1>5. CASE k < L
  <2>1. PICK n \in 1 .. L : n = k + 1 /\ n - 1 = k /\ n \in 0 .. L /\ k \in 0 .. L /\ k <= L
    BY <1>1, <1>4, <1>5
  <2>2. diskSize = d[k]
    BY <1>1, <1>3, <1>4, <2>1 DEF RightSoFar
  <2>3. PICK a \in Nat, c \in 0 .. 9, b \in Nat : a = d[k] /\ c = D!Number(size[n]) /\ b = e[U]
    <3>1. U \in 0 .. U
      BY <1>4
    <3> QED
      BY <1>4, <2>1, <3>1
  <2>4. 10 * a + c <= b /\ b < WORD
    BY <1>4, <2>1, <2>3
  <2>5. D!TakesDigit(a)
    BY <2>4, DigitFits
  <2>6. D!isdigit(size[k + 1]) /\ D!TakesDigit(diskSize)
    BY <1>4, <2>1, <2>2, <2>3, <2>5
  <2> QED
    BY <1>1, <2>6 DEF D!readSize
<1>6. CASE ~ (k < L)
  <2>1. HasUnit(size) /\ k + 1 = Len(size) /\ k > 0
    BY <1>1, <1>4, <1>6
  <2>2. D!isunit(size[k + 1]) /\ ~ D!isdigit(size[k + 1])
    <3>1. D!isunit(size[k + 1])
      BY <2>1 DEF HasUnit
    <3> QED
      BY <3>1, Characters
  <2> QED
    BY <1>1, <2>1, <2>2 DEF D!readSize
<1> QED
  BY <1>5, <1>6

LEMMA SizeDecided ==
  ASSUME SizeInv, [Next]_vars, imaging = "size", imaging' # "size"
  PROVE  IF ~ Valid(size) THEN imaging' = "end"
         ELSE Bytes(size) < WORD =>
                /\ imaging' = "open" <=> Bytes(size) >= minimumDiskSize
                /\ imaging' = "open" => diskSize = Bytes(size)
<1>1. D!readSize \/ D!checkSize
  BY DEF Next, Code, pack, image, start, write, vars, tool, D!Step, D!initialize, D!scale, D!openFails,
     D!openDisk, D!OpensDisk, D!writeFails, D!fill, D!format, D!writeMBR, D!copy, D!copied
<1>2. CASE D!checkSize
  <2>1. /\ k = Len(size) /\ size \in Seq(STRING) /\ ReadSoFar
        /\ \/ ret = 0 /\ diskSize >= minimumDiskSize /\ imaging' = "open"
           \/ ~ (ret = 0 /\ diskSize >= minimumDiskSize) /\ imaging' = "end"
    BY <1>2 DEF D!checkSize, D!Goto, D!Fail, SizeInv
  <2>2. ASSUME ~ Valid(size) PROVE imaging' = "end"
    <3>1. diskSize \in Nat /\ minimumDiskSize \in Nat \ {0}
      BY <2>1, BootAssumption DEF ReadSoFar, D!InitializeConstants
    <3>2. ~ (diskSize > 0)
      BY <2>1, <2>2, AllRead
    <3>3. ~ (diskSize >= minimumDiskSize)
      BY <3>1, <3>2
    <3> QED
      BY <2>1, <3>3
  <2>3. ASSUME Valid(size), Bytes(size) < WORD
        PROVE  /\ imaging' = "open" <=> Bytes(size) >= minimumDiskSize
               /\ imaging' = "open" => diskSize = Bytes(size)
    <3>1. diskSize = Bytes(size) /\ ret = 0
      BY <1>2, <2>3, CheckedIsRead
    <3> QED
      BY <2>1, <3>1
  <2> QED
    BY <2>2, <2>3
<1>3. CASE D!readSize
  <2>1. imaging' = "end" /\ ret' = 1
    BY <1>3 DEF D!readSize, D!Fail, D!Goto
  <2>2. ASSUME Valid(size), Bytes(size) < WORD PROVE FALSE
    BY <1>3, <2>1, <2>2, ReadSizeFinds
  <2> QED
    BY <2>1, <2>2
<1> QED
  BY <1>1, <1>2, <1>3

(* A size that a word can hold is read as what it is, and what is no size  *)
(* is refused, whatever digits and units it is made of.                    *)
THEOREM SizeIsRead == Spec => SizeRead
<1>1. SizeInv /\ [Next]_vars =>
        [imaging = "size" /\ imaging' # "size" =>
           IF ~ Valid(size) THEN imaging' = "end"
           ELSE Bytes(size) < WORD =>
                  /\ imaging' = "open" <=> Bytes(size) >= minimumDiskSize
                  /\ imaging' = "open" => diskSize = Bytes(size)]_vars
  BY SizeDecided
<1> QED
  BY <1>1, SizeInvariant, PTL DEF Spec, SizeRead
=============================================================================
