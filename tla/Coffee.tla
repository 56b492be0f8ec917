--------------------------------- MODULE Coffee ---------------------------------
(***************************************************************************)
(* The Coffee file system (os/storage/cfs/cfs-coffee.c): files are extents *)
(* of contiguous pages with a header; what is written over goes to a micro *)
(* log, an invisible file, which is merged with its file into a new extent *)
(* when it is full or the file has to grow; removed extents are obsolete   *)
(* until the garbage collector erases their sectors.                       *)
(*                                                                         *)
(* A call is one step here, unless the node goes down at one of its writes *)
(* to the flash: a call is computed on a record m of the file system, and  *)
(* m.past has the flash as it was before each write.                       *)
(*                                                                         *)
(* Data are units of a log record and a page, the header taking a page as  *)
(* well and being written at once; a write of several units is several     *)
(* writes.  The pages of a sector are a power of two, and the index of a   *)
(* log fits in COFFEE_LOG_TABLE_LIMIT.  Left out: seeking past the end,    *)
(* io_flags, configured logs, directories, and the collection after a      *)
(* removal, which COFFEE_EXTENDED_WEAR_LEVELLING turns off.                *)
(***************************************************************************)
EXTENDS Integers, Sequences, FiniteSets, FiniteSetsExt

CONSTANTS
  Name,
  Data,                     (* what is written, never 0                     *)
  NULL,
  COFFEE_SECTOR_COUNT,
  COFFEE_PAGES_PER_SECTOR,
  COFFEE_MAX_OPEN_FILES,
  COFFEE_FD_SET_SIZE,
  DynPages,                 (* page_count(COFFEE_DYN_SIZE)                  *)
  LogPages,                 (* the pages of a micro log and                 *)
  log_records,              (* its records                                  *)
  ReservePages,             (* the sizes each file may be reserved with      *)
  Flags,                    (* what each file may be opened for             *)
  MaxUnits                  (* bound: the length of each file               *)

ASSUME CoffeeAssumption ==
  /\ {COFFEE_SECTOR_COUNT, COFFEE_PAGES_PER_SECTOR, DynPages, LogPages, log_records} \subseteq Nat \ {0}
  /\ {COFFEE_MAX_OPEN_FILES, COFFEE_FD_SET_SIZE} \subseteq Nat
  /\ MaxUnits \in [Name -> Nat]
  /\ ReservePages \in [Name -> SUBSET (Nat \ {0})]
  /\ Flags \in [Name -> SUBSET ((SUBSET {"CFS_READ", "CFS_WRITE", "CFS_APPEND"}) \ {{}})]
  /\ NULL \notin Name /\ Data \cap {0, NULL} = {}

VARIABLES
  flash,       (* a header, the data and the log records of each page       *)
  files,       (* coffee_files                                              *)
  fds,         (* coffee_fd_set                                             *)
  next_free,
  gc_wait,
  content,     (* history: what was written to each file, or NULL           *)
  hit          (* history: the file being worked on when the node went down *)

vars == <<flash, files, fds, next_free, gc_wait, content, hit>>

COFFEE_PAGE_COUNT == COFFEE_SECTOR_COUNT * COFFEE_PAGES_PER_SECTOR
Page == 0 .. COFFEE_PAGE_COUNT - 1
Slot == 1 .. COFFEE_MAX_OPEN_FILES
Fd   == 1 .. COFFEE_FD_SET_SIZE

FreeHeader == [flags |-> {}, log_page |-> NULL, max_pages |-> 0, name |-> NULL]
FreeFile == [page |-> NULL, max_pages |-> 0, end |-> NULL, record_count |-> -1,
             references |-> 0, modified |-> FALSE]
FreeFd == [file |-> NULL, flags |-> {}, offset |-> 0]

Blank ==
  [header |-> [p \in Page |-> FreeHeader], data |-> [p \in Page |-> 0], log |-> [p \in Page |-> << >>]]

Init ==
  /\ flash = Blank
  /\ files = [i \in Slot |-> FreeFile]
  /\ fds = [d \in Fd |-> FreeFd]
  /\ next_free = 0
  /\ gc_wait = FALSE
  /\ content = [n \in Name |-> NULL]
  /\ hit = NULL

--------------------------------------------------------------------------------
(* Headers, extents and their contents.                                    *)

HDR_ALLOCATED(h) == "ALLOCATED" \in h.flags
HDR_OBSOLETE(h)  == "OBSOLETE" \in h.flags
HDR_ISOLATED(h)  == "ISOLATED" \in h.flags
HDR_LOG(h)       == "LOG" \in h.flags
HDR_MODIFIED(h)  == "MODIFIED" \in h.flags
HDR_ACTIVE(h)    == HDR_ALLOCATED(h) /\ ~HDR_OBSOLETE(h) /\ ~HDR_ISOLATED(h)
Is(h, name) == HDR_ACTIVE(h) /\ ~HDR_LOG(h) /\ h.name = name

\* write_header, COFFEE_WRITE of a unit and of log record k, and COFFEE_ERASE
Written(m, fl) == [m EXCEPT !.flash = fl, !.past = Append(@, m.flash)]
write_header(m, p, h) == Written(m, [m.flash EXCEPT !.header[p] = h])
WriteUnit(m, p, v) == Written(m, [m.flash EXCEPT !.data[p] = v])
WriteRecord(m, p, k, record) ==
  LET log == m.flash.log[p]
      new == [j \in 1 .. Max({Len(log), k + 1}) |-> IF j = k + 1 THEN record ELSE log[j]]
  IN  Written(m, [m.flash EXCEPT !.log[p] = new])
COFFEE_ERASE(m, sector) ==
  LET on == sector * COFFEE_PAGES_PER_SECTOR .. (sector + 1) * COFFEE_PAGES_PER_SECTOR - 1
  IN  Written(m, [header |-> [p \in Page |-> IF p \in on THEN FreeHeader ELSE m.flash.header[p]],
                  data |-> [p \in Page |-> IF p \in on THEN 0 ELSE m.flash.data[p]],
                  log |-> [p \in Page |-> IF p \in on THEN << >> ELSE m.flash.log[p]]])

next_file(header, p) ==
  IF ~HDR_ALLOCATED(header[p]) THEN (p \div COFFEE_PAGES_PER_SECTOR + 1) * COFFEE_PAGES_PER_SECTOR
  ELSE IF HDR_ISOLATED(header[p]) THEN p + 1
  ELSE p + header[p].max_pages

\* the extents a scan of the flash comes to
Scanned(header) ==
  LET from[p \in Nat] == IF p >= COFFEE_PAGE_COUNT THEN {}
                         ELSE {p} \cup from[next_file(header, p)]
  IN  from[0]

\* page of unit u of an extent, and the units in use in it, up to the last one written
At(p, u) == p + 1 + u
file_end(fl, p) ==
  Max({0} \cup {u + 1 : u \in {u \in 0 .. fl.header[p].max_pages - 2 : fl.data[At(p, u)] # 0}})

\* get_record_index, read_log_page: unit u by the first n records of the log, or else of the extent
Unit(fl, p, modified, n, u) ==
  LET log  == fl.log[fl.header[p].log_page]
      hits == {k \in 1 .. Min({n, Len(log)}) : log[k].region = u}
  IN  IF modified /\ hits # {} THEN log[Max(hits)].unit ELSE fl.data[At(p, u)]
Records(f) == IF f.record_count < 0 THEN log_records ELSE f.record_count

\* cfs_read, all of a file
Contents(fl, f) == [i \in 1 .. f.end |-> Unit(fl, f.page, f.modified, Records(f), i - 1)]

--------------------------------------------------------------------------------
(* The garbage collector.                                                  *)

\* the headers of a sector from page p on
Counted(header, sector, from) ==
  LET end == (sector + 1) * COFFEE_PAGES_PER_SECTOR
      none == [active |-> 0, obsolete |-> 0, free |-> 0, last |-> NULL]
      Last(r, b) == IF r.last = NULL THEN b ELSE r.last
      count[p \in Nat] ==
        IF p >= end THEN none
        ELSE LET h == header[p]
                 r == count[next_file(header, p)]
             IN  IF HDR_ACTIVE(h) THEN [r EXCEPT !.active = @ + h.max_pages, !.last = Last(r, TRUE)]
                 ELSE IF HDR_ISOLATED(h) THEN [r EXCEPT !.obsolete = @ + 1, !.last = Last(r, FALSE)]
                 ELSE IF HDR_OBSOLETE(h) THEN [r EXCEPT !.obsolete = @ + h.max_pages, !.last = Last(r, FALSE)]
                 ELSE [none EXCEPT !.free = end - p, !.last = FALSE]
  IN  count[from]

(* get_sector_status: skip pages of the sector belong to an extent before  *)
(* it, which is active if last; isolate pages of the next one to an        *)
(* obsolete extent that ends there.                                        *)
get_sector_status(header, sector, skip, last) ==
  LET n == COFFEE_PAGES_PER_SECTOR
      Status(c) ==
        LET active == c.active + (IF last THEN skip ELSE 0)
            obsolete == c.obsolete + (IF last THEN 0 ELSE skip)
            more == active + obsolete + c.free - n
        IN  [active |-> IF more > 0 /\ c.last THEN n - obsolete ELSE active,
             obsolete |-> IF more > 0 /\ ~c.last THEN n - active ELSE obsolete,
             skip |-> more, last |-> c.last,
             isolate |-> IF c.last \/ more >= n THEN 0 ELSE more]
  IN  IF skip >= n
      THEN [active |-> IF last THEN n ELSE 0, obsolete |-> IF last THEN 0 ELSE n,
            skip |-> skip - n, last |-> last,
            isolate |-> IF last \/ skip - n >= n THEN 0 ELSE skip - n]
      ELSE Status(Counted(header, sector, sector * n + skip))

isolate_pages(m, start, n) ==
  LET iso[k \in 0 .. n] ==
        IF k = 0 THEN m
        ELSE write_header(iso[k - 1], start + k - 1, [FreeHeader EXCEPT !.flags = {"ALLOCATED", "ISOLATED"}])
  IN  iso[n]

(* collect_garbage, in greedy mode: the sectors below k                    *)
collect_garbage(m) ==
  LET first_page(sector) == sector * COFFEE_PAGES_PER_SECTOR
      After(before, sector, s) ==
        [m |-> IF s.active > 0 \/ s.obsolete = 0 THEN before
               ELSE COFFEE_ERASE(isolate_pages([before EXCEPT !.next_free = Min({@, first_page(sector)})],
                                               first_page(sector + 1), s.isolate), sector),
         skip |-> s.skip, last |-> s.last]
      Collect(r, sector) ==
        After(r.m, sector, get_sector_status(r.m.flash.header, sector, r.skip, r.last))
      gc[k \in 0 .. COFFEE_SECTOR_COUNT] ==
        IF k = 0 THEN [m |-> m, skip |-> 0, last |-> FALSE] ELSE Collect(gc[k - 1], k - 1)
  IN  gc[COFFEE_SECTOR_COUNT].m

--------------------------------------------------------------------------------
(* Files: each operator gives the file system after the call and a result. *)

\* load_file: a free slot, or else the last that is not referenced
load_file(m, p) ==
  LET free == {i \in Slot : m.files[i].max_pages = 0}
      unreferenced == {i \in Slot : m.files[i].references = 0}
      i == IF free # {} THEN Min(free) ELSE Max(unreferenced)
      h == m.flash.header[p]
  IN  IF free = {} /\ unreferenced = {} THEN [m |-> m, file |-> NULL]
      ELSE [m |-> [m EXCEPT !.files[i] = [FreeFile EXCEPT !.page = p, !.max_pages = h.max_pages,
                                            !.modified = HDR_MODIFIED(h)]],
            file |-> i]

find_file(m, name) ==
  LET cached == {i \in Slot : m.files[i].max_pages > 0 /\ Is(m.flash.header[m.files[i].page], name)}
      found == {p \in Scanned(m.flash.header) : Is(m.flash.header[p], name)}
  IN  IF cached # {} THEN [m |-> m, file |-> Min(cached)]
      ELSE IF found # {} THEN load_file(m, Min(found))
      ELSE [m |-> m, file |-> NULL]

find_contiguous_pages(m, amount) ==
  LET header == m.flash.header
      \* from page p on, with the free pages before it from start on
      find[p \in Nat, start \in Page \cup {NULL}] ==
        IF p >= COFFEE_PAGE_COUNT THEN NULL
        ELSE IF HDR_ALLOCATED(header[p]) THEN find[next_file(header, p), NULL]
        ELSE LET first == IF start = NULL THEN p ELSE start
             IN  IF start = NULL /\ first + amount >= COFFEE_PAGE_COUNT THEN NULL
                 ELSE IF first + amount <= next_file(header, p) THEN first
                 ELSE find[next_file(header, p), first]
      start == find[m.next_free, NULL]
  IN  [m |-> IF start = m.next_free THEN [m EXCEPT !.next_free = start + amount] ELSE m,
       page |-> start]

reserve(m, name, pages, flags) ==
  LET Again(try) ==
        IF try.page = NULL /\ ~m.gc_wait THEN find_contiguous_pages(collect_garbage(m), pages) ELSE try
      h == [FreeHeader EXCEPT !.flags = {"ALLOCATED"} \cup flags, !.name = name, !.max_pages = pages]
      Loaded(r) == IF r.file = NULL THEN r ELSE [r EXCEPT !.m.files[r.file].end = 0]
      Allocated(got) ==
        IF got.page = NULL THEN [m |-> [got.m EXCEPT !.gc_wait = TRUE], file |-> NULL]
        ELSE Loaded(load_file(write_header(got.m, got.page, h), got.page))
  IN  Allocated(Again(find_contiguous_pages(m, pages)))

(* remove_by_page, without and with the log.  What an obsolete extent      *)
(* holds is not told apart: it is junk, and not free.                      *)
Obsolete(m, p, close_fds) ==
  LET h == [FreeHeader EXCEPT !.flags = {"ALLOCATED", "OBSOLETE"}, !.max_pages = m.flash.header[p].max_pages]
      on == p + 1 .. p + h.max_pages - 1
      w == Written(m, [header |-> [m.flash.header EXCEPT ![p] = h],
                       data |-> [q \in Page |-> IF q \in on THEN NULL ELSE m.flash.data[q]],
                       log |-> [m.flash.log EXCEPT ![p] = << >>]])
  IN  [w EXCEPT
        !.gc_wait = FALSE,
        !.fds = [d \in Fd |-> IF close_fds /\ @[d].file # NULL /\ m.files[@[d].file].page = p
                              THEN [@[d] EXCEPT !.flags = {}] ELSE @[d]],
        !.files = [i \in Slot |-> IF @[i].page = p
                                  THEN [@[i] EXCEPT !.page = NULL, !.references = 0, !.max_pages = 0] ELSE @[i]]]
\* mutant of remove_by_page
remove_by_pageOnly(m, p, close_fds) ==
  LET h == m.flash.header[p]
  IN  IF HDR_ACTIVE(h) THEN [m |-> Obsolete(m, p, close_fds), ok |-> TRUE]
      ELSE [m |-> m, ok |-> FALSE]
remove_by_page(m, p, close_fds) ==
  LET h == m.flash.header[p]
      no_log == ~HDR_MODIFIED(h) \/ HDR_ACTIVE(m.flash.header[h.log_page])
      cleared == IF HDR_MODIFIED(h) THEN Obsolete(m, h.log_page, FALSE) ELSE m
  IN  IF HDR_ACTIVE(h) /\ no_log THEN [m |-> Obsolete(cleared, p, close_fds), ok |-> TRUE]
      ELSE [m |-> m, ok |-> FALSE]

cfs_open(m, name, flags) ==
  LET free == {d \in Fd : m.fds[d].flags = {}}
      Got(found) ==
        IF found.file # NULL
        THEN [found EXCEPT !.m.files[found.file].end =
                IF @ = NULL THEN file_end(m.flash, found.m.files[found.file].page) ELSE @]
        ELSE IF "CFS_READ" \notin flags \/ "CFS_WRITE" \in flags THEN reserve(m, name, DynPages, {})
        ELSE found
      NewFd(got) == [file |-> got.file, flags |-> flags,
                   offset |-> IF "CFS_APPEND" \in flags THEN got.m.files[got.file].end ELSE 0]
      Opening(got) ==
        IF got.file = NULL THEN [m |-> [got.m EXCEPT !.fds[Min(free)] = FreeFd], fd |-> NULL]
        ELSE [m |-> [got.m EXCEPT !.fds[Min(free)] = NewFd(got), !.files[got.file].references = @ + 1],
              fd |-> Min(free)]
  IN  IF free = {} THEN [m |-> m, fd |-> NULL] ELSE Opening(Got(find_file(m, name)))

cfs_close(m, fd) ==
  [m EXCEPT !.fds[fd] = FreeFd, !.files[m.fds[fd].file].references = @ - 1]

--------------------------------------------------------------------------------
(* Micro logs.                                                             *)

create_log(m, file) ==
  LET page == m.files[file].page
      h == m.flash.header[page]
      Logged(log, log_page) ==
        [m |-> [write_header(log.m, page, [h EXCEPT !.flags = @ \cup {"MODIFIED"}, !.log_page = log_page])
                  EXCEPT !.files[file].modified = TRUE],
         log_page |-> log_page]
      Created(log) == IF log.file = NULL THEN [m |-> log.m, log_page |-> NULL]
                      ELSE Logged(log, log.m.files[log.file].page)
  IN  Created(reserve(m, h.name, LogPages, {"LOG"}))

\* the parts of merge_log: the copy, the file descriptors that follow, the removal
CopyTo(m, page, whole) ==
  LET copy[k \in 0 .. Len(whole)] == IF k = 0 THEN m ELSE WriteUnit(copy[k - 1], At(page, k - 1), whole[k])
  IN  copy[Len(whole)]

FollowingFds(m, page) == {d \in Fd : m.fds[d].flags # {} /\ m.files[m.fds[d].file].page = page}

MoveFds(m, page, file) ==
  [m EXCEPT !.fds = [d \in Fd |-> IF d \in FollowingFds(m, page) THEN [@[d] EXCEPT !.file = file] ELSE @[d]],
            !.files[file].references = @ + Cardinality(FollowingFds(m, page))]

\* mutant of Replace
ReplaceEarly(m, page, file, whole) ==
  LET r == remove_by_page(MoveFds(m, page, file), page, FALSE)
  IN  [r EXCEPT !.m = CopyTo(@, m.files[file].page, whole)]
Replace(m, page, file, whole) ==
  remove_by_page(MoveFds(CopyTo(m, m.files[file].page, whole), page, file), page, FALSE)

\* with max_pages that extend the file or not
merge_log(m, file_page, max_pages) ==
  LET name == m.flash.header[file_page].name
      Replaced(done, file, end) ==
        [done EXCEPT !.m = IF done.ok THEN [@ EXCEPT !.files[file].modified = FALSE, !.files[file].end = end]
                           ELSE remove_by_page(@, @.files[file].page, FALSE).m]
      Copied(new, whole) ==
        Replaced(Replace(new.m, file_page, new.file, whole), new.file, Len(whole))
      Merged(new, fd) == IF new.file = NULL THEN [m |-> new.m, ok |-> FALSE]
                         ELSE Copied(new, Contents(new.m.flash, new.m.files[new.m.fds[fd].file]))
      Closed(r, fd) == [r EXCEPT !.m = cfs_close(@, fd)]
      Through(r) == IF r.fd = NULL THEN [m |-> r.m, ok |-> FALSE]
                    ELSE Closed(Merged(reserve(r.m, name, max_pages, {}), r.fd), r.fd)
  IN  Through(cfs_open(m, name, {"CFS_READ"}))

find_next_record(m, f) ==
  IF f.record_count >= 0 THEN f.record_count
  ELSE Len(m.flash.log[m.flash.header[f.page].log_page])

\* unit u of a file: merged says that the log was full, and nothing written
write_log_page(m, file, u, v) ==
  LET f == m.files[file]
      h == m.flash.header[f.page]
      log_record == IF HDR_MODIFIED(h) THEN find_next_record(m, f) ELSE 0
      Merged(r) == [m |-> r.m, ok |-> r.ok, merged |-> TRUE]
      \* the index, then the record
      Half(r) == WriteRecord(r.m, r.log_page, log_record, [region |-> u, unit |-> 0])
      All(r) == WriteRecord(Half(r), r.log_page, log_record, [region |-> u, unit |-> v])
      Put(r) == IF r.log_page = NULL THEN [m |-> r.m, ok |-> FALSE, merged |-> FALSE]
                ELSE [m |-> [All(r) EXCEPT !.files[file].record_count = log_record + 1],
                      ok |-> TRUE, merged |-> FALSE]
  IN  IF log_record >= log_records THEN Merged(merge_log(m, f.page, f.max_pages))
      ELSE Put(IF HDR_MODIFIED(h) THEN [m |-> m, log_page |-> h.log_page] ELSE create_log(m, file))

\* write_log_page, and again if all it did was to merge the log
LogUnit(m, fd, u, v) ==
  LET Again(r) == IF r.ok /\ r.merged THEN write_log_page(r.m, r.m.fds[fd].file, u, v) ELSE r
  IN  Again(write_log_page(m, m.fds[fd].file, u, v))

\* dummy in the extent marks the end of a file that grew in its log
Mark(r, f, u) ==
  IF r.ok /\ u >= f.end THEN [m |-> WriteUnit(r.m, At(f.page, u), NULL), ok |-> TRUE]
  ELSE [m |-> r.m, ok |-> r.ok]
\* mutant of LogWrite
LogWriteUnmarked(m, fd, u, v) == LogUnit(m, fd, u, v)
\* cfs_write's loop, for a unit
LogWrite(m, fd, u, v) ==
  LET Marked(r) == Mark(r, r.m.files[r.m.fds[fd].file], u)
  IN  Marked(LogUnit(m, fd, u, v))

cfs_write(m, fd, v) ==
  LET u == m.fds[fd].offset
      now == m.files[m.fds[fd].file]
      PutIn(r, f) == IF ~r.ok THEN r
                     ELSE IF f.modified \/ u < f.end THEN LogWrite(r.m, fd, u, v)
                     ELSE [m |-> WriteUnit(r.m, At(f.page, u), v), ok |-> TRUE]
      Put(r) == PutIn(r, r.m.files[r.m.fds[fd].file])
      Moved(r) ==
        IF ~r.ok THEN r
        ELSE [r EXCEPT !.m.fds[fd].offset = u + 1, !.m.files[r.m.fds[fd].file].end = Max({@, u + 1})]
  IN  Moved(Put(IF u + 2 > now.max_pages THEN merge_log(m, now.page, 2 * now.max_pages)
                ELSE [m |-> m, ok |-> TRUE]))

--------------------------------------------------------------------------------
(* The calls of the program, and what may become of them.                  *)

Here == [flash |-> flash, files |-> files, fds |-> fds, next_free |-> next_free, gc_wait |-> gc_wait,
         past |-> << >>]

PowerUp ==
  /\ files' = [i \in Slot |-> FreeFile]
  /\ fds' = [d \in Fd |-> FreeFd]
  /\ next_free' = 0
  /\ gc_wait' = FALSE

Ends(m, now) ==
  /\ flash' = m.flash /\ files' = m.files /\ fds' = m.fds
  /\ next_free' = m.next_free /\ gc_wait' = m.gc_wait
  /\ content' = now
  /\ UNCHANGED hit

\* the node goes down before one of the writes of a call that works on unit u of a file
GoesDown(m, name, u, now) ==
  /\ \E k \in DOMAIN m.past : m.past[k] # flash /\ flash' = m.past[k]
  /\ PowerUp
  /\ content' = now
  /\ hit' = [name |-> name, unit |-> u]

Up == hit = NULL

\* names of files that are there, and the content of one
Opened(fd) == flash.header[files[fds[fd].file].page].name
With(name, u, v) ==
  [content EXCEPT ![name] = IF u = Len(@) THEN Append(@, v) ELSE [@ EXCEPT ![u + 1] = v]]

Open(name, flags) ==
  /\ Up
  /\ \E r \in {cfs_open(Here, name, flags)} :
       LET new == r.fd # NULL /\ content[name] = NULL
       IN  \/ Ends(r.m, IF new THEN [content EXCEPT ![name] = << >>] ELSE content)
           \/ GoesDown(r.m, name, 0, content)

Close(fd) ==
  /\ Up /\ fds[fd].flags # {}
  /\ Ends(cfs_close(Here, fd), content)

Seek(fd, offset) ==
  /\ Up /\ fds[fd].flags # {}
  /\ offset # fds[fd].offset /\ offset <= files[fds[fd].file].end
  /\ fds' = [fds EXCEPT ![fd].offset = offset]
  /\ UNCHANGED <<flash, files, next_free, gc_wait, content, hit>>

Write(fd, v) ==
  LET u == fds[fd].offset
  IN  /\ Up /\ "CFS_WRITE" \in fds[fd].flags
      /\ u < MaxUnits[Opened(fd)]
      /\ u < Len(content[Opened(fd)]) => v # content[Opened(fd)][u + 1]
      /\ \E r \in {cfs_write(Here, fd, v)} :
           \/ Ends(r.m, IF r.ok THEN With(Opened(fd), u, v) ELSE content)
           \/ GoesDown(r.m, Opened(fd), u, content)

Remove(name) ==
  LET gone == [content EXCEPT ![name] = NULL]
  IN  /\ Up
      /\ \E found \in {find_file(Here, name)} :
           /\ found.file # NULL
           /\ \E r \in {remove_by_page(found.m, found.m.files[found.file].page, TRUE)} :
                \/ Ends(r.m, IF r.ok THEN gone ELSE content)
                \/ GoesDown(r.m, name, 0, gone)

Reserve(name, pages) ==
  /\ Up
  /\ \E found \in {find_file(Here, name)} :
       \/ /\ found.file # NULL
          /\ Ends(found.m, content)
       \/ /\ found.file = NULL
          /\ \E r \in {reserve(found.m, name, pages, {})} :
               \/ Ends(r.m, IF r.file # NULL THEN [content EXCEPT ![name] = << >>] ELSE content)
               \/ GoesDown(r.m, name, 0, content)

Restart == Up /\ PowerUp /\ UNCHANGED <<flash, content, hit>>

Next ==
  \/ \E name \in Name : \E flags \in Flags[name] : Open(name, flags)
  \/ \E fd \in Fd : \/ Close(fd)
                   \/ \E offset \in 0 .. COFFEE_PAGE_COUNT : Seek(fd, offset)
                   \/ \E v \in Data : Write(fd, v)
  \/ \E name \in Name : Remove(name) \/ \E pages \in ReservePages[name] : Reserve(name, pages)
  \/ Restart

Spec == Init /\ [][Next]_vars

--------------------------------------------------------------------------------
(* Properties.                                                             *)

\* what a node that restarts finds
Named(name) == {p \in Scanned(flash.header) : Is(flash.header[p], name)}
Stored(p) ==
  Contents(flash, [FreeFile EXCEPT !.page = p, !.end = file_end(flash, p),
                                   !.modified = HDR_MODIFIED(flash.header[p])])

OneCopy(name) ==
  LET at == Named(name)
  IN  Cardinality(at) = 1 /\ \A p \in at : Stored(p) = content[name]

(* FilesKept: between calls each file is on the flash once, there is no    *)
(* other, and what is read from it is what was written, by the cached file *)
(* and by one that starts anew, whatever was logged, merged, extended,     *)
(* removed, collected and dropped from the cache in between.               *)
FilesKept ==
  Up => /\ \A name \in Name : IF content[name] = NULL THEN Named(name) = {} ELSE OneCopy(name)
        /\ \A i \in Slot : LET h == flash.header[files[i].page]
                           IN  files[i].max_pages > 0 /\ files[i].end # NULL /\ HDR_ACTIVE(h) /\ ~HDR_LOG(h)
                               => Contents(flash, files[i]) = content[h.name]

(* CrashKeepsCopy: whichever of the writes of a call the node goes down    *)
(* before, in the middle of a merge or of a collection, all other files    *)
(* are whole, and so is some extent of the file the call was about, but    *)
(* for the unit it was to write.                                           *)
CrashKeepsCopy ==
  ~Up => \A name \in Name : content[name] # NULL =>
           IF name # hit.name THEN OneCopy(name)
           ELSE \E p \in Named(name) : \A k \in DOMAIN content[name] \ {hit.unit + 1} :
                  k \in DOMAIN Stored(p) /\ Stored(p)[k] = content[name][k]

\* a micro log in use is the log of one file, and no file has a log that is gone
LogsOwned ==
  LET header == flash.header
      used == {p \in Scanned(header) : HDR_ACTIVE(header[p])}
      logged == {p \in used : HDR_MODIFIED(header[p])}
  IN  Up => /\ {header[p].log_page : p \in logged} = {p \in used : HDR_LOG(header[p])}
            /\ \A p, q \in logged : header[p].log_page = header[q].log_page => p = q

\* a descriptor that is open has a file in use, which counts it
FdsSound ==
  /\ \A fd \in Fd : fds[fd].flags # {} =>
       LET f == files[fds[fd].file]
       IN  f.max_pages > 0 /\ HDR_ACTIVE(flash.header[f.page]) /\ fds[fd].offset <= f.end
  /\ \A i \in Slot : files[i].references = Cardinality({fd \in Fd : fds[fd].flags # {} /\ fds[fd].file = i})

(* NothingDangles: merges move every descriptor of a file and removals     *)
(* close them, both take the log along, and a log that could not be        *)
(* created or merged for lack of space leaves nothing behind.              *)
NothingDangles == LogsOwned /\ FdsSound

(* QuickSkip: the allocation lets next_file jump over free areas and       *)
(* extents: a scan that does comes to every extent in use.                 *)
QuickSkip ==
  Up => \A i \in Slot : files[i].max_pages > 0 => files[i].page \in Scanned(flash.header)

=============================================================================
