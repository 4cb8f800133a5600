# TLA+ models of zpoline-rs

zpoline-rs intercepts the system calls of a process by binary rewriting.
A library loaded with `LD_PRELOAD` does four things:

1. Its constructor maps a trampoline at virtual address 0.
2. It replaces every `syscall`/`sysenter` instruction (`0F 05`/`0F 34`) in the process's executable regions with `callq *%rax` (`FF D0`).
3. Since `%rax` holds the syscall number, the rewritten instruction jumps into a NOP sled at VA 0.
4. The sled leads into a stub that builds a register record and calls `hook_entry`.

`hook_entry` then either calls the installed hook or, when it is entered again from inside a hook, issues the original call through `raw_syscall`. `raw_syscall` is a function that is never rewritten.

This directory holds the TLA+ models of that system, their TLC configurations and TLAPS proofs.

## The system and its parts

| Part | Source | Module |
|---|---|---|
| Raw syscall path (`raw_syscall`, `raw_syscall_impl`) | `zpoline_hook_api/src/lib.rs` | HookRuntime (`RawSyscall`) |
| Hook slot `HOOK_FUNCTION`, `__hook_init`, reentrancy guard `IN_HOOK`, `hook_entry` | `zpoline_hook_api/src/lib.rs` | HookRuntime |
| Trait hooks: `register_syscall_hooks`, `trait_based_hook`, mutex `HOOK_TRAIT_OBJECT`, `dispatch_syscall_hooks`, `default_*` | `zpoline_hook_api/src/{lib,syscall_hooks}.rs` | HookRuntime (control, locking), TypedDispatch (values) |
| Tracing hook `zpoline_hook_function` | `zpoline_hook_impl/src/lib.rs` | HookRuntime (`trace_hook`) |
| VA-0 trampoline (sled and stub) | `zpoline_loader/src/trampoline.rs` | Trampoline (every instruction); Bootstrap (`SetupTrampoline`); HookRuntime (`AppSyscall`, `Trap`, as one step) |
| Maps parser | `zpoline_rewriter/src/maps.rs` | Maps (every character of a line); Bootstrap (`ParseMaps`, outcome only) |
| Scanner and rewriter (`find_syscalls`, `is_excluded`, `rewrite_region`) | `zpoline_rewriter/src/rewriter.rs` | Bootstrap (sites, every region); Scanner (bytes, one region) |
| Bootstrap (`zpoline_init`, `rewrite_syscalls`, `build_rewrite_config`) | `zpoline_loader/src/{lib,init}.rs` | Bootstrap |
| Out-of-namespace loader | `zpoline_loader/src/dlmopen.rs` | not modelled (dead code, see below) |
| Samples and examples | `zpoline_samples`, `zpoline_hook_trait_example`, `test_program.rs` | not modelled |

The two models meet at one point: the start-up code's own system calls.
- Once libc is rewritten, every `mprotect` and `eprintln!` that start-up makes takes the path that HookRuntime models.
- Bootstrap summarises that path as `LibcSyscallOK`: such a call works only if the trampoline is mapped and the loader text holding `raw_syscall` is unpatched.

## HookRuntime.tla: the hook runtime, per thread

**State.**
- `hookFn` is `HOOK_FUNCTION`.
- `hookObj` records whether `HOOK_TRAIT_OBJECT` holds `Some`.
- `lockOwner` is the owner of that mutex.
- `inHook` is the thread-local `IN_HOOK` of every thread.
- `exited` is the set of threads that issued `SYS_exit`.
- `stack` is a call stack per thread.
  - A frame `[fn, pc, nr]` is one activation of `hook_entry`, a user hook (`default_hook`, `trace_hook`, `trait_based_hook`) or `register_syscall_hooks`.
  - `pc` is the point reached in that function, and `nr` is the kind of system call in its register record (`exit` or `other`).
  - An empty stack means the thread runs application code.

**Actions.** There is one action per step of the code, each for a thread `t`:
- A `syscall` executed by rewritten code pushes a `hook_entry` frame (`AppSyscall`, or `Trap` from inside the runtime). This covers a syscall made by the application, by `eprintln!`, by std's futex mutex when it is contended, or by the allocator.
- `EntryCheck` is the atomic test-and-set of `IN_HOOK`.
- `EntryRaw` is the reentry path.
- `EntryLoad` loads the hook slot (SeqCst) and calls the hook.
- `EntryClear` resets the flag and returns.
- `HookPrint` and `HookRaw` model `trace_hook` and `default_hook`.
- `MutexLock`, `TraitDispatch`, `TraitMethod`, `TraitRaw` and `MutexUnlock` model `trait_based_hook`. A contended lock or unlock issues `SYS_futex` through rewritten code.
- `RegisterStore`, `RegisterAssign` and `RegisterInit` model `register_syscall_hooks`. `Box::new` and dropping the old box may call the allocator.
- `RawSyscall` is one atomic kernel step. `SYS_exit` ends the thread with whatever frames and locks it holds.

**Bounds.** `MaxStack` bounds the depth of a stack. Correct runs never come near it; only the self-deadlock bug would grow a stack without end.

**Properties.**
- `GuardInv` is the inductive invariant.
  - A thread's flag is set exactly while an active `hook_entry` (one that passed the test and has not cleared the flag) is on its stack.
  - At most one such activation exists.
  - Every user hook was called by it.
  - Every `hook_entry` on the raw path runs above it.
  - Exited threads hold no frames.
- `ReentrancyBound` is spec invariant 6: no stack ever holds two user-hook activations.
  - It follows from `StackInv`, and every mutant of the code that breaks it breaks `GuardInv` in the same state or earlier.
  - So it is proved (see below) rather than listed in the TLC run.
- `ImplementsPerSyscall` says that HookRuntime implements PerSyscall.tla, the per-syscall state machine of spec section 4.9. In that machine each thread goes `idle -> issued -> hook -> done -> idle`. An application syscall is handed to the hook once, executed by the kernel once, and returned to the application only afterwards. `SYS_exit` ends the thread at its execution.
  - The mapping reads the stack of a thread that serves an application syscall, i.e. one whose bottom frame is `hook_entry` (`AppStack`).
    - With one frame, the call is `issued` until `EntryClear` and `done` from then on.
    - With two or more frames, `frame 2` is the user hook, and the call is `done` once that hook has issued its raw call (`ret`, `unlock`), otherwise `hook`.
    - Frames above the second are the hook's own nested syscalls, and the mapping ignores them.
    - The call's number is the `nr` of the bottom frame.
  - The mutant `TraitDispatchNoFallback` makes `trait_based_hook` with no object registered unlock without issuing the call. That drops the application's syscall, and it breaks this property.
- `LockOwnerAlive` and `NoSelfDeadlock` state what the code should guarantee of the trait mutex. Both fail (see Findings).

## Bootstrap.tla: start-up

**Data abstraction.**
- A region is a record of its range, its `x`/`w` permissions, its path (as a sequence of path components) and its code.
- The code is abstracted to instruction sites `sc` (`0F 05`), `se` (`0F 34`), `call` (`FF D0`) and `other`. This is what `find_syscalls` reports after decoding.

**Environment choices.** The environment decides whether:
- `mmap` at VA 0 succeeds;
- `/proc/self/maps` can be read;
- each of the two `mprotect` calls of `rewrite_region` succeeds.

**Actions.**
- `SetupTrampoline`: a failure exits the process.
- `ParseMaps`.
- `SkipRegion`: non-executable regions, `[vdso]` and `[vsyscall]`. The latter two come with a warning.
- `RewriteNothing`: a region that is excluded or has no sites.
- `RewriteFirstProtectFails`.
- `RewritePatch`: patch, then a restoring `mprotect` that may fail.
- `Finish`.
- `Halted`: start-up is over.

`Issue` records whether one of start-up's own libc calls would crash. That happens when libc is already patched while the trampoline is missing or the raw path is patched.

**Model constants (`MC_Bootstrap.tla`).** Eight regions:
- the trampoline page;
- application text (one `sc`) and data;
- the loader text, which holds `raw_syscall` and is not under the path the code excludes;
- a library excluded by `ZPOLINE_EXCLUDE`;
- libc with two `sc`;
- an anonymous RWX JIT region with `se` and `sc`;
- `[vdso]`.

This is every branch of the loop, and every failure at every region, in 108 states.

**Properties.**
- `RawPathIntact`: the loader's text is never changed.
- `NoCrash`: every syscall start-up issues after patching libc reaches the kernel.
- `ReplacementFidelity`: only `sc`/`se` sites become `call`, and a rewritten region that did not fail keeps no `sc`/`se`.
- `CountsMatchPatches`: `syscalls_replaced`, `sysenters_replaced` and `regions_rewritten` agree with memory.
- `WXRestored`: a region that did not fail has its original writability.

## Trampoline.tla: the VA-0 sled and stub, instruction by instruction

**Scope.** One thread, from a rewritten site (`callq *%rax`) to the instruction after it.
- `Sled` is the 512 NOP bytes written by `generate_trampoline_code`.
- `StubCode` lists the 20 instructions `generate_hook_stub` emits, each with the offset the code's `offset` variable gives it.
- `hook_entry` is one step, `HookEntry`, seen as an `extern "C"` callee.
  - It may write one field of the record, or none.
  - It returns the result in `%rax`.
  - It may overwrite every caller-saved register (the six argument registers, `%rcx`, `%r11`, `%xmm0`) and every stack slot below its entry `%rsp`.
  - What it does inside is HookRuntime's business.

**State.**
- `rip`: the instruction pointer, an integer address.
- `regs`: the registers, a function from names to integers.
- `mem`: the stack, a function from 8-byte slots to integers.
- `status`: `"stray"` after a jump to an address where the code placed no instruction start.
- `nr0`, `rsp0`, `hooked`: histories, used only by the properties.

**Actions.** One per instruction kind:
- `Callq`: the rewritten site.
- `SledNop`.
- `StubPush`, `StubAdd` (`sub`/`add rsp`), `StubLea`, `StubMovabs`, `StubCall`, `StubPop`, `StubRet`.
- `HookEntry`.
- `Stray`: a jump into the middle of an instruction, the zero fill, unmapped memory, or a wrong return address.
- `Done`: the caller continues.

**Constants (`MC_Trampoline.tla`).**
- The register and memory contents are distinct integers, so a value moved to the wrong place is seen. The stub never looks at the values it moves, so this is no loss of generality.
- Two stack pointers: 8 mod 16, as in a leaf function entered by `call`, and 0 mod 16, as inside a function with an aligned frame.
- Syscall numbers 0, 1, 231 and 511 (`MC_NrsValid`), and 512, 513, 514, 600 and 9000 past the sled (`MC_NrsBeyond`). The `trampoline` run takes both sets (`MC_Nrs`); the violation runs take `MC_NrsValid`.

**Properties.**
- `HookSeesRecord`: for a number inside the sled, on entry to `hook_entry`, `%rdi` points at `SyscallRegs` holding the site's `rax, rdi, rsi, rdx, r10, r8, r9`.
- `AbiPreserved`: spec invariant 7 and the return contract, for a number inside the sled. After `ret`:
  - `%rsp` is restored;
  - `%rax` is `hook_entry`'s result;
  - the argument registers are the record's fields as the hook left them;
  - the caller's frame is intact.
- `StrayOnlyBeyondSled`: a stray jump needs a number of 512 or more.
- `HookEntryAligned` and `KernelAbiPreserved` state what the comment and the syscall ABI promise. Both fail (Findings 4 and 6). The stray jumps of Finding 5 are the `Stray` steps of the `trampoline` run.

## Scanner.tla: the scanner and the patch, byte by byte

Bootstrap takes the scanner's answer as given. Scanner checks that answer against the bytes of one region.
- **State.**
  - `layout` is the region as a sequence of items: real instructions, given by their bytes, and data bytes. It is history: the code never sees it, but it tells the model where the real instructions start.
  - `code` holds the bytes. `dryRun` is `config.dry_run`. `calls` counts the `rewrite_region` calls. `result` is the last `Ok(n)` or `Err`. `stats` is `RewriteStats`.
- **Decoder.** `iced-x86` is a dependency, so it is abstracted to `OpLen`: the length of each opcode the items use.
  - Those opcodes are `nop`, `ret`, `xor al, imm8`, `add eax, imm32`, `mov eax, imm32`, `0F xx`, `FF D0` and `D0 /r`.
  - `FindSyscalls` is `find_syscalls`. It decodes from offset 0, reports each `syscall` and `sysenter` with its offset, and steps over the instruction's length. An instruction cut off by the end of the region ends the scan.
- **`RewriteRegion`** is `rewrite_region` on an executable region that is not excluded. It has one disjunct per exit:
  - no sites: `Ok(0)`;
  - dry run: `Ok(n)`, with every site counted as a syscall;
  - the first `mprotect` fails: `Err`, bytes unchanged;
  - the patch: each site that still reads `0F 05` or `0F 34` becomes `FF D0`. Then the restoring `mprotect` either succeeds (`Ok(n)`) or fails (`Err`, region left patched).
- **Properties.**
  - `ScanReportsInstructions` (spec 4.3): the reported sites are exactly the `syscall` and `sysenter` instructions of the layout, never a pattern inside an immediate. It fails once data lies in the region (Finding 7).
  - `CodeOnlyScanExact`: the same claim for regions that hold instructions only.
  - `RoundTrip` (spec invariant 4): after an `Ok` from a patching call, a new scan finds nothing. Idempotence (invariant 5) follows, since the second call then takes the no-sites exit.
- **Instance.** `MC_Scanner` uses up to 4 items from five instructions: `syscall`, `sysenter`, `mov eax, 0x340F050F` (both patterns inside its immediate), `xor al, 0x0F`, and `nop`. It also allows the data bytes `0F` and `B8`.

## Maps.tla: the maps parser, character by character

- **State.**
  - `table` is the kernel's table, as a sequence of listings `[m, name, pad]`. It is history: the reader sees only the characters `LineText` prints from it.
  - `pos` is the line `reader.lines()` yields next, `regions` the `Vec<MemoryRegion>` built so far, and `status` is `open`, `reading`, `ok` or `err`.
- **The kernel's side.** `LineText` prints a listing the way `show_map_vma` does:
  - `%08lx-%08lx`, the four permission letters, `%08llx`, `%02x:%02x`, `%lu` and a space;
  - for a named mapping, padding spaces and the name.
  The name is the only text a program controls: any characters but the newline, which the kernel escapes. The string `"<ff>"` stands for a byte that is not valid UTF-8.
- **Actions.**
  - `Open` is `File::open`, which may fail.
  - `ReadLine` is one turn of the loop. A line that is not UTF-8 ends the parse with `Err`. Any other line goes through `ParseMapsLine` and, if that returns a region, is pushed.
  - `Finish` returns `Ok(regions)`.
- **`ParseMapsLine`** keeps every early return of `parse_maps_line`, in the code's order. The conversions are modelled by what they do:
  - `SplitWhitespace` (maximal runs of non-whitespace) and `SplitOn` (pieces between separators, empty ones included);
  - `FromStrRadix`: an optional `+`, then one or more digits of the radix;
  - the permission letters;
  - `JoinSpace` for `parts[5..].join(" ")`.
- **Properties.**
  - `RegionsFaithful` (spec 4.2, S1, S2): on `Ok` there is one region per line, in order, carrying the numbers, permissions and device the kernel printed.
  - `PathCollapsed`: a named mapping has a pathname, and it is `Collapse(name)`. `Collapse` is a reference definition written without `split_whitespace` or `join`: inner whitespace runs become one space, and whitespace at either end is dropped. The property holds, and it is where the code departs from spec 4.2 (Finding 8).
- **Instance.** `MC_Maps` has two mappings whose numbers need the hex letters, and six names: none, plain, two inner spaces, a trailing space, a tab, and a non-UTF-8 byte. Tables have one or two lines and one or two padding spaces.

## TypedDispatch.tla: the typed hook layer, with integer widths

- **Scope.** `dispatch_syscall_hooks` with the default `SyscallHooks` methods. HookRuntime already models the locking around it and the syscalls it makes; this module models what the layer does to the values.
- **Signatures.** `FileMemSigs` and `ProcNetSigs` list each method's parameter and return types, as the trait declares them. The 28 numbers with a method are covered.
- **Casts.** They are modelled by what they do:
  - `ToParam`: `regs.x as T` in the dispatcher;
  - `Rebuild`: `param as u64` in `default_*`, in ABI register order, with the unused registers zero;
  - `RetCast`: `raw_syscall(..) as T`, then `as i64`.
- **Widths.** `LongBits` and `IntBits` stand for 64 and 32. TLC's integers are 32 bits wide, so `MC_TypedDispatch` runs a 16/8-bit machine. Every cast depends only on the two widths, so truncation, sign extension and zero extension happen there exactly as on x86-64.
- **The action.** `Dispatch` takes one record and one kernel answer from `KernelRet[nr]`, the values the kernel can return for that number (counts, offsets past the int range, addresses, a program break, `-errno`). Numbers without a method go to `raw_syscall` unchanged.
- **The kernel's widths.** `KernelSigs` gives the x86-64 kernel's own parameter types (`include/linux/syscalls.h`), not the trait's. The kernel reads an `int`, `unsigned int`, `pid_t` or `umode_t` from the low 32 bits of its register, and an `unsigned long`, `size_t`, `off_t` or pointer whole. They differ from the trait in three places:
  - `mmap`'s `prot` and `flags` are `unsigned long` in the kernel and `c_int` in the trait;
  - `mprotect`'s `prot` is likewise `unsigned long` in the kernel;
  - `ioctl`'s `cmd` is an `unsigned int` in the kernel.
  The kernel is not code of this repository and is not in the map.
- **Property.** `DefaultHooksTransparent`: with no method overridden, the kernel reads the arguments the application passed, at the kernel's width, and the application gets the kernel's `%rax` back. It fails, for `mmap` arguments and for `brk` (Finding 9).

## Runs

| Run | Checks | Shows |
|---|---|---|
| `hook_runtime` (`HookRuntime.cfg`) | TypeOK, GuardInv, ImplementsPerSyscall | Holds, and the runtime implements PerSyscall. 2 threads, all 3 hook functions, exit, `MaxStack = 6`, thread symmetry; 15 461 states. |
| `lock_owner_alive` | LockOwnerAlive | Violated: see Finding 1. |
| `no_self_deadlock` | NoSelfDeadlock | Violated: see Finding 2. |
| `bootstrap` (`Bootstrap.cfg`) | TypeOK, RawPathIntact, NoCrash, ReplacementFidelity, CountsMatchPatches, WXRestored | Holds for every pattern of failures. |
| `no_success_count_on_failure` | NoSuccessCountOnFailure | Violated: see Finding 3. |
| `trampoline` (`Trampoline.cfg`) | HookSeesRecord, AbiPreserved, StrayOnlyBeyondSled | Holds. 4 numbers in the sled and 5 past it, both stack alignments, every record mutation and clobber by `hook_entry`; only the numbers past the sled take the `Stray` step; 6 686 states. |
| `hook_entry_aligned` | HookEntryAligned | Violated: see Finding 4. |
| `kernel_abi_preserved` | KernelAbiPreserved | Violated: see Finding 6. |
| `scanner` (`Scanner.cfg`) | CodeOnlyScanExact, RoundTrip | Holds. Regions with patterns inside immediates and data bytes `0F` and `B8`, two calls, dry run and both `mprotect` failures; 27 138 states. |
| `scanner_desync` (`Scanner_DataDesync.cfg`) | ScanReportsInstructions | Violated: see Finding 7. |
| `maps` (`Maps.cfg`) | RegionsFaithful, PathCollapsed | Holds. Every table of one or two lines from two mappings and six names, with one or two padding spaces; 3 200 states. Names with a trailing space, two spaces or a tab come back collapsed (Finding 8). |
| `default_hooks_transparent` (`TypedDispatch_DefaultHooksTransparent.cfg`) | DefaultHooksTransparent | Violated: see Finding 9. |

**Why these bounds are enough.**
- Two threads suffice for every cross-thread interaction in the code: the mutex has one owner and one waiter.
- Nesting depth is at most three frames above the application: `hook_entry`, then a hook, then a nested `hook_entry` on the raw path. `MaxStack = 6` leaves room for the trait path (`hook_entry`, `trait_based_hook`, a futex trap).
- Each kind of region appears once, and every `mprotect` of every region may fail.
- Four items are enough for every pairing of a data byte with a following instruction, including a `0F` before a `syscall` and a `B8` swallowing a `syscall`. Two calls show a second scan of a patched region.
- The stub is straight-line code, so one execution per pair (number, stack alignment) covers it. The numbers cover both ends of the sled; 512, 513 and 514 are a stub instruction start, the middle of one, and the start of the second push.

**Mutants.** Every property of a passing run has a mutant, a plausible bug that TLC must catch. They are listed in `PROJECT.json`.
- HOOK_FUNCTION starts null.
- `hook_entry` never clears `IN_HOOK`.
- `trait_based_hook` with no object registered unlocks without making the raw call.
- The raw-syscall range is dropped from the excludes.
- A trampoline failure is ignored.
- Only `0F 05` is patched.
- `regions_rewritten` is counted whatever happens.
- The protection is always restored to RWX.
- The loop steps past the end.
- `lea rdi, [rsp]` instead of `[rsp + 8]`.
- The first two pops exchanged.
- A sled one byte short.
- `find_syscalls` advances one byte at a time (a pattern search).
- The maps parser reads the hex fields as decimal.
- The patch loop's guard accepts `0F 05` only.
- The pathname is rejoined without spaces.

## Findings

1. **The trait mutex leaks on thread exit** (`zpoline_hook_api/src/lib.rs:244`, `:241`, `syscall_hooks.rs:148`).
   - `trait_based_hook` makes its raw call while it holds the `HOOK_TRAIT_OBJECT` guard.
   - When that call is `SYS_exit`, the thread ends without dropping the guard.
   - The run's trace takes the `None` fallback at `lib.rs:244`. `get_trait_dispatch_hook` (`lib.rs:280`) publishes `trait_based_hook` through `__hook_init` with no object registered, and the thread's `exit` goes to `raw_syscall` under the guard.
   - With an object registered, `hook_exit` calls `default_exit` (`lib.rs:241`, `syscall_hooks.rs:148`), which does the same.
   - The model makes both raw calls one `TraitRaw` step.
   - Every later trait-hooked syscall of the other threads then blocks for ever.
2. **`register_syscall_hooks` can deadlock with itself** (`lib.rs:214-216`).
   - It allocates and drops a `Box` while holding the mutex.
   - After a first registration has installed `trait_based_hook`, an allocator syscall made during a second registration goes through `hook_entry` into `trait_based_hook`.
   - `trait_based_hook` then locks the same non-reentrant mutex on the same thread.
3. **Counters are raised before a failure** (`zpoline_rewriter/src/rewriter.rs:202`).
   - `rewrite_region` counts the patched sites before the restoring `mprotect`. When that call fails, it returns `Err` with the counters already raised, and leaves the region writable.
   - Spec section 7 says a per-region failure increments no success counters.

4. **`hook_entry` runs on a misaligned stack at half of the sites** (`zpoline_loader/src/trampoline.rs:143`).
   - The stub always pushes 8 (`callq`) + 56 + 8 (padding) bytes before `call r11`.
   - The SysV alignment at `hook_entry` therefore holds only if `%rsp` was 8 mod 16 at the site.
   - A `syscall` inside a function with an aligned frame has `%rsp` 0 mod 16. There `hook_entry`, and every hook it calls, runs with `%rsp` off by 8, and an aligned SSE spill (`movaps`) faults.
   - The comment (lines 102-105) and spec 4.5 say the padding aligns the stack.
5. **Numbers past the sled jump astray** (`trampoline.rs:74`). The `trampoline` run reaches these jumps: its `Stray` steps.
   - The comment at lines 70-71 says every address slides into the stub.
   - 513 executes the second byte of `push r9`.
   - 514 skips `push r9`: the pops then restore a shifted record and `ret` jumps into the caller's frame.
   - 600 runs into the zero fill, and 9000 into unmapped memory.
   - The kernel answers unknown numbers with `-ENOSYS`. Nothing checks `%rax`, though spec section 10 asks for a refusal.
6. **The replaced instruction is not a drop-in `syscall`** (`trampoline.rs:113`, `92`).
   - `callq` and the pushes write the 128-byte red zone below the caller's `%rsp`.
   - No vector register is saved around `hook_entry`.
   - The `syscall` instruction preserves both. Inline `syscall` asm that declares only `rcx`, `r11` and memory as clobbered, in a function that keeps data in the red zone or in `%xmm` registers, is corrupted.
7. **Data in `.text` desynchronises the scanner** (`zpoline_rewriter/src/rewriter.rs:229`).
   - `find_syscalls` decodes linearly from the first byte of every executable mapping.
   - A data byte `0F` before a `syscall` is decoded as `0F 0F ...`, which swallows the real `syscall`. That syscall is never hooked.
   - A data `0F` or `B8` before `mov eax, imm32` shifts the decode into the immediate. The `0F 05` found there is reported, and `rewrite_region` overwrites the constant with `FF D0`.
   - Spec 4.3 says only instructions are reported and names no limit for data in executable memory. `RoundTrip` still holds (`scanner`): the patch keeps every boundary the decoder saw.
8. **Pathnames lose their whitespace** (`zpoline_rewriter/src/maps.rs:112`).
   - `parse_maps_line` splits the whole line with `split_whitespace` and rebuilds the name as `parts[5..].join(" ")`.
   - A trailing space is dropped, and each run of spaces or tabs inside a name becomes one space.
   - Spec 4.2 says trailing whitespace in pathnames is preserved.
   - The exclusion prefixes and the log then see a path that is not the file's.
   - The `maps` run shows the code's behaviour as a property that holds, `PathCollapsed`, over names of each of these kinds.
9. **The default methods are not a pass-through** (`zpoline_hook_api/src/syscall_hooks.rs:699`, `:114`, `:414`). There are two cases.

   **Case 1: `mmap`'s `prot` and `flags` are narrowed.** TLC reports this case first.
   - `dispatch_syscall_hooks` reads `prot` and `flags` with `regs.rdx as c_int` and `regs.r10 as c_int`.
   - `default_mmap` widens them again with `as u64`, which sign-extends bit 31 over the upper half.
   - The kernel reads both registers whole as `unsigned long`.
   - A caller whose register has other bits above bit 31 (hand-written `syscall` asm, which the rewriter patches like any other) makes the hooked call pass the kernel a different argument from the one the unhooked instruction passes.
   - The trait's doc comment (`syscall_hooks.rs:6-8`) says a method that is not overridden executes the original system call as it is.
   - In the run, `mmap`'s `flags` of `259` (on the 16/8-bit machine) reaches the kernel as `3`.
   - Calls made through glibc are not affected: glibc sign-extends `int` arguments itself.

   **Case 2: the default `hook_brk` truncates the program break.**
   - `SyscallHooks::hook_brk` and `default_brk` return `c_int`. `dispatch_syscall_hooks` therefore hands `hook_entry` the result of `raw_syscall` cut to its low 32 bits, then sign-extended.
   - `brk` returns the new program break, an address above 2^32 on x86-64. With the default method, every `brk` of the application gets a wrong break. glibc's `brk` then reports `ENOMEM`, and `sbrk(0)` returns a wrong address.
   - `zpoline_hook_trait_example` does not override `hook_brk`.
   - Spec 4.1 gives the result as the signed 64-bit `%rax`. The other methods' return types are wide enough for what the kernel returns for them. `read`, `write` and `lseek` return 64-bit counts and offsets, `mmap` returns a pointer, and the rest return file descriptors, ids or `-errno`.
   - With `mmap` (9) left out of `MC_Nrs`, the same run shows this case: the record for `brk` gets the break `0x4c00` back as `0`, on the 16/8-bit scaled machine.

Observed while modelling, with no run of its own:
- **One file name that is not UTF-8 aborts start-up** (`maps.rs:59`). `BufRead::lines` yields `Err(InvalidData)` for such a line, and `line?` abandons the whole table. `rewrite_syscalls` then returns `Err`, and `zpoline_init` exits the process. Spec 4.2 calls the parser total and lenient. Maps models this (the table ends in status `err`), but no run is given to it.
- **The loader's path exclusion names the wrong file** (`init.rs:66-70`). It uses `current_exe()`'s directory joined with `libzpoline_loader.so`, not the location `LD_PRELOAD` loaded the loader from. The loader is still left alone because its whole text mapping overlaps `[raw_syscall, +4096)`. `RawPathIntact` checks exactly that, with a loader region outside every excluded path.
- **Dry run cannot be reached at start-up.** `dry_run` is always false there, and in dry-run mode the code would count `sysenter` sites as syscalls (`rewriter.rs:160`).

## Proofs (HookRuntimeProofs.tla, TLAPS)

Each theorem is proved for every set of threads and every `MaxStack`. The only assumption is `ConstAssumption`: `NoThread` is not a thread, and `MaxStack` is a positive natural.

- `TypeCorrect`: `Spec => []TypeOK`.
- `GuardInvariant`: `Spec => []GuardInv`.
  - `GuardInv` is the strengthening needed for the properties. The flag alone is not inductive: an `EntryCheck` step preserves "at most one hook activation" only if we know the flag is set exactly when an active `hook_entry` exists, and that every `hook_entry` on the raw path sits above it.
  - The step proof has one case per action.
  - Each case rests on lemmas about how the stack helpers (`SetPc`, `Append`, `Pop` via `SubSeq`) change `HasActive` and `StackInv`: `StackSetPc`, `StackPushEntry`, `StackCheckSet`, `StackLoadClear`, `StackCallHook`, `StackPop`.
  - It also uses one lemma, `GuardUpdate`, for a state change confined to one thread's stack and flag.
- `ReentrancyBoundHolds` follows from `GuardInv` and `TypeOK` by the lemma `GuardReentrancy`.
- `LockInvariant`: `Spec => []LockInv`. This is the mutual exclusion of `trait_based_hook` and `register_syscall_hooks`.
  - Call a frame *held* when it runs between a successful `lock()` and the drop of its guard: `Held(f, l)`.
  - `LockInv` says three things: every frame is at a label of its own function (`LabelsOf`); a stack has at most one held frame; and a live thread with a held frame owns the mutex.
  - The first conjunct is needed because labels are shared between functions. A frame of `trait_based_hook` at `raw` holds the guard, while one of `default_hook` at `raw` does not. `HookPrint` would turn a `print` frame of any function into a `raw` frame.
  - The second conjunct is needed for the unlock. When the guard is dropped, no frame deeper in the same stack may still count as held.
  - The stack lemmas are `LockSetPc`, `LockAcquire`, `LockRelease`, `LockPush` and `LockPop`. The thread-level lemmas are `LockGoto`, `LockCall`, `LockTrap`, `LockReturn`, `LockRaw`, `LockExit` and `LockEnter`. They feed `LockUpdate`, which covers a change to one thread's stack.

## Proofs (HookRuntimeRefinement.tla, TLAPS)

`RefinesPerSyscall` proves `Spec => ImplementsPerSyscall` for every set of threads and every `MaxStack`, from `ConstAssumption` alone.

The argument:
- **Support invariants.** The proof uses `TypeOK`, `GuardInv` and `LockInv` from HookRuntimeProofs, plus `NrInv`, proved here by `NrInvariant`.
  - `NrInv` says that in a stack serving an application syscall, the first two frames carry the application's number and every frame above them carries `other`. Every other stack carries `other` in every frame.
  - It is needed because `RawSyscall` tests the number of the top frame. Only for the frame that issues the application's call may that number be `exit`, so that `Execute` of the abstract machine is the step that ends the thread.
- **Stack shape.** `BottomShape` and `AppTop` derive from `StackInv` what an application stack's top frame can be. With one frame, it is `hook_entry` at `check`, `load` or `clear`. With two, it is a user hook called by a `hook_entry` at `clear`.
- **Phase lemmas.** `PhaseSetPc`, `PhaseCall` and `PhasePop` say how the mapped phase changes when the top frame moves, a frame is pushed, or a frame is popped. They are stated with `PhaseAt(depth, label)`.
- **Step lemmas.** The thread-level lemmas `RefGoto`, `RefCall`, `RefTrap`, `RefRaw`, `RefLoad`, `RefClear` and `RefReturn` turn these into abstract steps:
  - `EntryLoad` is `Enter`;
  - the raw call of the user hook (at depth 2) is `Execute`;
  - `EntryClear` is `Complete`;
  - `AppSyscall` is `Issue`;
  - everything else is a stutter.
- **`RefStep`.** This has one case per action. `MutexUnlock` needs `LockInv`: a frame at `unlock` belongs to `trait_based_hook` or `register_syscall_hooks`, so at depth 2 its next label `ret` is still `done`.
- **Combining them.** `Init` maps to the abstract `Init`. The theorem combines `RefStep` with the four invariants by PTL.

## Proofs (BootstrapProofs.tla, TLAPS)

Each theorem is proved for every region sequence, loader index, exclude list and raw-syscall address that satisfies two assumptions:
- `RegionsAssumption`: the constants are well formed.
- `RawInLoaderAssumption`: the address of `raw_syscall` lies in the loader's text mapping. This holds because `zpoline_hook_api` is linked into the loader.

The theorems:
- `TypeCorrect`: `Spec => []TypeOK`.
  - It rests on the lemmas `PatchType`, `PatchedSitesCard`, `RegionStatsType` and `CountScanType`.
  - The counters stay natural numbers because the patched sites are a subset of a finite interval.
- `SafeInvariant`: `Spec => []SafeInv`.
  - `SafeInv` says three things: the trampoline exists from maps parsing on, no code changes before it exists, and the loader's text never changes.
  - `NoCrash` alone is not inductive. Whether a libc call survives depends on the trampoline and on the loader's text, and `SafeInv` tracks both.
  - The key lemma `LoaderExcluded` shows that `is_excluded` holds for the loader region by range overlap, whatever its path.
  - `RawPathNeverPatched` and `StartupNeverCrashes` follow.
- `WXRestoredHolds`: `Spec => []WXRestored`. It is inductive together with `TypeOK`.
- `ReplacementFidelityHolds` follows from `FidelityInv` and `PatchComplete`. `FidelityInv` says:
  - sites are never added or removed;
  - a changed site went from `sc`/`se` to `call`;
  - regions below the loop index that did not fail are clean.

- `CountsMatchPatchesHolds`: `Spec => []CountsMatchPatches`. The counters of `RewriteStats` agree with memory.
  - The inductive invariant is `CountInv`. It combines `FidelityInv`, the finiteness of the changed-site sets, and `Untouched`.
  - `Untouched` says that every failed region lies below the loop index, and every region at or past the index still has its original code.
  - Without `Untouched`, a `RewritePatch` step cannot be shown to add only new sites. With it, the step adds exactly the pairs `{idx} \X PatchedSites(code[idx], kind)` (lemma `PatchAdds`), and these are disjoint from the pairs already changed.
  - The counters then grow by the cardinality of that product (lemmas `PairedCard` and `DisjointCard`, from `FS_Product` and `FS_Union`).
  - `regions_rewritten` gains the region exactly when the restoring `mprotect` succeeds. The region's code changes (`PatchChanges`), and the region is not yet in `failed`.

## Proofs (TrampolineProofs.tla, TLAPS)

Each theorem is proved for every `MAX_SYSCALL_NR`, set of syscall numbers, set of stack pointers, site, `hook_entry` address, register contents and hook result allowed by `TrampolineAssumption`.

`TrampInv` describes executions that stay in the sled and the stub, so it holds only for a number below `MAX_SYSCALL_NR` (Finding 5 shows where the others go). The proofs therefore use `SledInv`: the number at the site is one of `Nrs`, and if it lies in the sled (`InSled`) then `TrampInv` holds. The number is fixed for the run (`Nr0Fixed`). So a step where `InSled` holds starts from a state where it held, and `TrampStep`, which needs only `InSled`, applies.

The theorems:
- `SledInvariant`: `Spec => []SledInv`, with no assumption on `Nrs`.
- `TrampInvariant`: `Spec => []TrampInv`, under the hypothesis `NrsInSled` that every number the site may hold is below `MAX_SYSCALL_NR`.
- `StrayOnlyBeyondSledHolds`: `Spec => []StrayOnlyBeyondSled`. `TrampInv` keeps the status at `run`, so a stray jump needs `~InSled`.
- `HookSeesRecordHolds`: `Spec => []HookSeesRecord`.
- `AbiPreservedHolds`: `Spec => []AbiPreserved`.

The last three hold for every value of the constants, numbers past the sled included, as the `trampoline` run checks them.

The argument is a symbolic execution of the straight-line stub:
- **The inductive invariant.** `TrampInv` names one shape of the state for each control point:
  - the site;
  - the sled;
  - before each of instructions 1 to 11 (`PreState(k)`);
  - on entry to `hook_entry` (`HookState`);
  - after the call, before each of instructions 12 to 20 (`PostState(k)`);
  - back after the site (`DoneState`).
- **What a shape fixes.** Each shape gives:
  - the depth of `%rsp` below its value at the site (the table `Depth`);
  - which slots hold the pushed registers and the return address;
  - which registers still hold their value at the site, or have been restored from the record.
- **Why the properties alone are not inductive.** `HookSeesRecord` and `AbiPreserved` speak only about the entry to `hook_entry` and the return. Proving them needs what the pushes before the call, and the pops after it, have done to the stack.
- **The step proof.** It has one lemma per instruction kind: `CallqStep`, `SledNopStep`, `PushStep`, `AddStep`, `LeaStep`, `MovabsStep`, `CallStep`, `HookStep`, `PopStep`, `RetStep` and `OtherStep`.
  - The control point is read back from `%rip` with `PreAt`, `PostAt`, `HookAt` and `SledAt`.
  - Those lemmas rest on the layout facts `Layout`, `SledApart` and `AddrInjective`: the stub's offsets are distinct and lie past the sled, and the site and `hook_entry` lie outside the mapping.
- **The hook.** `HookStep` covers every `hook_entry` the model allows: one field changed or none, the caller-saved registers clobbered, the stack below its entry `%rsp` overwritten.
- **Stray jumps.** `NoStray` shows that every control point of `TrampInv` is an instruction start, so `Stray` never fires.

## What only TLC checks, and why

- **Liveness.** No run states one, and TLAPS could not prove one here: it does not handle fairness or ENABLED.
  - Start-up is a single thread running a finite loop over the regions with no wait or retry, so its termination is not in question.
  - In the hook runtime, an issued syscall need not complete: Findings 1 and 2 are exactly such cases.
- **Scanner (`CodeOnlyScanExact`, `RoundTrip`).** These say what `FindSyscalls` returns for every region.
  - `FindSyscalls` is a recursive function over offsets, the patch loop is a `FoldLeft`, and a region's bytes come from `FlattenSeq`.
  - A proof for every region is an induction over the region. The library's induction theorems take the induction predicate as an operator parameter, and no installed prover can instantiate it.
  - TLC checks them on every layout of up to four items.
- **Maps (`RegionsFaithful`, `PathCollapsed`).** These say what the line parser returns for every line. It is the same kind of induction, over the characters of a line.

## Not modelled

- **Bytes inside the stub.**
  - Trampoline follows instructions, not bytes. A jump into the middle of an instruction, or into the zero fill, is one `Stray` step, not a decoding of what those bytes would do.
  - The flags register is left out, since inline `syscall` asm on x86 always clobbers the flags.
- **The full x86 decoder.** `iced-x86` is a dependency. Scanner replaces it by a length table of the opcodes its regions use; Bootstrap and HookRuntime work on decoded sites.
- **Integer overflow in the maps parser.** The kernel prints at most 16 hex digits, which always fit `usize` and `u64`, so `from_str_radix`'s overflow error cannot happen on its lines. Maps keeps numbers below 16^7 so that TLC's integers hold them.
- **Padding width.** The kernel pads the name column to a fixed width. Maps lets the padding be one or more spaces, which covers every width.
- **Thread creation.** `clone` with a new stack is not modelled: its child returns through frames that exist only on the parent's stack.
- **Out-of-namespace loader.** `dlmopen.rs` is not declared as a module of the loader crate, so it is never compiled or called.
- **Poisoned mutex.** The poisoned-mutex path of `trait_based_hook` needs a panic while the lock is held, and panics are not modelled.

## Plan for later sittings

- Concurrent `__hook_init` against in-flight hooks.
