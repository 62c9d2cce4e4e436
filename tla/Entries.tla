------------------------------ MODULE Entries ------------------------------
(***************************************************************************)
(* The names of the CUDA driver API that the library deals with, as they   *)
(* stand in the source:                                                    *)
(*                                                                         *)
(*   Enum     the enumerators of cuda-helper.h, in their order             *)
(*   Table    the names in cuda_library_entry of loader.c, in their order  *)
(*   ...Calls the wrappers of cuda_originals.c, which do nothing but call  *)
(*            the driver through an entry of the table                     *)
(*   Hijacked the wrappers of hijack_call.c that call the driver           *)
(*                                                                         *)
(* The only link between the three is the position of a name: a wrapper    *)
(* calls through the entry whose index is an enumerator, and the loader    *)
(* fills the entry with what dlsym gives for the name at that index.       *)
(***************************************************************************)
EXTENDS Sequences

EnumA == <<
  "cuInit", "cuDeviceGet", "cuDeviceGetCount", "cuDeviceGetName",
  "cuDeviceTotalMem_v2", "cuDeviceGetAttribute", "cuDeviceGetP2PAttribute",
  "cuDriverGetVersion", "cuDeviceGetByPCIBusId", "cuDeviceGetPCIBusId",
  "cuDevicePrimaryCtxRetain", "cuDevicePrimaryCtxRelease",
  "cuDevicePrimaryCtxSetFlags", "cuDevicePrimaryCtxGetState",
  "cuDevicePrimaryCtxReset", "cuCtxCreate_v2", "cuCtxGetFlags",
  "cuCtxSetCurrent", "cuCtxGetCurrent", "cuCtxDetach", "cuCtxGetApiVersion",
  "cuCtxGetDevice", "cuCtxGetLimit", "cuCtxSetLimit", "cuCtxGetCacheConfig",
  "cuCtxSetCacheConfig", "cuCtxGetSharedMemConfig",
  "cuCtxGetStreamPriorityRange", "cuCtxSetSharedMemConfig",
  "cuCtxSynchronize", "cuModuleLoad", "cuModuleLoadData",
  "cuModuleLoadFatBinary", "cuModuleUnload", "cuModuleGetFunction",
  "cuModuleGetGlobal_v2", "cuModuleGetTexRef", "cuModuleGetSurfRef",
  "cuLinkCreate", "cuLinkAddData", "cuLinkAddFile", "cuLinkComplete",
  "cuLinkDestroy", "cuMemGetInfo_v2", "cuMemAllocManaged", "cuMemAlloc_v2",
  "cuMemAllocPitch_v2", "cuMemFree_v2", "cuMemGetAddressRange_v2",
  "cuMemFreeHost", "cuMemHostAlloc", "cuMemHostGetDevicePointer_v2",
  "cuMemHostGetFlags", "cuMemHostRegister_v2", "cuMemHostUnregister",
  "cuPointerGetAttribute", "cuPointerGetAttributes", "cuMemcpy",
  "cuMemcpy_ptds", "cuMemcpyAsync", "cuMemcpyAsync_ptsz", "cuMemcpyPeer",
  "cuMemcpyPeer_ptds", "cuMemcpyPeerAsync", "cuMemcpyPeerAsync_ptsz",
  "cuMemcpyHtoD_v2", "cuMemcpyHtoD_v2_ptds", "cuMemcpyHtoDAsync_v2",
  "cuMemcpyHtoDAsync_v2_ptsz", "cuMemcpyDtoH_v2", "cuMemcpyDtoH_v2_ptds",
  "cuMemcpyDtoHAsync_v2", "cuMemcpyDtoHAsync_v2_ptsz", "cuMemcpyDtoD_v2",
  "cuMemcpyDtoD_v2_ptds">>

EnumB == <<
  "cuMemcpyDtoDAsync_v2", "cuMemcpyDtoDAsync_v2_ptsz",
  "cuMemcpy2DUnaligned_v2", "cuMemcpy2DUnaligned_v2_ptds",
  "cuMemcpy2DAsync_v2", "cuMemcpy2DAsync_v2_ptsz", "cuMemcpy3D_v2",
  "cuMemcpy3D_v2_ptds", "cuMemcpy3DAsync_v2", "cuMemcpy3DAsync_v2_ptsz",
  "cuMemcpy3DPeer", "cuMemcpy3DPeer_ptds", "cuMemcpy3DPeerAsync",
  "cuMemcpy3DPeerAsync_ptsz", "cuMemsetD8_v2", "cuMemsetD8_v2_ptds",
  "cuMemsetD8Async", "cuMemsetD8Async_ptsz", "cuMemsetD2D8_v2",
  "cuMemsetD2D8_v2_ptds", "cuMemsetD2D8Async", "cuMemsetD2D8Async_ptsz",
  "cuFuncSetCacheConfig", "cuFuncSetSharedMemConfig", "cuFuncGetAttribute",
  "cuArrayCreate_v2", "cuArrayGetDescriptor_v2", "cuArray3DCreate_v2",
  "cuArray3DGetDescriptor_v2", "cuArrayDestroy", "cuMipmappedArrayCreate",
  "cuMipmappedArrayGetLevel", "cuMipmappedArrayDestroy", "cuTexRefCreate",
  "cuTexRefDestroy", "cuTexRefSetArray", "cuTexRefSetMipmappedArray",
  "cuTexRefSetAddress_v2", "cuTexRefSetAddress2D_v3", "cuTexRefSetFormat",
  "cuTexRefSetAddressMode", "cuTexRefSetFilterMode",
  "cuTexRefSetMipmapFilterMode", "cuTexRefSetMipmapLevelBias",
  "cuTexRefSetMipmapLevelClamp", "cuTexRefSetMaxAnisotropy",
  "cuTexRefSetFlags", "cuTexRefSetBorderColor", "cuTexRefGetBorderColor",
  "cuSurfRefSetArray", "cuTexObjectCreate", "cuTexObjectDestroy",
  "cuTexObjectGetResourceDesc", "cuTexObjectGetTextureDesc",
  "cuTexObjectGetResourceViewDesc", "cuSurfObjectCreate",
  "cuSurfObjectDestroy", "cuSurfObjectGetResourceDesc", "cuLaunchKernel",
  "cuLaunchKernel_ptsz", "cuEventCreate", "cuEventRecord",
  "cuEventRecord_ptsz", "cuEventQuery", "cuEventSynchronize",
  "cuEventDestroy_v2", "cuEventElapsedTime", "cuStreamWaitValue32",
  "cuStreamWaitValue32_ptsz", "cuStreamWriteValue32",
  "cuStreamWriteValue32_ptsz", "cuStreamBatchMemOp",
  "cuStreamBatchMemOp_ptsz", "cuStreamCreate", "cuStreamCreateWithPriority">>

EnumC == <<
  "cuStreamGetPriority", "cuStreamGetPriority_ptsz", "cuStreamGetFlags",
  "cuStreamGetFlags_ptsz", "cuStreamDestroy_v2", "cuStreamWaitEvent",
  "cuStreamWaitEvent_ptsz", "cuStreamAddCallback", "cuStreamAddCallback_ptsz",
  "cuStreamSynchronize", "cuStreamSynchronize_ptsz", "cuStreamQuery",
  "cuStreamQuery_ptsz", "cuStreamAttachMemAsync",
  "cuStreamAttachMemAsync_ptsz", "cuDeviceCanAccessPeer",
  "cuCtxEnablePeerAccess", "cuCtxDisablePeerAccess", "cuIpcGetEventHandle",
  "cuIpcOpenEventHandle", "cuIpcGetMemHandle", "cuIpcOpenMemHandle",
  "cuIpcCloseMemHandle", "cuGLCtxCreate_v2", "cuGLInit", "cuGLGetDevices",
  "cuGLRegisterBufferObject", "cuGLMapBufferObject_v2",
  "cuGLMapBufferObject_v2_ptds", "cuGLMapBufferObjectAsync_v2",
  "cuGLMapBufferObjectAsync_v2_ptsz", "cuGLUnmapBufferObject",
  "cuGLUnmapBufferObjectAsync", "cuGLUnregisterBufferObject",
  "cuGLSetBufferObjectMapFlags", "cuGraphicsGLRegisterImage",
  "cuGraphicsGLRegisterBuffer", "cuGraphicsUnregisterResource",
  "cuGraphicsMapResources", "cuGraphicsMapResources_ptsz",
  "cuGraphicsUnmapResources", "cuGraphicsUnmapResources_ptsz",
  "cuGraphicsResourceSetMapFlags_v2", "cuGraphicsSubResourceGetMappedArray",
  "cuGraphicsResourceGetMappedMipmappedArray",
  "cuGraphicsResourceGetMappedPointer_v2", "cuProfilerInitialize",
  "cuProfilerStart", "cuProfilerStop", "cuVDPAUGetDevice",
  "cuVDPAUCtxCreate_v2", "cuGraphicsVDPAURegisterVideoSurface",
  "cuGraphicsVDPAURegisterOutputSurface", "cuGetExportTable",
  "cuOccupancyMaxActiveBlocksPerMultiprocessor", "cuMemAdvise",
  "cuMemPrefetchAsync", "cuMemPrefetchAsync_ptsz", "cuMemRangeGetAttribute",
  "cuMemRangeGetAttributes", "cuGetErrorString", "cuGetErrorName",
  "cuArray3DCreate", "cuArray3DGetDescriptor", "cuArrayCreate",
  "cuArrayGetDescriptor", "cuCtxAttach", "cuCtxCreate", "cuCtxDestroy",
  "cuCtxDestroy_v2", "cuCtxPopCurrent", "cuCtxPopCurrent_v2",
  "cuCtxPushCurrent", "cuCtxPushCurrent_v2", "cudbgApiAttach">>

EnumD == <<
  "cudbgApiDetach", "cudbgApiInit", "cudbgGetAPI", "cudbgGetAPIVersion",
  "cudbgMain", "cudbgReportDriverApiError", "cudbgReportDriverInternalError",
  "cuDeviceComputeCapability", "cuDeviceGetProperties", "cuDeviceTotalMem",
  "cuEGLInit", "cuEGLStreamConsumerAcquireFrame",
  "cuEGLStreamConsumerConnect", "cuEGLStreamConsumerConnectWithFlags",
  "cuEGLStreamConsumerDisconnect", "cuEGLStreamConsumerReleaseFrame",
  "cuEGLStreamProducerConnect", "cuEGLStreamProducerDisconnect",
  "cuEGLStreamProducerPresentFrame", "cuEGLStreamProducerReturnFrame",
  "cuEventDestroy", "cuFuncSetAttribute", "cuFuncSetBlockShape",
  "cuFuncSetSharedSize", "cuGLCtxCreate", "cuGLGetDevices_v2",
  "cuGLMapBufferObject", "cuGLMapBufferObjectAsync",
  "cuGraphicsEGLRegisterImage", "cuGraphicsResourceGetMappedEglFrame",
  "cuGraphicsResourceGetMappedPointer", "cuGraphicsResourceSetMapFlags",
  "cuLaunch", "cuLaunchCooperativeKernel",
  "cuLaunchCooperativeKernelMultiDevice", "cuLaunchCooperativeKernel_ptsz",
  "cuLaunchGrid", "cuLaunchGridAsync", "cuLinkAddData_v2", "cuLinkAddFile_v2",
  "cuLinkCreate_v2", "cuMemAlloc", "cuMemAllocHost", "cuMemAllocHost_v2",
  "cuMemAllocPitch", "cuMemcpy2D", "cuMemcpy2DAsync", "cuMemcpy2DUnaligned",
  "cuMemcpy2D_v2", "cuMemcpy2D_v2_ptds", "cuMemcpy3D", "cuMemcpy3DAsync",
  "cuMemcpyAtoA", "cuMemcpyAtoA_v2", "cuMemcpyAtoA_v2_ptds", "cuMemcpyAtoD",
  "cuMemcpyAtoD_v2", "cuMemcpyAtoD_v2_ptds", "cuMemcpyAtoH",
  "cuMemcpyAtoHAsync", "cuMemcpyAtoHAsync_v2", "cuMemcpyAtoHAsync_v2_ptsz",
  "cuMemcpyAtoH_v2", "cuMemcpyAtoH_v2_ptds", "cuMemcpyDtoA",
  "cuMemcpyDtoA_v2", "cuMemcpyDtoA_v2_ptds", "cuMemcpyDtoD",
  "cuMemcpyDtoDAsync", "cuMemcpyDtoH", "cuMemcpyDtoHAsync", "cuMemcpyHtoA",
  "cuMemcpyHtoAAsync", "cuMemcpyHtoAAsync_v2", "cuMemcpyHtoAAsync_v2_ptsz">>

EnumE == <<
  "cuMemcpyHtoA_v2", "cuMemcpyHtoA_v2_ptds", "cuMemcpyHtoD",
  "cuMemcpyHtoDAsync", "cuMemFree", "cuMemGetAddressRange", "cuMemGetInfo",
  "cuMemHostGetDevicePointer", "cuMemHostRegister", "cuMemsetD16",
  "cuMemsetD16Async", "cuMemsetD16Async_ptsz", "cuMemsetD16_v2",
  "cuMemsetD16_v2_ptds", "cuMemsetD2D16", "cuMemsetD2D16Async",
  "cuMemsetD2D16Async_ptsz", "cuMemsetD2D16_v2", "cuMemsetD2D16_v2_ptds",
  "cuMemsetD2D32", "cuMemsetD2D32Async", "cuMemsetD2D32Async_ptsz",
  "cuMemsetD2D32_v2", "cuMemsetD2D32_v2_ptds", "cuMemsetD2D8", "cuMemsetD32",
  "cuMemsetD32Async", "cuMemsetD32Async_ptsz", "cuMemsetD32_v2",
  "cuMemsetD32_v2_ptds", "cuMemsetD8", "cuModuleGetGlobal",
  "cuModuleLoadDataEx",
  "cuOccupancyMaxActiveBlocksPerMultiprocessorWithFlags",
  "cuOccupancyMaxPotentialBlockSize",
  "cuOccupancyMaxPotentialBlockSizeWithFlags", "cuParamSetf", "cuParamSeti",
  "cuParamSetSize", "cuParamSetTexRef", "cuParamSetv",
  "cuPointerSetAttribute", "cuStreamDestroy", "cuStreamWaitValue64",
  "cuStreamWaitValue64_ptsz", "cuStreamWriteValue64",
  "cuStreamWriteValue64_ptsz", "cuSurfRefGetArray", "cuTexRefGetAddress",
  "cuTexRefGetAddressMode", "cuTexRefGetAddress_v2", "cuTexRefGetArray",
  "cuTexRefGetFilterMode", "cuTexRefGetFlags", "cuTexRefGetFormat",
  "cuTexRefGetMaxAnisotropy", "cuTexRefGetMipmapFilterMode",
  "cuTexRefGetMipmapLevelBias", "cuTexRefGetMipmapLevelClamp",
  "cuTexRefGetMipmappedArray", "cuTexRefSetAddress", "cuTexRefSetAddress2D",
  "cuTexRefSetAddress2D_v2", "cuVDPAUCtxCreate", "cuEGLApiInit",
  "cuDestroyExternalMemory", "cuDestroyExternalSemaphore", "cuDeviceGetUuid",
  "cuExternalMemoryGetMappedBuffer",
  "cuExternalMemoryGetMappedMipmappedArray", "cuGraphAddChildGraphNode",
  "cuGraphAddDependencies", "cuGraphAddEmptyNode", "cuGraphAddHostNode",
  "cuGraphAddKernelNode">>

EnumF == <<
  "cuGraphAddMemcpyNode", "cuGraphAddMemsetNode",
  "cuGraphChildGraphNodeGetGraph", "cuGraphClone", "cuGraphCreate",
  "cuGraphDestroy", "cuGraphDestroyNode", "cuGraphExecDestroy",
  "cuGraphGetEdges", "cuGraphGetNodes", "cuGraphGetRootNodes",
  "cuGraphHostNodeGetParams", "cuGraphHostNodeSetParams",
  "cuGraphInstantiate", "cuGraphKernelNodeGetParams",
  "cuGraphKernelNodeSetParams", "cuGraphLaunch", "cuGraphLaunch_ptsz",
  "cuGraphMemcpyNodeGetParams", "cuGraphMemcpyNodeSetParams",
  "cuGraphMemsetNodeGetParams", "cuGraphMemsetNodeSetParams",
  "cuGraphNodeFindInClone", "cuGraphNodeGetDependencies",
  "cuGraphNodeGetDependentNodes", "cuGraphNodeGetType",
  "cuGraphRemoveDependencies", "cuImportExternalMemory",
  "cuImportExternalSemaphore", "cuLaunchHostFunc", "cuLaunchHostFunc_ptsz",
  "cuSignalExternalSemaphoresAsync", "cuSignalExternalSemaphoresAsync_ptsz",
  "cuStreamBeginCapture", "cuStreamBeginCapture_ptsz", "cuStreamEndCapture",
  "cuStreamEndCapture_ptsz", "cuStreamGetCtx", "cuStreamGetCtx_ptsz",
  "cuStreamIsCapturing", "cuStreamIsCapturing_ptsz",
  "cuWaitExternalSemaphoresAsync", "cuWaitExternalSemaphoresAsync_ptsz",
  "cuGraphExecKernelNodeSetParams", "cuStreamBeginCapture_v2",
  "cuStreamBeginCapture_v2_ptsz", "cuStreamGetCaptureInfo",
  "cuStreamGetCaptureInfo_ptsz", "cuThreadExchangeStreamCaptureMode",
  "cuDeviceGetNvSciSyncAttributes", "cuGraphExecHostNodeSetParams",
  "cuGraphExecMemcpyNodeSetParams", "cuGraphExecMemsetNodeSetParams",
  "cuGraphExecUpdate", "cuMemAddressFree", "cuMemAddressReserve",
  "cuMemCreate", "cuMemExportToShareableHandle", "cuMemGetAccess",
  "cuMemGetAllocationGranularity", "cuMemGetAllocationPropertiesFromHandle",
  "cuMemImportFromShareableHandle", "cuMemMap", "cuMemRelease",
  "cuMemSetAccess", "cuMemUnmap">>

(* The index of an entry is one less than its position here.               *)
Enum == EnumA \o EnumB \o EnumC \o EnumD \o EnumE \o EnumF

TableA == <<
  "cuInit", "cuDeviceGet", "cuDeviceGetCount", "cuDeviceGetName",
  "cuDeviceTotalMem_v2", "cuDeviceGetAttribute", "cuDeviceGetP2PAttribute",
  "cuDriverGetVersion", "cuDeviceGetByPCIBusId", "cuDeviceGetPCIBusId",
  "cuDevicePrimaryCtxRetain", "cuDevicePrimaryCtxRelease",
  "cuDevicePrimaryCtxSetFlags", "cuDevicePrimaryCtxGetState",
  "cuDevicePrimaryCtxReset", "cuCtxCreate_v2", "cuCtxGetFlags",
  "cuCtxSetCurrent", "cuCtxGetCurrent", "cuCtxDetach", "cuCtxGetApiVersion",
  "cuCtxGetDevice", "cuCtxGetLimit", "cuCtxSetLimit", "cuCtxGetCacheConfig",
  "cuCtxSetCacheConfig", "cuCtxGetSharedMemConfig",
  "cuCtxGetStreamPriorityRange", "cuCtxSetSharedMemConfig",
  "cuCtxSynchronize", "cuModuleLoad", "cuModuleLoadData",
  "cuModuleLoadFatBinary", "cuModuleUnload", "cuModuleGetFunction",
  "cuModuleGetGlobal_v2", "cuModuleGetTexRef", "cuModuleGetSurfRef",
  "cuLinkCreate", "cuLinkAddData", "cuLinkAddFile", "cuLinkComplete",
  "cuLinkDestroy", "cuMemGetInfo_v2", "cuMemAllocManaged", "cuMemAlloc_v2",
  "cuMemAllocPitch_v2", "cuMemFree_v2", "cuMemGetAddressRange_v2",
  "cuMemFreeHost", "cuMemHostAlloc", "cuMemHostGetDevicePointer_v2",
  "cuMemHostGetFlags", "cuMemHostRegister_v2", "cuMemHostUnregister",
  "cuPointerGetAttribute", "cuPointerGetAttributes", "cuMemcpy",
  "cuMemcpy_ptds", "cuMemcpyAsync", "cuMemcpyAsync_ptsz", "cuMemcpyPeer",
  "cuMemcpyPeer_ptds", "cuMemcpyPeerAsync", "cuMemcpyPeerAsync_ptsz",
  "cuMemcpyHtoD_v2", "cuMemcpyHtoD_v2_ptds", "cuMemcpyHtoDAsync_v2",
  "cuMemcpyHtoDAsync_v2_ptsz", "cuMemcpyDtoH_v2", "cuMemcpyDtoH_v2_ptds",
  "cuMemcpyDtoHAsync_v2", "cuMemcpyDtoHAsync_v2_ptsz", "cuMemcpyDtoD_v2",
  "cuMemcpyDtoD_v2_ptds", "cuMemcpyDtoDAsync_v2", "cuMemcpyDtoDAsync_v2_ptsz",
  "cuMemcpy2DUnaligned_v2", "cuMemcpy2DUnaligned_v2_ptds",
  "cuMemcpy2DAsync_v2", "cuMemcpy2DAsync_v2_ptsz", "cuMemcpy3D_v2",
  "cuMemcpy3D_v2_ptds", "cuMemcpy3DAsync_v2", "cuMemcpy3DAsync_v2_ptsz",
  "cuMemcpy3DPeer", "cuMemcpy3DPeer_ptds", "cuMemcpy3DPeerAsync",
  "cuMemcpy3DPeerAsync_ptsz", "cuMemsetD8_v2", "cuMemsetD8_v2_ptds",
  "cuMemsetD8Async", "cuMemsetD8Async_ptsz", "cuMemsetD2D8_v2",
  "cuMemsetD2D8_v2_ptds", "cuMemsetD2D8Async", "cuMemsetD2D8Async_ptsz",
  "cuFuncSetCacheConfig", "cuFuncSetSharedMemConfig", "cuFuncGetAttribute",
  "cuArrayCreate_v2", "cuArrayGetDescriptor_v2", "cuArray3DCreate_v2",
  "cuArray3DGetDescriptor_v2", "cuArrayDestroy", "cuMipmappedArrayCreate",
  "cuMipmappedArrayGetLevel", "cuMipmappedArrayDestroy", "cuTexRefCreate",
  "cuTexRefDestroy", "cuTexRefSetArray", "cuTexRefSetMipmappedArray",
  "cuTexRefSetAddress_v2", "cuTexRefSetAddress2D_v3", "cuTexRefSetFormat",
  "cuTexRefSetAddressMode", "cuTexRefSetFilterMode",
  "cuTexRefSetMipmapFilterMode", "cuTexRefSetMipmapLevelBias",
  "cuTexRefSetMipmapLevelClamp", "cuTexRefSetMaxAnisotropy",
  "cuTexRefSetFlags", "cuTexRefSetBorderColor", "cuTexRefGetBorderColor",
  "cuSurfRefSetArray", "cuTexObjectCreate", "cuTexObjectDestroy",
  "cuTexObjectGetResourceDesc", "cuTexObjectGetTextureDesc",
  "cuTexObjectGetResourceViewDesc", "cuSurfObjectCreate",
  "cuSurfObjectDestroy", "cuSurfObjectGetResourceDesc", "cuLaunchKernel",
  "cuLaunchKernel_ptsz", "cuEventCreate", "cuEventRecord",
  "cuEventRecord_ptsz", "cuEventQuery", "cuEventSynchronize",
  "cuEventDestroy_v2", "cuEventElapsedTime", "cuStreamWaitValue32",
  "cuStreamWaitValue32_ptsz", "cuStreamWriteValue32",
  "cuStreamWriteValue32_ptsz", "cuStreamBatchMemOp">>

TableB == <<
  "cuStreamBatchMemOp_ptsz", "cuStreamCreate", "cuStreamCreateWithPriority",
  "cuStreamGetPriority", "cuStreamGetPriority_ptsz", "cuStreamGetFlags",
  "cuStreamGetFlags_ptsz", "cuStreamDestroy_v2", "cuStreamWaitEvent",
  "cuStreamWaitEvent_ptsz", "cuStreamAddCallback", "cuStreamAddCallback_ptsz",
  "cuStreamSynchronize", "cuStreamSynchronize_ptsz", "cuStreamQuery",
  "cuStreamQuery_ptsz", "cuStreamAttachMemAsync",
  "cuStreamAttachMemAsync_ptsz", "cuDeviceCanAccessPeer",
  "cuCtxEnablePeerAccess", "cuCtxDisablePeerAccess", "cuIpcGetEventHandle",
  "cuIpcOpenEventHandle", "cuIpcGetMemHandle", "cuIpcOpenMemHandle",
  "cuIpcCloseMemHandle", "cuGLCtxCreate_v2", "cuGLInit", "cuGLGetDevices",
  "cuGLRegisterBufferObject", "cuGLMapBufferObject_v2",
  "cuGLMapBufferObject_v2_ptds", "cuGLMapBufferObjectAsync_v2",
  "cuGLMapBufferObjectAsync_v2_ptsz", "cuGLUnmapBufferObject",
  "cuGLUnmapBufferObjectAsync", "cuGLUnregisterBufferObject",
  "cuGLSetBufferObjectMapFlags", "cuGraphicsGLRegisterImage",
  "cuGraphicsGLRegisterBuffer", "cuGraphicsUnregisterResource",
  "cuGraphicsMapResources", "cuGraphicsMapResources_ptsz",
  "cuGraphicsUnmapResources", "cuGraphicsUnmapResources_ptsz",
  "cuGraphicsResourceSetMapFlags_v2", "cuGraphicsSubResourceGetMappedArray",
  "cuGraphicsResourceGetMappedMipmappedArray",
  "cuGraphicsResourceGetMappedPointer_v2", "cuProfilerInitialize",
  "cuProfilerStart", "cuProfilerStop", "cuVDPAUGetDevice",
  "cuVDPAUCtxCreate_v2", "cuGraphicsVDPAURegisterVideoSurface",
  "cuGraphicsVDPAURegisterOutputSurface", "cuGetExportTable",
  "cuOccupancyMaxActiveBlocksPerMultiprocessor", "cuMemAdvise",
  "cuMemPrefetchAsync", "cuMemPrefetchAsync_ptsz", "cuMemRangeGetAttribute",
  "cuMemRangeGetAttributes", "cuGetErrorString", "cuGetErrorName",
  "cuArray3DCreate", "cuArray3DGetDescriptor", "cuArrayCreate",
  "cuArrayGetDescriptor", "cuCtxAttach", "cuCtxCreate", "cuCtxDestroy",
  "cuCtxDestroy_v2", "cuCtxPopCurrent", "cuCtxPopCurrent_v2",
  "cuCtxPushCurrent", "cuCtxPushCurrent_v2", "cudbgApiAttach",
  "cudbgApiDetach", "cudbgApiInit", "cudbgGetAPI", "cudbgGetAPIVersion",
  "cudbgMain", "cudbgReportDriverApiError", "cudbgReportDriverInternalError",
  "cuDeviceComputeCapability", "cuDeviceGetProperties", "cuDeviceTotalMem",
  "cuEGLInit", "cuEGLStreamConsumerAcquireFrame",
  "cuEGLStreamConsumerConnect", "cuEGLStreamConsumerConnectWithFlags",
  "cuEGLStreamConsumerDisconnect", "cuEGLStreamConsumerReleaseFrame",
  "cuEGLStreamProducerConnect", "cuEGLStreamProducerDisconnect",
  "cuEGLStreamProducerPresentFrame", "cuEGLStreamProducerReturnFrame",
  "cuEventDestroy", "cuFuncSetAttribute", "cuFuncSetBlockShape",
  "cuFuncSetSharedSize", "cuGLCtxCreate", "cuGLGetDevices_v2",
  "cuGLMapBufferObject", "cuGLMapBufferObjectAsync",
  "cuGraphicsEGLRegisterImage", "cuGraphicsResourceGetMappedEglFrame",
  "cuGraphicsResourceGetMappedPointer", "cuGraphicsResourceSetMapFlags",
  "cuLaunch", "cuLaunchCooperativeKernel",
  "cuLaunchCooperativeKernelMultiDevice", "cuLaunchCooperativeKernel_ptsz",
  "cuLaunchGrid", "cuLaunchGridAsync", "cuLinkAddData_v2", "cuLinkAddFile_v2",
  "cuLinkCreate_v2", "cuMemAlloc", "cuMemAllocHost", "cuMemAllocHost_v2",
  "cuMemAllocPitch", "cuMemcpy2D", "cuMemcpy2DAsync", "cuMemcpy2DUnaligned",
  "cuMemcpy2D_v2", "cuMemcpy2D_v2_ptds", "cuMemcpy3D", "cuMemcpy3DAsync",
  "cuMemcpyAtoA", "cuMemcpyAtoA_v2", "cuMemcpyAtoA_v2_ptds", "cuMemcpyAtoD",
  "cuMemcpyAtoD_v2", "cuMemcpyAtoD_v2_ptds", "cuMemcpyAtoH",
  "cuMemcpyAtoHAsync", "cuMemcpyAtoHAsync_v2", "cuMemcpyAtoHAsync_v2_ptsz",
  "cuMemcpyAtoH_v2", "cuMemcpyAtoH_v2_ptds", "cuMemcpyDtoA",
  "cuMemcpyDtoA_v2", "cuMemcpyDtoA_v2_ptds", "cuMemcpyDtoD",
  "cuMemcpyDtoDAsync">>

TableC == <<
  "cuMemcpyDtoH", "cuMemcpyDtoHAsync", "cuMemcpyHtoA", "cuMemcpyHtoAAsync",
  "cuMemcpyHtoAAsync_v2", "cuMemcpyHtoAAsync_v2_ptsz", "cuMemcpyHtoA_v2",
  "cuMemcpyHtoA_v2_ptds", "cuMemcpyHtoD", "cuMemcpyHtoDAsync", "cuMemFree",
  "cuMemGetAddressRange", "cuMemGetInfo", "cuMemHostGetDevicePointer",
  "cuMemHostRegister", "cuMemsetD16", "cuMemsetD16Async",
  "cuMemsetD16Async_ptsz", "cuMemsetD16_v2", "cuMemsetD16_v2_ptds",
  "cuMemsetD2D16", "cuMemsetD2D16Async", "cuMemsetD2D16Async_ptsz",
  "cuMemsetD2D16_v2", "cuMemsetD2D16_v2_ptds", "cuMemsetD2D32",
  "cuMemsetD2D32Async", "cuMemsetD2D32Async_ptsz", "cuMemsetD2D32_v2",
  "cuMemsetD2D32_v2_ptds", "cuMemsetD2D8", "cuMemsetD32", "cuMemsetD32Async",
  "cuMemsetD32Async_ptsz", "cuMemsetD32_v2", "cuMemsetD32_v2_ptds",
  "cuMemsetD8", "cuModuleGetGlobal", "cuModuleLoadDataEx",
  "cuOccupancyMaxActiveBlocksPerMultiprocessorWithFlags",
  "cuOccupancyMaxPotentialBlockSize",
  "cuOccupancyMaxPotentialBlockSizeWithFlags", "cuParamSetf", "cuParamSeti",
  "cuParamSetSize", "cuParamSetTexRef", "cuParamSetv",
  "cuPointerSetAttribute", "cuStreamDestroy", "cuStreamWaitValue64",
  "cuStreamWaitValue64_ptsz", "cuStreamWriteValue64",
  "cuStreamWriteValue64_ptsz", "cuSurfRefGetArray", "cuTexRefGetAddress",
  "cuTexRefGetAddressMode", "cuTexRefGetAddress_v2", "cuTexRefGetArray",
  "cuTexRefGetFilterMode", "cuTexRefGetFlags", "cuTexRefGetFormat",
  "cuTexRefGetMaxAnisotropy", "cuTexRefGetMipmapFilterMode",
  "cuTexRefGetMipmapLevelBias", "cuTexRefGetMipmapLevelClamp",
  "cuTexRefGetMipmappedArray", "cuTexRefSetAddress", "cuTexRefSetAddress2D",
  "cuTexRefSetAddress2D_v2", "cuVDPAUCtxCreate", "cuEGLApiInit",
  "cuDestroyExternalMemory", "cuDestroyExternalSemaphore", "cuDeviceGetUuid",
  "cuExternalMemoryGetMappedBuffer",
  "cuExternalMemoryGetMappedMipmappedArray", "cuGraphAddChildGraphNode",
  "cuGraphAddDependencies", "cuGraphAddEmptyNode", "cuGraphAddHostNode",
  "cuGraphAddKernelNode", "cuGraphAddMemcpyNode", "cuGraphAddMemsetNode",
  "cuGraphChildGraphNodeGetGraph", "cuGraphClone", "cuGraphCreate",
  "cuGraphDestroy", "cuGraphDestroyNode", "cuGraphExecDestroy",
  "cuGraphGetEdges", "cuGraphGetNodes", "cuGraphGetRootNodes",
  "cuGraphHostNodeGetParams", "cuGraphHostNodeSetParams",
  "cuGraphInstantiate", "cuGraphKernelNodeGetParams",
  "cuGraphKernelNodeSetParams", "cuGraphLaunch", "cuGraphLaunch_ptsz",
  "cuGraphMemcpyNodeGetParams", "cuGraphMemcpyNodeSetParams",
  "cuGraphMemsetNodeGetParams", "cuGraphMemsetNodeSetParams",
  "cuGraphNodeFindInClone", "cuGraphNodeGetDependencies",
  "cuGraphNodeGetDependentNodes", "cuGraphNodeGetType",
  "cuGraphRemoveDependencies", "cuImportExternalMemory",
  "cuImportExternalSemaphore", "cuLaunchHostFunc", "cuLaunchHostFunc_ptsz",
  "cuSignalExternalSemaphoresAsync", "cuSignalExternalSemaphoresAsync_ptsz",
  "cuStreamBeginCapture", "cuStreamBeginCapture_ptsz", "cuStreamEndCapture",
  "cuStreamEndCapture_ptsz", "cuStreamGetCtx", "cuStreamGetCtx_ptsz",
  "cuStreamIsCapturing", "cuStreamIsCapturing_ptsz",
  "cuWaitExternalSemaphoresAsync", "cuWaitExternalSemaphoresAsync_ptsz",
  "cuGraphExecKernelNodeSetParams", "cuStreamBeginCapture_v2",
  "cuStreamBeginCapture_v2_ptsz", "cuStreamGetCaptureInfo",
  "cuStreamGetCaptureInfo_ptsz", "cuThreadExchangeStreamCaptureMode",
  "cuDeviceGetNvSciSyncAttributes", "cuGraphExecHostNodeSetParams",
  "cuGraphExecMemcpyNodeSetParams", "cuGraphExecMemsetNodeSetParams",
  "cuGraphExecUpdate", "cuMemAddressFree", "cuMemAddressReserve",
  "cuMemCreate", "cuMemExportToShareableHandle", "cuMemGetAccess",
  "cuMemGetAllocationGranularity", "cuMemGetAllocationPropertiesFromHandle",
  "cuMemImportFromShareableHandle", "cuMemMap", "cuMemRelease",
  "cuMemSetAccess", "cuMemUnmap">>

(* The table with two of its parts exchanged: its length stays the same.   *)
TableM == TableA \o TableC \o TableB
Table  == TableA \o TableB \o TableC

DeviceCalls == {
  "cuDeviceGet", "cuDeviceGetCount", "cuDeviceGetName",
  "cuDeviceGetP2PAttribute", "cuDeviceGetByPCIBusId", "cuDeviceGetPCIBusId",
  "cuDevicePrimaryCtxRetain", "cuDevicePrimaryCtxRelease",
  "cuDevicePrimaryCtxSetFlags", "cuDevicePrimaryCtxGetState",
  "cuDevicePrimaryCtxReset"}

ContextCalls == {
  "cuCtxCreate_v2", "cuCtxCreate", "cuCtxGetFlags", "cuCtxSetCurrent",
  "cuCtxGetCurrent", "cuCtxDetach", "cuCtxGetApiVersion", "cuCtxGetDevice",
  "cuCtxGetLimit", "cuCtxGetCacheConfig", "cuCtxSetCacheConfig",
  "cuCtxGetSharedMemConfig", "cuCtxGetStreamPriorityRange",
  "cuCtxSetSharedMemConfig", "cuCtxSynchronize"}

ModuleCalls == {
  "cuModuleUnload", "cuModuleGetFunction", "cuModuleGetGlobal_v2",
  "cuModuleGetGlobal", "cuModuleGetTexRef", "cuModuleGetSurfRef",
  "cuLinkCreate_v2", "cuLinkCreate", "cuLinkAddData_v2", "cuLinkAddData",
  "cuLinkAddFile_v2", "cuLinkAddFile", "cuLinkComplete", "cuLinkDestroy"}

MemoryCalls == {
  "cuMemGetAddressRange_v2", "cuMemGetAddressRange", "cuMemFreeHost",
  "cuMemHostAlloc", "cuMemHostGetDevicePointer_v2",
  "cuMemHostGetDevicePointer", "cuMemHostGetFlags", "cuMemHostRegister_v2",
  "cuMemHostRegister", "cuMemHostUnregister", "cuPointerGetAttribute",
  "cuPointerGetAttributes"}

CopyCalls == {
  "cuMemcpy_ptds", "cuMemcpy", "cuMemcpyAsync_ptsz", "cuMemcpyAsync",
  "cuMemcpyPeer_ptds", "cuMemcpyPeer", "cuMemcpyPeerAsync_ptsz",
  "cuMemcpyPeerAsync", "cuMemcpyHtoD_v2_ptds", "cuMemcpyHtoD_v2",
  "cuMemcpyHtoD", "cuMemcpyHtoDAsync_v2_ptsz", "cuMemcpyHtoDAsync_v2",
  "cuMemcpyHtoDAsync", "cuMemcpyDtoH_v2_ptds", "cuMemcpyDtoH_v2",
  "cuMemcpyDtoH"}

CopyAsyncCalls == {
  "cuMemcpyDtoHAsync_v2_ptsz", "cuMemcpyDtoHAsync_v2", "cuMemcpyDtoHAsync",
  "cuMemcpyDtoD_v2_ptds", "cuMemcpyDtoD_v2", "cuMemcpyDtoD",
  "cuMemcpyDtoDAsync_v2_ptsz", "cuMemcpyDtoDAsync_v2", "cuMemcpyDtoDAsync",
  "cuMemcpy2DUnaligned_v2_ptds", "cuMemcpy2DUnaligned_v2",
  "cuMemcpy2DUnaligned", "cuMemcpy2DAsync_v2_ptsz", "cuMemcpy2DAsync_v2",
  "cuMemcpy2DAsync", "cuMemcpy3D_v2_ptds", "cuMemcpy3D_v2", "cuMemcpy3D",
  "cuMemcpy3DAsync_v2_ptsz", "cuMemcpy3DAsync_v2", "cuMemcpy3DAsync",
  "cuMemcpy3DPeer_ptds", "cuMemcpy3DPeer", "cuMemcpy3DPeerAsync_ptsz",
  "cuMemcpy3DPeerAsync"}

SetCalls == {
  "cuMemsetD8_v2_ptds", "cuMemsetD8_v2", "cuMemsetD8", "cuMemsetD8Async_ptsz",
  "cuMemsetD8Async", "cuMemsetD2D8_v2_ptds", "cuMemsetD2D8_v2",
  "cuMemsetD2D8", "cuMemsetD2D8Async_ptsz", "cuMemsetD2D8Async"}

FunctionCalls == {
  "cuFuncSetCacheConfig", "cuFuncSetSharedMemConfig", "cuFuncGetAttribute",
  "cuArrayGetDescriptor_v2", "cuArrayGetDescriptor",
  "cuArray3DGetDescriptor_v2", "cuArray3DGetDescriptor",
  "cuMipmappedArrayGetLevel"}

TextureCalls == {
  "cuTexRefCreate", "cuTexRefDestroy", "cuTexRefSetArray",
  "cuTexRefSetMipmappedArray", "cuTexRefSetAddress_v2",
  "cuTexRefSetAddress2D_v3", "cuTexRefSetAddress2D_v2",
  "cuTexRefSetAddress2D", "cuTexRefSetFormat", "cuTexRefSetAddressMode",
  "cuTexRefSetFilterMode", "cuTexRefSetMipmapFilterMode",
  "cuTexRefSetMipmapLevelBias", "cuTexRefSetMipmapLevelClamp",
  "cuTexRefSetMaxAnisotropy", "cuTexRefSetFlags", "cuTexRefSetBorderColor",
  "cuTexRefGetBorderColor", "cuSurfRefSetArray", "cuTexObjectCreate",
  "cuTexObjectDestroy", "cuTexObjectGetResourceDesc",
  "cuTexObjectGetTextureDesc", "cuTexObjectGetResourceViewDesc",
  "cuSurfObjectCreate", "cuSurfObjectDestroy", "cuSurfObjectGetResourceDesc"}

EventCalls == {
  "cuEventCreate", "cuEventRecord", "cuEventRecord_ptsz", "cuEventQuery",
  "cuEventSynchronize", "cuEventDestroy_v2", "cuEventDestroy",
  "cuEventElapsedTime", "cuStreamWaitValue32", "cuStreamWaitValue32_ptsz",
  "cuStreamWriteValue32", "cuStreamWriteValue32_ptsz", "cuStreamBatchMemOp",
  "cuStreamBatchMemOp_ptsz"}

StreamCalls == {
  "cuStreamCreate", "cuStreamCreateWithPriority", "cuStreamGetPriority",
  "cuStreamGetPriority_ptsz", "cuStreamGetFlags", "cuStreamGetFlags_ptsz",
  "cuStreamDestroy_v2", "cuStreamDestroy", "cuStreamWaitEvent",
  "cuStreamWaitEvent_ptsz", "cuStreamAddCallback", "cuStreamAddCallback_ptsz",
  "cuStreamSynchronize", "cuStreamSynchronize_ptsz", "cuStreamQuery",
  "cuStreamQuery_ptsz", "cuStreamAttachMemAsync",
  "cuStreamAttachMemAsync_ptsz"}

PeerCalls == {
  "cuDeviceCanAccessPeer", "cuCtxEnablePeerAccess", "cuCtxDisablePeerAccess",
  "cuIpcGetEventHandle", "cuIpcOpenEventHandle", "cuIpcGetMemHandle",
  "cuIpcOpenMemHandle", "cuIpcCloseMemHandle"}

GLCalls == {
  "cuGLCtxCreate_v2", "cuGLCtxCreate", "cuGLInit", "cuGLGetDevices_v2",
  "cuGLGetDevices", "cuGLRegisterBufferObject", "cuGLMapBufferObject_v2_ptds",
  "cuGLMapBufferObject_v2", "cuGLMapBufferObject",
  "cuGLMapBufferObjectAsync_v2_ptsz", "cuGLMapBufferObjectAsync_v2",
  "cuGLMapBufferObjectAsync", "cuGLUnmapBufferObject",
  "cuGLUnmapBufferObjectAsync", "cuGLUnregisterBufferObject",
  "cuGLSetBufferObjectMapFlags"}

GraphicsCalls == {
  "cuGraphicsGLRegisterImage", "cuGraphicsGLRegisterBuffer",
  "cuGraphicsUnregisterResource", "cuGraphicsMapResources_ptsz",
  "cuGraphicsMapResources", "cuGraphicsUnmapResources_ptsz",
  "cuGraphicsUnmapResources", "cuGraphicsResourceSetMapFlags_v2",
  "cuGraphicsSubResourceGetMappedArray",
  "cuGraphicsResourceGetMappedMipmappedArray",
  "cuGraphicsResourceGetMappedPointer_v2", "cuProfilerInitialize",
  "cuProfilerStart", "cuProfilerStop"}

VideoCalls == {
  "cuVDPAUGetDevice", "cuVDPAUCtxCreate_v2", "cuVDPAUCtxCreate",
  "cuGraphicsVDPAURegisterVideoSurface",
  "cuGraphicsVDPAURegisterOutputSurface", "cuGetExportTable",
  "cuOccupancyMaxActiveBlocksPerMultiprocessor"}

AdviseCalls == {
  "cuMemAdvise", "cuMemPrefetchAsync_ptsz", "cuMemPrefetchAsync",
  "cuMemRangeGetAttribute", "cuMemRangeGetAttributes"}

StackCalls == {
  "cuCtxSetLimit", "cuModuleLoad", "cuModuleLoadData",
  "cuModuleLoadFatBinary", "cuGetErrorString", "cuGetErrorName",
  "cuCtxAttach", "cuCtxDestroy_v2", "cuCtxDestroy", "cuCtxPopCurrent_v2",
  "cuCtxPopCurrent", "cuCtxPushCurrent_v2", "cuCtxPushCurrent"}

DebugCalls == {
  "cudbgApiInit", "cudbgApiAttach", "cudbgApiDetach", "cudbgGetAPI",
  "cudbgGetAPIVersion", "cudbgMain", "cudbgReportDriverApiError",
  "cudbgReportDriverInternalError", "cuDeviceComputeCapability",
  "cuDeviceGetProperties"}

EGLCalls == {
  "cuEGLInit", "cuEGLApiInit", "cuEGLStreamConsumerAcquireFrame",
  "cuEGLStreamConsumerConnect", "cuEGLStreamConsumerConnectWithFlags",
  "cuEGLStreamConsumerDisconnect", "cuEGLStreamConsumerReleaseFrame",
  "cuEGLStreamProducerConnect", "cuEGLStreamProducerDisconnect",
  "cuEGLStreamProducerPresentFrame", "cuEGLStreamProducerReturnFrame"}

MoreCalls == {
  "cuFuncSetAttribute", "cuFuncSetSharedSize", "cuGraphicsEGLRegisterImage",
  "cuGraphicsResourceGetMappedEglFrame", "cuGraphicsResourceGetMappedPointer",
  "cuGraphicsResourceSetMapFlags", "cuLaunchCooperativeKernelMultiDevice",
  "cuMemAllocHost_v2", "cuMemAllocHost"}

ArrayCopyCalls == {
  "cuMemcpy2D_v2", "cuMemcpy2D", "cuMemcpyAtoA_v2_ptds", "cuMemcpyAtoA_v2",
  "cuMemcpyAtoA", "cuMemcpyAtoD", "cuMemcpyAtoD_v2", "cuMemcpyAtoD_v2_ptds",
  "cuMemcpyAtoH_v2_ptds", "cuMemcpyAtoH_v2", "cuMemcpyAtoH",
  "cuMemcpyAtoHAsync_v2_ptsz", "cuMemcpyAtoHAsync_v2", "cuMemcpyAtoHAsync",
  "cuMemcpyDtoA_v2_ptds", "cuMemcpyDtoA_v2", "cuMemcpyDtoA",
  "cuMemcpyHtoA_v2_ptds", "cuMemcpyHtoA_v2", "cuMemcpyHtoA",
  "cuMemcpyHtoAAsync_v2_ptsz", "cuMemcpyHtoAAsync_v2", "cuMemcpyHtoAAsync"}

WideSetCalls == {
  "cuMemsetD16_v2_ptds", "cuMemsetD16_v2", "cuMemsetD16",
  "cuMemsetD16Async_ptsz", "cuMemsetD16Async", "cuMemsetD2D16_v2_ptds",
  "cuMemsetD2D16_v2", "cuMemsetD2D16", "cuMemsetD2D16Async_ptsz",
  "cuMemsetD2D16Async", "cuMemsetD2D32_v2_ptds", "cuMemsetD2D32_v2",
  "cuMemsetD2D32", "cuMemsetD2D32Async_ptsz", "cuMemsetD2D32Async",
  "cuMemsetD32_v2_ptds", "cuMemsetD32_v2", "cuMemsetD32",
  "cuMemsetD32Async_ptsz", "cuMemsetD32Async"}

ParamCalls == {
  "cuModuleLoadDataEx",
  "cuOccupancyMaxActiveBlocksPerMultiprocessorWithFlags",
  "cuOccupancyMaxPotentialBlockSize",
  "cuOccupancyMaxPotentialBlockSizeWithFlags", "cuParamSetf", "cuParamSeti",
  "cuParamSetSize", "cuParamSetTexRef", "cuParamSetv", "cuPointerSetAttribute"}

StreamMemCalls == {
  "cuStreamWaitValue64_ptsz", "cuStreamWaitValue64",
  "cuStreamWriteValue64_ptsz", "cuStreamWriteValue64"}

TextureGetCalls == {
  "cuSurfRefGetArray", "cuTexRefGetAddress_v2", "cuTexRefGetAddress",
  "cuTexRefGetAddressMode", "cuTexRefGetArray", "cuTexRefGetFilterMode",
  "cuTexRefGetFlags", "cuTexRefGetFormat", "cuTexRefGetMaxAnisotropy",
  "cuTexRefGetMipmapFilterMode", "cuTexRefGetMipmapLevelBias",
  "cuTexRefGetMipmapLevelClamp", "cuTexRefGetMipmappedArray",
  "cuTexRefSetAddress"}

ExternalCalls == {
  "cuDeviceGetAttribute", "cuDestroyExternalMemory",
  "cuDestroyExternalSemaphore", "cuDeviceGetUuid",
  "cuExternalMemoryGetMappedBuffer", "cuExternalMemoryGetMappedMipmappedArray"}

GraphCalls == {
  "cuGraphAddChildGraphNode", "cuGraphAddDependencies", "cuGraphAddEmptyNode",
  "cuGraphAddHostNode", "cuGraphAddKernelNode", "cuGraphAddMemcpyNode",
  "cuGraphAddMemsetNode", "cuGraphChildGraphNodeGetGraph", "cuGraphClone",
  "cuGraphCreate", "cuGraphDestroy", "cuGraphDestroyNode",
  "cuGraphExecDestroy", "cuGraphGetEdges", "cuGraphGetNodes",
  "cuGraphGetRootNodes", "cuGraphHostNodeGetParams",
  "cuGraphHostNodeSetParams"}

GraphNodeCalls == {
  "cuGraphInstantiate", "cuGraphKernelNodeGetParams",
  "cuGraphKernelNodeSetParams", "cuGraphLaunch", "cuGraphLaunch_ptsz",
  "cuGraphMemcpyNodeGetParams", "cuGraphMemcpyNodeSetParams",
  "cuGraphMemsetNodeGetParams", "cuGraphMemsetNodeSetParams",
  "cuGraphNodeFindInClone", "cuGraphNodeGetDependencies",
  "cuGraphNodeGetDependentNodes", "cuGraphNodeGetType",
  "cuGraphRemoveDependencies"}

CaptureCalls == {
  "cuImportExternalMemory", "cuImportExternalSemaphore", "cuLaunchHostFunc",
  "cuLaunchHostFunc_ptsz", "cuSignalExternalSemaphoresAsync",
  "cuSignalExternalSemaphoresAsync_ptsz", "cuStreamBeginCapture",
  "cuStreamBeginCapture_ptsz", "cuStreamEndCapture",
  "cuStreamEndCapture_ptsz", "cuStreamGetCtx", "cuStreamGetCtx_ptsz",
  "cuStreamIsCapturing", "cuStreamIsCapturing_ptsz",
  "cuWaitExternalSemaphoresAsync", "cuWaitExternalSemaphoresAsync_ptsz"}

UpdateCalls == {
  "cuGraphExecKernelNodeSetParams", "cuStreamBeginCapture_v2",
  "cuStreamBeginCapture_v2_ptsz", "cuStreamGetCaptureInfo",
  "cuStreamGetCaptureInfo_ptsz", "cuThreadExchangeStreamCaptureMode",
  "cuDeviceGetNvSciSyncAttributes", "cuGraphExecHostNodeSetParams",
  "cuGraphExecMemcpyNodeSetParams", "cuGraphExecMemsetNodeSetParams",
  "cuGraphExecUpdate"}

VirtualMemoryCalls == {
  "cuMemAddressFree", "cuMemAddressReserve", "cuMemCreate",
  "cuMemExportToShareableHandle", "cuMemGetAccess",
  "cuMemGetAllocationGranularity", "cuMemGetAllocationPropertiesFromHandle",
  "cuMemImportFromShareableHandle", "cuMemMap", "cuMemRelease",
  "cuMemSetAccess", "cuMemUnmap"}

LaunchCalls == {
  "cuLaunchKernel_ptsz", "cuLaunchKernel", "cuLaunch",
  "cuLaunchCooperativeKernel_ptsz", "cuLaunchCooperativeKernel",
  "cuLaunchGrid", "cuLaunchGridAsync", "cuFuncSetBlockShape"}

Hijacked == {
  "cuDriverGetVersion", "cuInit", "cuMemAllocManaged", "cuMemAlloc_v2",
  "cuMemAlloc", "cuMemAllocPitch_v2", "cuMemAllocPitch", "cuArrayCreate_v2",
  "cuArrayCreate", "cuArray3DCreate_v2", "cuArray3DCreate",
  "cuMipmappedArrayCreate", "cuDeviceTotalMem_v2", "cuDeviceTotalMem",
  "cuMemFree_v2", "cuMemFree", "cuArrayDestroy", "cuMipmappedArrayDestroy"}

Forwarded ==
  DeviceCalls \cup ContextCalls \cup ModuleCalls \cup MemoryCalls \cup
  CopyCalls \cup CopyAsyncCalls \cup SetCalls \cup FunctionCalls \cup
  TextureCalls \cup EventCalls \cup StreamCalls \cup PeerCalls \cup
  GLCalls \cup GraphicsCalls \cup VideoCalls \cup AdviseCalls \cup
  StackCalls \cup DebugCalls \cup EGLCalls \cup MoreCalls \cup
  ArrayCopyCalls \cup WideSetCalls \cup ParamCalls \cup StreamMemCalls \cup
  TextureGetCalls \cup ExternalCalls \cup GraphCalls \cup GraphNodeCalls \cup
  CaptureCalls \cup UpdateCalls \cup VirtualMemoryCalls \cup LaunchCalls

(* The entry that wrapper w calls through.                                 *)
Target(w) ==
  IF w = "cuGraphicsResourceGetMappedEglFrame" THEN "cuGraphicsEGLRegisterImage"
  ELSE w
=============================================================================
